---------------------------- MODULE WorkerProofs ----------------------------
(***************************************************************************)
(* Proofs about the processes of a conversion worker.                      *)
(*                                                                         *)
(* Of WorkerTree, for any number of launches and of daemons: Consistent,   *)
(* OwnPipesOnly and RestartCleans.                                         *)
(*                                                                         *)
(* Of TipHost, the program at the tree's leaf, for any lines, other        *)
(* senders, modes and lengths of a reading: HostConsistent, NoResidue,     *)
(* SurvivesTeardown and Stream.                                            *)
(***************************************************************************)
EXTENDS WorkerTree, TipHost, SequenceTheorems, TLAPS

\* Between its lives, and before it warms up, a daemon has no descriptors and no worker.
DaemonOK ==
    /\ daemon \in {"down", "setup", "reset"} => has = {} /\ \A e \in Engines : pc[e] = "idle"
    /\ daemon \in {"warming", "serving"} => servers = "launched"

\* No launch is of a later daemon; one that has not warmed up has launched nothing.
LivesOK ==
    /\ daemon # "down" => life > 0
    /\ \A l \in Launches : tree[l].life <= life
    /\ daemon \in {"setup", "reset"} => \A l \in Launches : tree[l].life # life

\* The launch an engine has in hand is its own.
EnginesOK == \A e \in Engines :
    /\ pc[e] = "idle" => child[e] = 0 /\ ~awaits[e]
    /\ pc[e] # "idle" =>
           /\ child[e] \in Launches
           /\ tree[child[e]].of = e /\ tree[child[e]].life = life
           /\ pc[e] \in {"pipe1", "pipe2"} <=> tree[child[e]].shell = "none"
    /\ awaits[e] => pc[e] = "open"

\* The ends the daemon has open, for each step of a spawn.
PipesOK == \A e \in Engines : pc[e] # "idle" =>
    /\ InR(child[e]) \in has <=> pc[e] \in {"pipe1", "pipe2", "forked"}
    /\ InW(child[e]) \in has
    /\ OutR(child[e]) \in has <=> pc[e] # "pipe1"
    /\ OutW(child[e]) \in has <=> pc[e] \in {"pipe2", "forked"}

\* What it has open of launches that no engine has in hand.
LeftOK == \A l \in Launches : ~Used(l) =>
    /\ OutR(l) \notin has /\ OutW(l) \notin has
    /\ InR(l) \in has <=> InW(l) \in has
    /\ InR(l) \in has => tree[l].shell = "none"

\* The processes of a launch and what they were given.
TreeOK == \A l \in Launches :
    /\ tree[l].shell = "none" => tree[l].wine = "none" /\ tree[l].inherited = {}
    /\ tree[l].shell = "layout" => tree[l].wine = "none"
    /\ tree[l].shell # "none" => {InR(l), OutW(l)} \subseteq tree[l].inherited

\* Nobody has the pipes of a launch that is still to come.
FreshOK == \A l \in Launches : tree[l].life = 0 =>
    /\ tree[l].shell = "none"
    /\ PipeEnds(l) \cap has = {}
    /\ \A m \in Launches : PipeEnds(l) \cap tree[m].inherited = {}

\* The pipes in hand were made after the earlier workers of their engine were forked.
ApartOK == \A e \in Engines : pc[e] # "idle" =>
    \A m \in Launches : m # child[e] /\ tree[m].of = e =>
        PipeEnds(child[e]) \cap tree[m].inherited = {}

ForkedApart == \A l, m \in Launches :
    l # m /\ tree[l].shell # "none" /\ tree[m].of = tree[l].of =>
        PipeEnds(l) \cap tree[m].inherited = {}

IInv == /\ TypeOK /\ DaemonOK /\ LivesOK /\ EnginesOK /\ PipesOK /\ LeftOK /\ TreeOK
        /\ FreshOK /\ ApartOK /\ ForkedApart /\ ShellsKnown /\ RestartCleans
-----------------------------------------------------------------------------
(***************************************************************************)
(* Descriptors are distinct; from here on only that is used of them.       *)
(***************************************************************************)
LEMMA EndsDistinct == \A l, m \in Launches :
    /\ InR(l) # InW(m) /\ InR(l) # OutR(m) /\ InR(l) # OutW(m)
    /\ InW(l) # OutR(m) /\ InW(l) # OutW(m) /\ OutR(l) # OutW(m)
    /\ InR(l) = InR(m) => l = m
    /\ InW(l) = InW(m) => l = m
    /\ OutR(l) = OutR(m) => l = m
    /\ OutW(l) = OutW(m) => l = m
  BY DEF InR, InW, OutR, OutW

\* The ends of a launch, one by one.
LEMMA EndsNamed == \A l \in Launches : \A d :
    d \in PipeEnds(l) <=> d = InR(l) \/ d = InW(l) \/ d = OutR(l) \/ d = OutW(l)
  BY DEF PipeEnds

\* Sockets are not pipes.
LEMMA SocketsDistinct ==
    /\ \A l \in Launches : Listen \notin PipeEnds(l) /\ Conn \notin PipeEnds(l)
    /\ {Listen, Conn} \subseteq Descriptors
    /\ \A l \in Launches : PipeEnds(l) \subseteq Descriptors
  <1>1. \A l \in Launches : Listen \notin PipeEnds(l) /\ Conn \notin PipeEnds(l)
    BY DEF Listen, Conn, PipeEnds, InR, InW, OutR, OutW
  <1> QED BY <1>1 DEF Descriptors

\* Nothing is open and nothing runs before the first daemon.
LEMMA InitIInv == Init => IInv
  BY TreeAssumption DEF Init, IInv, TypeOK, DaemonOK, LivesOK, EnginesOK, PipesOK, LeftOK, TreeOK,
    FreshOK, ApartOK, ForkedApart, ShellsKnown, RestartCleans, NoTree, Own, Used, Launches, Running
-----------------------------------------------------------------------------
(***************************************************************************)
(* What most steps leave alone.                                            *)
(***************************************************************************)
SamePipes == \A l \in Launches : \A d \in PipeEnds(l) : d \in has' <=> d \in has

\* Neither who launched what, nor the shells, nor what was inherited.
SameShells == \A l \in Launches : /\ tree'[l].shell = tree[l].shell
                                  /\ tree'[l].inherited = tree[l].inherited
                                  /\ tree'[l].of = tree[l].of
                                  /\ tree'[l].life = tree[l].life

\* A daemon's pipes and shells stay in order where a step leaves both alone.
LEMMA StillInOrder ==
    ASSUME IInv, SamePipes, SameShells, UNCHANGED <<pc, child>>
    PROVE  PipesOK' /\ LeftOK' /\ FreshOK' /\ ApartOK' /\ ForkedApart'
  <1>1. PipesOK' /\ LeftOK'
    BY EndsNamed DEF IInv, EnginesOK, PipesOK, LeftOK, Used, SamePipes, SameShells
  <1>2. FreshOK'
    BY DEF IInv, FreshOK, SamePipes, SameShells
  <1>3. ApartOK' /\ ForkedApart'
    BY DEF IInv, ApartOK, ForkedApart, SameShells
  <1> QED BY <1>1, <1>2, <1>3

\* Steps of the daemon and of the host that touch no pipe and no process.
LEMMA DaemonSteps ==
    ASSUME IInv, Start \/ PrepareServers \/ Serve \/ Accept \/ Leave \/ ClientSeesEnd
    PROVE  IInv'
  <1> USE DEF daemonVars, engineVars
  <1>1. UNCHANGED <<pc, child, awaits, tree>>
    BY DEF Start, PrepareServers, Serve, Accept, Leave, ClientSeesEnd
  <1>2. SamePipes
    BY SocketsDistinct
    DEF SamePipes, Start, PrepareServers, Serve, Accept, Leave, ClientSeesEnd
  <1>3. PipesOK' /\ LeftOK' /\ FreshOK' /\ ApartOK' /\ ForkedApart'
    BY <1>1, <1>2, StillInOrder DEF SameShells
  <1>4. TypeOK'
    BY <1>1, TreeAssumption, SocketsDistinct
    DEF IInv, TypeOK, Start, PrepareServers, Serve, Accept, Leave, ClientSeesEnd
  <1>5. DaemonOK'
    BY DEF IInv, DaemonOK, Start, PrepareServers, Serve, Accept, Leave, ClientSeesEnd
  <1>6. LivesOK'
    BY TreeAssumption
    DEF IInv, TypeOK, LivesOK, Start, PrepareServers, Serve, Accept, Leave, ClientSeesEnd
  <1>7. EnginesOK' /\ ShellsKnown'
    BY <1>1 DEF IInv, TypeOK, DaemonOK, LivesOK, EnginesOK, ShellsKnown, Own,
                Start, PrepareServers, Serve, Accept, Leave, ClientSeesEnd
  <1>8. TreeOK'
    BY <1>1 DEF IInv, TreeOK
  <1>9. RestartCleans'
    BY <1>1 DEF IInv, RestartCleans, Running,
                Start, PrepareServers, Serve, Accept, Leave, ClientSeesEnd
  <1> QED BY <1>3, <1>4, <1>5, <1>6, <1>7, <1>8, <1>9 DEF IInv
-----------------------------------------------------------------------------
(***************************************************************************)
(* Giving up: a daemon that ends, a worker that is terminated, a spawn     *)
(* that fails.                                                             *)
(***************************************************************************)
Trees == [shell : {"none", "layout", "waits", "gone"},
          wine : {"none", "busy", "reads", "deaf", "hung", "gone"},
          inherited : SUBSET Descriptors,
          line : BOOLEAN, said : BOOLEAN, of : {Batch, Live},
          life : 0..MaxLives, ran : 0..MaxLives]

\* All that a step does to the processes is to end shells.
ShellsEnd ==
    /\ tree' \in [Launches -> Trees]
    /\ \A l \in Launches : /\ tree'[l].shell \in {tree[l].shell, "gone"}
                           /\ tree[l].shell = "none" <=> tree'[l].shell = "none"
                           /\ tree'[l].wine = tree[l].wine
                           /\ tree'[l].inherited = tree[l].inherited
                           /\ tree'[l].of = tree[l].of
                           /\ tree'[l].life = tree[l].life
                           /\ tree'[l].ran = tree[l].ran

\* A step that leaves all processes alone.
LEMMA UnchangedShells ==
    ASSUME TypeOK, UNCHANGED tree
    PROVE  ShellsEnd
  BY DEF TypeOK, Trees, ShellsEnd

\* The signal of terminate.
LEMMA SignalledShell ==
    ASSUME TypeOK, NEW l \in Launches, tree[l].shell # "none",
           tree' = [tree EXCEPT ![l] = Signalled(@)]
    PROVE  ShellsEnd /\ tree'[l].shell = "gone"
  <1>1. tree \in [Launches -> Trees]
    BY DEF TypeOK, Trees
  <1>2. \A m \in Launches :
            tree'[m] = IF m = l THEN [tree[l] EXCEPT !.shell = "gone"] ELSE tree[m]
    BY <1>1 DEF Signalled
  <1>3. [tree[l] EXCEPT !.shell = "gone"] \in Trees
    BY <1>1 DEF Trees
  <1>4. tree' \in [Launches -> Trees]
    BY <1>1, <1>3 DEF Signalled
  <1> QED BY <1>1, <1>2, <1>4 DEF ShellsEnd, Trees

\* What a step that only ends shells keeps of the processes.
LEMMA ProcessesKept ==
    ASSUME IInv, ShellsEnd
    PROVE  TreeOK' /\ ForkedApart'
  BY DEF IInv, TreeOK, ForkedApart, ShellsEnd

\* A daemon that ends: no engine has anything in hand, its workers go on.
LEMMA EndedKeeps ==
    ASSUME IInv, Ended, ShellsEnd, UNCHANGED client
    PROVE  IInv'
  <1>1. TypeOK'
    BY DEF IInv, TypeOK, Ended, ShellsEnd, Trees
  <1>2. DaemonOK' /\ EnginesOK' /\ PipesOK' /\ LeftOK' /\ ApartOK'
    BY DEF Ended, DaemonOK, EnginesOK, PipesOK, LeftOK, ApartOK
  <1>3. LivesOK'
    BY DEF IInv, LivesOK, Ended, ShellsEnd
  <1>4. FreshOK'
    BY DEF IInv, FreshOK, Ended, ShellsEnd
  <1>5. ShellsKnown' /\ RestartCleans'
    BY DEF ShellsKnown, RestartCleans, Own, Ended
  <1> QED BY <1>1, <1>2, <1>3, <1>4, <1>5, ProcessesKept DEF IInv

\* An engine that lets go of the launch it has in hand, while the daemon goes on.
LEMMA LetGo ==
    ASSUME IInv, NEW e \in Engines, NEW left \in SUBSET has, ShellsEnd,
           pc[e] # "idle", tree'[child[e]].shell \in {"none", "gone"},
           UNCHANGED <<daemon, life, servers, client>>,
           daemon # "warming",
           has' = left,
           pc' = [pc EXCEPT ![e] = "idle"],
           child' = [child EXCEPT ![e] = 0],
           awaits' = [awaits EXCEPT ![e] = FALSE],
           \A l \in Launches : l # child[e] => (\A d \in PipeEnds(l) : d \in left <=> d \in has),
           OutR(child[e]) \notin left, OutW(child[e]) \notin left,
           InR(child[e]) \in left <=> InW(child[e]) \in left,
           InR(child[e]) \in left => tree[child[e]].shell = "none"
    PROVE  IInv'
  <1>1. TypeOK'
    BY DEF IInv, TypeOK, ShellsEnd, Trees
  <1>2. DaemonOK'
    BY DEF IInv, DaemonOK
  <1>3. LivesOK'
    BY DEF IInv, LivesOK, ShellsEnd
  <1>4. \A f \in Engines : f # e => pc'[f] = pc[f] /\ child'[f] = child[f] /\ awaits'[f] = awaits[f]
    BY DEF IInv, TypeOK
  <1>5. pc'[e] = "idle" /\ child'[e] = 0 /\ ~awaits'[e]
    BY DEF IInv, TypeOK
  <1>6. EnginesOK'
    BY <1>4, <1>5 DEF IInv, EnginesOK, ShellsEnd
  <1>7. PipesOK'
    BY <1>4, <1>5, EndsNamed DEF IInv, EnginesOK, PipesOK
  <1>8. LeftOK'
    BY <1>4, <1>5, EndsNamed DEF IInv, EnginesOK, LeftOK, Used, ShellsEnd
  <1>9. FreshOK'
    BY DEF IInv, FreshOK, ShellsEnd
  <1>10. ApartOK'
    BY <1>4, <1>5 DEF IInv, ApartOK, EnginesOK, ShellsEnd
  <1>11. ShellsKnown'
    BY <1>4, <1>5 DEF IInv, ShellsKnown, Own, ShellsEnd
  <1>12. RestartCleans'
    BY DEF IInv, RestartCleans, Running, ShellsEnd
  <1> QED BY <1>1, <1>2, <1>3, <1>6, <1>7, <1>8, <1>9, <1>10, <1>11, <1>12, ProcessesKept DEF IInv

\* The engine's worker is given up: signalled, both ends closed.
LEMMA TerminateKeeps ==
    ASSUME IInv, NEW e \in Engines, Terminate(e), pc[e] = "open", UNCHANGED client
    PROVE  IInv'
  <1>1. child[e] \in Launches /\ tree[child[e]].shell # "none"
    BY DEF IInv, EnginesOK
  <1>2. ShellsEnd /\ tree'[child[e]].shell = "gone"
    BY <1>1, SignalledShell DEF IInv, Terminate
  <1>3. CASE daemon = "warming"
    BY <1>2, <1>3, EndedKeeps DEF Terminate
  <1>4. CASE daemon # "warming"
    <2> DEFINE left == has \ Ours(child[e])
    <2>1. \A l \in Launches : l # child[e] => (\A d \in PipeEnds(l) : d \in left <=> d \in has)
      BY <1>1, EndsNamed, EndsDistinct DEF Ours
    <2>2. OutR(child[e]) \notin left /\ InW(child[e]) \notin left
      BY DEF Ours
    <2>3. OutW(child[e]) \notin left /\ InR(child[e]) \notin left
      BY DEF IInv, PipesOK
    <2> QED BY <1>2, <1>4, <2>1, <2>2, <2>3, LetGo DEF Terminate
  <1> QED BY <1>3, <1>4

\* A spawn that fails at its second pipe leaves the first one open; at the fork it leaves nothing.
LEMMA SpawnFailsKeeps ==
    ASSUME IInv, NEW e \in Engines, SecondPipeFails(e) \/ ForkFails(e)
    PROVE  IInv'
  <1>1. ShellsEnd /\ UNCHANGED <<tree, client>>
    BY UnchangedShells DEF IInv, SecondPipeFails, ForkFails
  <1>2. /\ pc[e] \in {"pipe1", "pipe2"} /\ child[e] \in Launches
        /\ tree[child[e]].shell = "none" /\ ~awaits[e]
    BY DEF IInv, EnginesOK, SecondPipeFails, ForkFails
  <1>3. CASE daemon = "warming"
    BY <1>1, <1>3, EndedKeeps DEF SecondPipeFails, ForkFails, SpawnFails
  <1>4. CASE daemon # "warming"
    <2>1. PICK left \in SUBSET has :
              /\ SpawnFails(e, left)
              /\ \/ pc[e] = "pipe1" /\ left = has
                 \/ pc[e] = "pipe2" /\ left = has \ PipeEnds(child[e])
      BY DEF SecondPipeFails, ForkFails
    <2>2. \A l \in Launches : l # child[e] => (\A d \in PipeEnds(l) : d \in left <=> d \in has)
      BY <1>2, <2>1, EndsNamed, EndsDistinct
    <2>3. /\ OutR(child[e]) \notin left /\ OutW(child[e]) \notin left
          /\ InR(child[e]) \in left <=> InW(child[e]) \in left
      BY <1>2, <2>1, EndsNamed DEF IInv, PipesOK
    <2>4. awaits' = [awaits EXCEPT ![e] = FALSE]
      BY <1>2, <1>4, <2>1 DEF SpawnFails, IInv, TypeOK
    <2> QED BY <1>1, <1>2, <1>4, <2>1, <2>2, <2>3, <2>4, LetGo DEF SpawnFails
  <1> QED BY <1>3, <1>4

\* The daemon ends by itself or by a signal.
LEMMA DaemonEnds ==
    ASSUME IInv, BringUpFails \/ Die
    PROVE  IInv'
  BY EndedKeeps, UnchangedShells DEF IInv, BringUpFails, Die
-----------------------------------------------------------------------------
(***************************************************************************)
(* Processes that run and are killed, lines that go and come.              *)
(***************************************************************************)

\* A step in which Wine processes and lines change, and nothing else of the launches.
WineOnly ==
    /\ tree' \in [Launches -> Trees]
    /\ SameShells
    /\ \A l \in Launches : /\ tree[l].wine = "none" <=> tree'[l].wine = "none"
                           /\ tree'[l].wine \in {"busy", "reads", "deaf", "hung"} =>
                                  tree[l].wine \in {"busy", "reads", "deaf", "hung"}
                           /\ tree'[l].ran = tree[l].ran

\* One launch changes.
LEMMA OneWine ==
    ASSUME TypeOK, NEW l \in Launches, NEW t \in Trees,
           tree' = [tree EXCEPT ![l] = t],
           t.shell = tree[l].shell, t.inherited = tree[l].inherited,
           t.of = tree[l].of, t.life = tree[l].life, t.ran = tree[l].ran,
           t.wine = tree[l].wine \/ (Running(l) /\ t.wine # "none")
    PROVE  WineOnly
  <1>1. tree \in [Launches -> Trees]
    BY DEF TypeOK, Trees
  <1>2. tree' \in [Launches -> Trees]
    BY <1>1
  <1>3. \A m \in Launches : tree'[m] = IF m = l THEN t ELSE tree[m]
    BY <1>1
  <1> QED BY <1>2, <1>3 DEF WineOnly, SameShells, Running

\* Such a step, of a worker or of an engine that writes or reads.
LEMMA WineStepKeeps ==
    ASSUME IInv, WineOnly, UNCHANGED <<daemonVars, pc, child, client>>,
           awaits' \in [Engines -> BOOLEAN], \A e \in Engines : awaits'[e] => pc[e] = "open"
    PROVE  IInv'
  <1> USE DEF daemonVars
  <1>1. TypeOK' /\ DaemonOK'
    BY DEF IInv, TypeOK, DaemonOK, WineOnly, Trees
  <1>2. PipesOK' /\ LeftOK' /\ FreshOK' /\ ApartOK' /\ ForkedApart'
    BY StillInOrder DEF WineOnly, SamePipes
  <1>3. LivesOK' /\ EnginesOK' /\ ShellsKnown'
    BY DEF IInv, LivesOK, EnginesOK, ShellsKnown, Own, WineOnly, SameShells
  <1>4. TreeOK'
    BY DEF IInv, TreeOK, WineOnly, SameShells
  <1>5. RestartCleans'
    BY DEF IInv, RestartCleans, Running, WineOnly
  <1> QED BY <1>1, <1>2, <1>3, <1>4, <1>5 DEF IInv

\* kill_existing_tipruntime: no launch is the new daemon's yet, and every Wine process is gone.
LEMMA ResetServersKeeps ==
    ASSUME IInv, ResetServers
    PROVE  IInv'
  <1> USE DEF ResetServers
  <1>1. \A l \in Launches : Killed(tree[l]) \in Trees
    BY DEF IInv, TypeOK, Killed, Trees
  <1>2. tree' \in [Launches -> Trees]
    BY <1>1
  <1>3. /\ SameShells
        /\ \A l \in Launches : /\ tree'[l].wine \in {"none", "gone"}
                               /\ tree[l].wine = "none" <=> tree'[l].wine = "none"
    BY DEF IInv, TypeOK, Killed, SameShells
  <1>4. TypeOK' /\ DaemonOK'
    BY <1>2 DEF IInv, TypeOK, DaemonOK, Trees, engineVars
  <1>5. PipesOK' /\ LeftOK' /\ FreshOK' /\ ApartOK' /\ ForkedApart'
    BY <1>3, StillInOrder DEF SamePipes, engineVars
  <1>6. LivesOK' /\ EnginesOK' /\ ShellsKnown'
    BY <1>3 DEF IInv, LivesOK, EnginesOK, ShellsKnown, Own, SameShells, engineVars
  <1>7. TreeOK' /\ RestartCleans'
    BY <1>3 DEF IInv, TreeOK, RestartCleans, Running, SameShells
  <1> QED BY <1>4, <1>5, <1>6, <1>7 DEF IInv

\* A line goes to the worker, or the pipe breaks and the worker is given up.
LEMMA WriteKeeps ==
    ASSUME IInv, NEW e \in Engines, Write(e)
    PROVE  IInv'
  <1>1. child[e] \in Launches /\ pc[e] = "open" /\ UNCHANGED client
    BY DEF IInv, EnginesOK, Write
  <1>2. CASE Held(InR(child[e]))
    <2>1. /\ tree' = [tree EXCEPT ![child[e]].line = TRUE]
          /\ awaits' = [awaits EXCEPT ![e] = TRUE]
          /\ UNCHANGED <<daemonVars, pc, child>>
      BY <1>2 DEF Write
    <2>2. WineOnly
      <3> DEFINE t == [tree[child[e]] EXCEPT !.line = TRUE]
      <3>1. tree[child[e]] \in Trees
        BY <1>1 DEF IInv, TypeOK, Trees
      <3>2. /\ t \in Trees /\ t.shell = tree[child[e]].shell /\ t.wine = tree[child[e]].wine
            /\ t.inherited = tree[child[e]].inherited /\ t.of = tree[child[e]].of
            /\ t.life = tree[child[e]].life /\ t.ran = tree[child[e]].ran
        BY <3>1 DEF Trees
      <3>3. tree' = [tree EXCEPT ![child[e]] = t]
        BY <2>1
      <3> HIDE DEF t
      <3> QED BY <1>1, <3>2, <3>3, OneWine DEF IInv
    <2>3. awaits' \in [Engines -> BOOLEAN] /\ \A f \in Engines : awaits'[f] => pc[f] = "open"
      BY <1>1, <2>1 DEF IInv, TypeOK, EnginesOK
    <2> QED BY <1>1, <2>1, <2>2, <2>3, WineStepKeeps
  <1>3. CASE ~Held(InR(child[e]))
    BY <1>1, <1>3, TerminateKeeps DEF Write
  <1> QED BY <1>2, <1>3

\* A line comes, or the worker is given up.
LEMMA ReadingKeeps ==
    ASSUME IInv, NEW e \in Engines, Reading(e)
    PROVE  IInv'
  <1>1. child[e] \in Launches /\ pc[e] = "open" /\ UNCHANGED client
    BY DEF IInv, EnginesOK, Reading, Read, ReadEof, ReadTimesOut
  <1>2. CASE Read(e)
    <2>1. /\ tree' = [tree EXCEPT ![child[e]].said = FALSE]
          /\ awaits' = [awaits EXCEPT ![e] = FALSE]
          /\ UNCHANGED <<daemonVars, pc, child, client>>
      BY <1>2 DEF Read
    <2>2. WineOnly
      <3> DEFINE t == [tree[child[e]] EXCEPT !.said = FALSE]
      <3>1. tree[child[e]] \in Trees
        BY <1>1 DEF IInv, TypeOK, Trees
      <3>2. /\ t \in Trees /\ t.shell = tree[child[e]].shell /\ t.wine = tree[child[e]].wine
            /\ t.inherited = tree[child[e]].inherited /\ t.of = tree[child[e]].of
            /\ t.life = tree[child[e]].life /\ t.ran = tree[child[e]].ran
        BY <3>1 DEF Trees
      <3>3. tree' = [tree EXCEPT ![child[e]] = t]
        BY <2>1
      <3> HIDE DEF t
      <3> QED BY <1>1, <3>2, <3>3, OneWine DEF IInv
    <2>3. awaits' \in [Engines -> BOOLEAN] /\ \A f \in Engines : awaits'[f] => pc[f] = "open"
      BY <2>1 DEF IInv, TypeOK, EnginesOK
    <2> QED BY <2>1, <2>2, <2>3, WineStepKeeps
  <1>3. CASE ReadEof(e) \/ ReadTimesOut(e)
    BY <1>1, <1>3, TerminateKeeps DEF ReadEof, ReadTimesOut
  <1> QED BY <1>2, <1>3 DEF Reading

\* The shell of launch l starts Wine, or ends.
LEMMA ShellStepKeeps ==
    ASSUME IInv, NEW l \in Launches, RunWine(l) \/ ShellEnds(l),
           UNCHANGED <<daemonVars, engineVars, client>>
    PROVE  IInv'
  <1> USE DEF daemonVars, engineVars
  <1>1. /\ \A m \in Launches : m # l => tree'[m] = tree[m]
        /\ tree[l].shell # "none" /\ tree'[l].shell \in {"waits", "gone"}
        /\ tree[l].shell = "layout" \/ tree'[l].shell = "gone"
        /\ tree'[l].of = tree[l].of /\ tree'[l].life = tree[l].life
        /\ tree'[l].inherited = tree[l].inherited
        /\ (tree'[l].wine = tree[l].wine /\ tree'[l].ran = tree[l].ran) \/ tree'[l].ran = life
    BY DEF IInv, TypeOK, RunWine, ShellEnds, Shell
  <1>2. TypeOK'
    BY DEF IInv, TypeOK, RunWine, ShellEnds, Shell
  <1>3. DaemonOK'
    BY DEF IInv, DaemonOK
  <1>4. LivesOK' /\ EnginesOK' /\ PipesOK' /\ FreshOK' /\ ApartOK' /\ ForkedApart'
    BY <1>1 DEF IInv, LivesOK, EnginesOK, PipesOK, FreshOK, ApartOK, ForkedApart
  <1>5. LeftOK' /\ TreeOK'
    BY <1>1 DEF IInv, LeftOK, TreeOK, Used
  <1>6. ShellsKnown'
    BY <1>1 DEF IInv, ShellsKnown, TypeOK, Own
  <1>7. RestartCleans'
    BY <1>1 DEF IInv, RestartCleans, Running
  <1> QED BY <1>2, <1>3, <1>4, <1>5, <1>6, <1>7 DEF IInv

\* A step of the processes.
LEMMA TreeKeeps ==
    ASSUME IInv, Tree
    PROVE  IInv'
  <1>1. PICK l \in Launches : Processes(l) \/ Hangs(l) \/ Crashes(l)
    BY DEF Tree
  <1>2. CASE RunWine(l) \/ ShellEnds(l)
    BY <1>2, ShellStepKeeps DEF Tree
  <1>3. CASE Says(l) \/ TakesLine(l) \/ ReadsEnd(l) \/ Hangs(l) \/ Crashes(l)
    <2>0. TypeOK /\ tree \in [Launches -> Trees] /\ tree[l] \in Trees
      BY <1>1 DEF IInv, TypeOK, Trees
    <2>a. ASSUME Says(l) PROVE WineOnly
      <3> DEFINE t == [tree[l] EXCEPT !.wine = "reads", !.said = Held(OutR(l))]
      <3>1. t \in Trees /\ t.wine # "none"
        BY <2>0 DEF Trees, Held
      <3>2. /\ t.shell = tree[l].shell /\ t.inherited = tree[l].inherited
            /\ t.of = tree[l].of /\ t.life = tree[l].life /\ t.ran = tree[l].ran
        BY <2>0 DEF Trees
      <3>3. Running(l) /\ tree' = [tree EXCEPT ![l] = t]
        BY <2>a, <2>0 DEF Says, Running
      <3> HIDE DEF t
      <3> QED BY <1>1, <2>0, <3>1, <3>2, <3>3, OneWine
    <2>b. ASSUME TakesLine(l) PROVE WineOnly
      <3> DEFINE t == [tree[l] EXCEPT !.wine = "busy", !.line = FALSE]
      <3>1. t \in Trees /\ t.wine # "none"
        BY <2>0 DEF Trees
      <3>2. /\ t.shell = tree[l].shell /\ t.inherited = tree[l].inherited
            /\ t.of = tree[l].of /\ t.life = tree[l].life /\ t.ran = tree[l].ran
        BY <2>0 DEF Trees
      <3>3. Running(l) /\ tree' = [tree EXCEPT ![l] = t]
        BY <2>b, <2>0 DEF TakesLine, Running
      <3> HIDE DEF t
      <3> QED BY <1>1, <2>0, <3>1, <3>2, <3>3, OneWine
    <2>c. ASSUME ReadsEnd(l) PROVE WineOnly
      <3> DEFINE t == [tree[l] EXCEPT !.wine = "deaf"]
      <3>1. t \in Trees /\ t.wine # "none"
        BY <2>0 DEF Trees
      <3>2. /\ t.shell = tree[l].shell /\ t.inherited = tree[l].inherited
            /\ t.of = tree[l].of /\ t.life = tree[l].life /\ t.ran = tree[l].ran
        BY <2>0 DEF Trees
      <3>3. Running(l) /\ tree' = [tree EXCEPT ![l] = t]
        BY <2>c, <2>0 DEF ReadsEnd, Wine, Running
      <3> HIDE DEF t
      <3> QED BY <1>1, <2>0, <3>1, <3>2, <3>3, OneWine
    <2>d. ASSUME Hangs(l) PROVE WineOnly
      <3> DEFINE t == [tree[l] EXCEPT !.wine = "hung"]
      <3>1. t \in Trees /\ t.wine # "none"
        BY <2>0 DEF Trees
      <3>2. /\ t.shell = tree[l].shell /\ t.inherited = tree[l].inherited
            /\ t.of = tree[l].of /\ t.life = tree[l].life /\ t.ran = tree[l].ran
        BY <2>0 DEF Trees
      <3>3. Running(l) /\ tree' = [tree EXCEPT ![l] = t]
        BY <2>d, <2>0 DEF Hangs, Wine, Running
      <3> HIDE DEF t
      <3> QED BY <1>1, <2>0, <3>1, <3>2, <3>3, OneWine
    <2>e. ASSUME Crashes(l) PROVE WineOnly
      <3> DEFINE t == [tree[l] EXCEPT !.wine = "gone"]
      <3>1. t \in Trees /\ t.wine # "none"
        BY <2>0 DEF Trees
      <3>2. /\ t.shell = tree[l].shell /\ t.inherited = tree[l].inherited
            /\ t.of = tree[l].of /\ t.life = tree[l].life /\ t.ran = tree[l].ran
        BY <2>0 DEF Trees
      <3>3. Running(l) /\ tree' = [tree EXCEPT ![l] = t]
        BY <2>e, <2>0 DEF Crashes, Running
      <3> HIDE DEF t
      <3> QED BY <1>1, <2>0, <3>1, <3>2, <3>3, OneWine
    <2>1. WineOnly
      BY <1>3, <2>a, <2>b, <2>c, <2>d, <2>e
    <2> QED BY <2>1, WineStepKeeps DEF IInv, TypeOK, EnginesOK, Tree, engineVars
  <1> QED BY <1>1, <1>2, <1>3 DEF Processes
-----------------------------------------------------------------------------
(***************************************************************************)
(* The steps of a spawn.                                                   *)
(***************************************************************************)
\* The launch is a fresh one: nobody has an end of its pipes yet.
LEMMA FirstPipeKeeps ==
    ASSUME IInv, NEW e \in Engines, FirstPipe(e)
    PROVE  IInv'
  <1>1. PICK l \in Launches :
            /\ Begun = 1..(l - 1)
            /\ child' = [child EXCEPT ![e] = l]
            /\ has' = has \cup {InR(l), InW(l)}
            /\ tree' = [tree EXCEPT ![l].of = e, ![l].life = life]
    BY DEF FirstPipe
  <1>2. /\ pc[e] = "idle" /\ pc' = [pc EXCEPT ![e] = "pipe1"] /\ Works(e)
        /\ UNCHANGED <<daemon, life, servers, awaits, client>>
    BY DEF FirstPipe, Goto
  <1>3. daemon \in {"warming", "serving"} /\ life # 0
    BY <1>2 DEF IInv, TypeOK, LivesOK, Works
  <1>4. tree[l].life = 0
    BY <1>1 DEF IInv, TypeOK, Begun, Launches
  <1>5. /\ \A m \in Launches : m # l => tree'[m] = tree[m]
        /\ tree'[l].of = e /\ tree'[l].life = life
        /\ tree'[l].shell = tree[l].shell /\ tree'[l].wine = tree[l].wine
        /\ tree'[l].inherited = tree[l].inherited /\ tree'[l].ran = tree[l].ran
    BY <1>1 DEF IInv, TypeOK
  <1>6. /\ pc'[e] = "pipe1" /\ child'[e] = l
        /\ \A f \in Engines : f # e => pc'[f] = pc[f] /\ child'[f] = child[f]
    BY <1>1, <1>2 DEF IInv, TypeOK
  <1>7. \A f \in Engines : pc[f] # "idle" => child[f] # l
    BY <1>3, <1>4 DEF IInv, EnginesOK
  <1>8. TypeOK'
    <2>1. [tree[l] EXCEPT !.of = e, !.life = life] \in Trees
      <3>1. tree[l] \in Trees
        BY DEF IInv, TypeOK, Trees
      <3> QED BY <3>1, TreeAssumption DEF IInv, TypeOK, Trees
    <2>2. tree' = [tree EXCEPT ![l] = [tree[l] EXCEPT !.of = e, !.life = life]]
      BY <1>1 DEF IInv, TypeOK
    <2>3. tree' \in [Launches -> Trees]
      BY <2>1, <2>2 DEF IInv, TypeOK, Trees
    <2>4. has' \subseteq Descriptors
      BY <1>1, SocketsDistinct, EndsNamed DEF IInv, TypeOK
    <2>5. pc' \in [Engines -> {"idle", "pipe1", "pipe2", "forked", "open"}]
          /\ child' \in [Engines -> {0} \cup Launches]
      BY <1>1, <1>2 DEF IInv, TypeOK
    <2> QED BY <1>2, <2>3, <2>4, <2>5 DEF IInv, TypeOK, Trees
  <1>9. DaemonOK' /\ LivesOK'
    BY <1>2, <1>3, <1>5 DEF IInv, TypeOK, DaemonOK, LivesOK
  <1>10. EnginesOK'
    BY <1>2, <1>4, <1>5, <1>6, <1>7 DEF IInv, EnginesOK, FreshOK
  <1>11. PipesOK'
    BY <1>1, <1>4, <1>6, <1>7, EndsDistinct, EndsNamed DEF IInv, EnginesOK, PipesOK, FreshOK
  <1>12. LeftOK'
    <2>1. \A m \in Launches : Used(m) => Used(m)'
      BY <1>2, <1>6 DEF IInv, EnginesOK, Used, Launches
    <2> SUFFICES ASSUME NEW m \in Launches, ~Used(m)'
                 PROVE  /\ OutR(m) \notin has' /\ OutW(m) \notin has'
                        /\ InR(m) \in has' <=> InW(m) \in has'
                        /\ InR(m) \in has' => tree'[m].shell = "none"
      BY DEF LeftOK
    <2>2. m # l
      BY <1>6 DEF Used
    <2>3. \A d \in PipeEnds(m) : d \in has' <=> d \in has
      BY <1>1, <2>2, EndsDistinct, EndsNamed
    <2> QED BY <1>5, <2>1, <2>2, <2>3, EndsNamed DEF IInv, LeftOK
  <1>13. FreshOK'
    <2> SUFFICES ASSUME NEW m \in Launches, tree'[m].life = 0
                 PROVE  /\ tree'[m].shell = "none"
                        /\ PipeEnds(m) \cap has' = {}
                        /\ \A k \in Launches : PipeEnds(m) \cap tree'[k].inherited = {}
      BY DEF FreshOK
    <2>1. m # l /\ tree[m].life = 0
      BY <1>3, <1>5
    <2>2. InR(l) \notin PipeEnds(m) /\ InW(l) \notin PipeEnds(m)
      BY <2>1, EndsDistinct, EndsNamed
    <2> QED BY <1>1, <1>5, <2>1, <2>2 DEF IInv, FreshOK
  <1>14. ApartOK'
    BY <1>4, <1>5, <1>6, <1>7 DEF IInv, TypeOK, ApartOK, FreshOK
  <1>15. ForkedApart' /\ TreeOK'
    BY <1>4, <1>5 DEF IInv, TypeOK, ForkedApart, FreshOK, TreeOK
  <1>16. ShellsKnown' /\ RestartCleans'
    BY <1>2, <1>4, <1>5, <1>6, <1>7
    DEF IInv, FreshOK, TreeOK, ShellsKnown, RestartCleans, Own, Running
  <1> QED BY <1>8, <1>9, <1>10, <1>11, <1>12, <1>13, <1>14, <1>15, <1>16 DEF IInv

\* What the step of a spawn from one place to the next keeps by itself.
LEMMA SpawnMoves ==
    ASSUME IInv, NEW e \in Engines, NEW from, NEW to \in {"pipe2", "forked", "open"},
           Goto(e, from, to), from # "idle"
    PROVE  /\ pc[e] = from /\ child[e] \in Launches
           /\ pc' \in [Engines -> {"idle", "pipe1", "pipe2", "forked", "open"}]
           /\ pc'[e] = to /\ \A f \in Engines : f # e => pc'[f] = pc[f]
           /\ \A f \in Engines : f # e /\ pc[f] # "idle" => child[f] # child[e]
  BY DEF IInv, TypeOK, EnginesOK, Goto

\* Both pipes of the launch are open.
LEMMA SecondPipeKeeps ==
    ASSUME IInv, NEW e \in Engines, SecondPipe(e)
    PROVE  IInv'
  <1>1. /\ Goto(e, "pipe1", "pipe2")
        /\ has' = has \cup {OutR(child[e]), OutW(child[e])}
        /\ UNCHANGED <<daemon, life, servers, child, awaits, tree, client>>
    BY DEF SecondPipe
  <1>2. /\ pc[e] = "pipe1" /\ child[e] \in Launches
        /\ pc' \in [Engines -> {"idle", "pipe1", "pipe2", "forked", "open"}]
        /\ pc'[e] = "pipe2" /\ \A f \in Engines : f # e => pc'[f] = pc[f]
        /\ \A f \in Engines : f # e /\ pc[f] # "idle" => child[f] # child[e]
    BY <1>1, SpawnMoves
  <1>3. TypeOK'
    BY <1>1, <1>2, SocketsDistinct, EndsNamed DEF IInv, TypeOK
  <1>4. DaemonOK' /\ LivesOK' /\ EnginesOK'
    BY <1>1, <1>2 DEF IInv, DaemonOK, LivesOK, EnginesOK
  <1>5. PipesOK'
    BY <1>1, <1>2, EndsDistinct DEF IInv, EnginesOK, PipesOK
  <1>6. LeftOK'
    BY <1>1, <1>2, EndsDistinct DEF IInv, LeftOK, Used
  <1>7. FreshOK'
    <2>1. tree[child[e]].life # 0
      BY <1>2 DEF IInv, EnginesOK, DaemonOK, LivesOK, TypeOK
    <2> QED BY <1>1, <1>2, <2>1, EndsDistinct, EndsNamed DEF IInv, FreshOK
  <1>8. ApartOK' /\ ForkedApart' /\ TreeOK' /\ ShellsKnown' /\ RestartCleans'
    BY <1>1, <1>2 DEF IInv, ApartOK, ForkedApart, TreeOK, ShellsKnown, RestartCleans, Own, Running
  <1> QED BY <1>3, <1>4, <1>5, <1>6, <1>7, <1>8 DEF IInv

\* What the daemon has open at the fork holds no pipe of an earlier worker of the engine: it was
\* closed when that worker was given up, or never reached a worker.
LEMMA ForkKeeps ==
    ASSUME IInv, NEW e \in Engines, NEW l, l = child[e], Fork(e)
    PROVE  IInv'
  <1>1. /\ Goto(e, "pipe2", "forked")
        /\ tree' = [tree EXCEPT ![l].shell = "layout", ![l].inherited = Inherits(l)]
        /\ UNCHANGED <<daemon, life, servers, has, child, awaits, client>>
    BY DEF Fork, daemonVars
  <1>2. /\ pc[e] = "pipe2" /\ l \in Launches
        /\ pc' \in [Engines -> {"idle", "pipe1", "pipe2", "forked", "open"}]
        /\ pc'[e] = "forked" /\ \A f \in Engines : f # e => pc'[f] = pc[f]
        /\ \A f \in Engines : f # e /\ pc[f] # "idle" => child[f] # l
    BY <1>1, SpawnMoves
  <1>3. tree[l].shell = "none" /\ tree[l].wine = "none" /\ tree[l].of = e /\ tree[l].life = life
    BY <1>2 DEF IInv, EnginesOK, TreeOK
  <1>4. /\ \A m \in Launches : m # l => tree'[m] = tree[m]
        /\ tree'[l].shell = "layout" /\ tree'[l].inherited = has \ {InW(l), OutR(l)}
        /\ tree'[l].of = e /\ tree'[l].life = life /\ tree'[l].wine = "none"
    BY <1>1, <1>2, <1>3 DEF IInv, TypeOK, Inherits
  <1>5. TypeOK'
    <2>1. Inherits(l) \subseteq Descriptors
      BY DEF IInv, TypeOK, Inherits
    <2>2. [tree[l] EXCEPT !.shell = "layout", !.inherited = Inherits(l)] \in Trees
      <3>1. tree[l] \in Trees
        BY <1>2 DEF IInv, TypeOK, Trees
      <3> QED BY <2>1, <3>1 DEF Trees
    <2>3. tree' = [tree EXCEPT ![l] = [tree[l] EXCEPT !.shell = "layout",
                                                      !.inherited = Inherits(l)]]
      BY <1>1, <1>2 DEF IInv, TypeOK
    <2>4. tree' \in [Launches -> Trees]
      BY <1>2, <2>2, <2>3 DEF IInv, TypeOK, Trees
    <2> QED BY <1>1, <1>2, <2>4 DEF IInv, TypeOK, Trees
  <1>6. DaemonOK' /\ LivesOK'
    <2>1. DaemonOK'
      BY <1>1, <1>2 DEF IInv, DaemonOK
    <2>2. \A m \in Launches : tree'[m].life = tree[m].life
      BY <1>3, <1>4
    <2>3. LivesOK'
      BY <1>1, <2>2 DEF IInv, LivesOK
    <2> QED BY <2>1, <2>3
  <1>7. \A f \in Engines : f # e /\ pc[f] # "idle" =>
             child'[f] = child[f] /\ child[f] \in Launches /\ tree'[child[f]] = tree[child[f]]
    BY <1>1, <1>2, <1>4 DEF IInv, EnginesOK
  <1>8. child'[e] = l /\ life' = life /\ awaits' = awaits /\ daemon' = daemon
    BY <1>1
  <1>9. EnginesOK'
    <2>1. ASSUME NEW f \in Engines, f # e
          PROVE  /\ pc'[f] = "idle" => child'[f] = 0 /\ ~awaits'[f]
                 /\ pc'[f] # "idle" =>
                        /\ child'[f] \in Launches
                        /\ tree'[child'[f]].of = f /\ tree'[child'[f]].life = life'
                        /\ pc'[f] \in {"pipe1", "pipe2"} <=> tree'[child'[f]].shell = "none"
                 /\ awaits'[f] => pc'[f] = "open"
      <3>1. pc'[f] = pc[f] /\ child'[f] = child[f] /\ awaits'[f] = awaits[f] /\ life' = life
        BY <1>1, <1>2, <2>1
      <3>2. pc[f] # "idle" => tree'[child[f]] = tree[child[f]]
        BY <1>7, <2>1
      <3> QED BY <3>1, <3>2 DEF IInv, EnginesOK
    <2>2. ~awaits[e]
      BY <1>2 DEF IInv, EnginesOK
    <2> QED BY <1>2, <1>4, <1>8, <2>1, <2>2 DEF EnginesOK
  <1>10. PipesOK'
    BY <1>1, <1>2 DEF IInv, PipesOK
  <1>11. LeftOK'
    <2>1. /\ has' = has /\ child' = child
          /\ \A m \in Launches : m # l => tree'[m].shell = tree[m].shell
      BY <1>1, <1>4
    <2>2. Used(l)
      BY <1>2 DEF Used
    <2> SUFFICES ASSUME NEW m \in Launches, ~Used(m)'
                 PROVE  /\ OutR(m) \notin has' /\ OutW(m) \notin has'
                        /\ InR(m) \in has' <=> InW(m) \in has'
                        /\ InR(m) \in has' => tree'[m].shell = "none"
      BY DEF LeftOK
    <2>3. ~Used(m) /\ m # l
      BY <2>1, <2>2 DEF Used
    <2> QED BY <2>1, <2>3 DEF IInv, LeftOK
  <1>12. TreeOK'
    BY <1>2, <1>4, EndsDistinct DEF IInv, PipesOK, TreeOK
  <1>13. FreshOK'
    <2>1. tree'[l].life # 0
      BY <1>2, <1>4 DEF IInv, DaemonOK, LivesOK
    <2> SUFFICES ASSUME NEW m \in Launches, tree'[m].life = 0
                 PROVE  /\ tree'[m].shell = "none"
                        /\ PipeEnds(m) \cap has' = {}
                        /\ \A k \in Launches : PipeEnds(m) \cap tree'[k].inherited = {}
      BY DEF FreshOK
    <2>2. m # l /\ tree'[m] = tree[m] /\ has' = has
      BY <1>1, <1>4, <2>1
    <2>3. /\ tree[m].shell = "none" /\ PipeEnds(m) \cap has = {}
          /\ \A k \in Launches : PipeEnds(m) \cap tree[k].inherited = {}
      BY <2>2 DEF IInv, FreshOK
    <2>4. ASSUME NEW k \in Launches PROVE PipeEnds(m) \cap tree'[k].inherited = {}
      <3>1. tree'[k].inherited \subseteq has \cup tree[k].inherited
        BY <1>4
      <3> QED BY <2>3, <3>1
    <2> QED BY <2>2, <2>3, <2>4
  <1>14. \A m \in Launches : m # l /\ tree[m].shell # "none" /\ tree[m].of = e =>
             PipeEnds(m) \cap has = {}
    <2> SUFFICES ASSUME NEW m \in Launches, m # l, tree[m].shell # "none", tree[m].of = e
                 PROVE  PipeEnds(m) \cap has = {}
      OBVIOUS
    <2>1. ~Used(m)
      BY <1>2 DEF Used, IInv, EnginesOK, Launches
    <2> QED BY <2>1, EndsNamed DEF IInv, LeftOK
  <1>15. ApartOK'
    BY <1>2, <1>4, <1>3, <1>7, <1>8 DEF IInv, ApartOK
  <1>16. ForkedApart'
    BY <1>2, <1>3, <1>4, <1>14 DEF IInv, ApartOK, ForkedApart
  <1>17. ShellsKnown'
    <2> SUFFICES ASSUME NEW m \in Launches, Own(m)', tree'[m].shell \in {"layout", "waits"}
                 PROVE  \E f \in Engines : /\ child'[f] = m /\ tree'[m].of = f
                                           /\ pc'[f] \in {"forked", "open"}
      BY DEF ShellsKnown
    <2>1. CASE m = l
      BY <1>2, <1>4, <1>8, <2>1
    <2>2. CASE m # l
      <3>1. tree'[m] = tree[m] /\ Own(m)
        BY <1>1, <1>4, <2>2 DEF Own
      <3>2. PICK f \in Engines : child[f] = m /\ tree[m].of = f /\ pc[f] \in {"forked", "open"}
        BY <3>1 DEF IInv, ShellsKnown
      <3> QED BY <1>1, <1>2, <2>2, <3>1, <3>2
    <2> QED BY <2>1, <2>2
  <1>18. RestartCleans'
    BY <1>1, <1>4 DEF IInv, RestartCleans, Running
  <1> QED BY <1>5, <1>6, <1>9, <1>10, <1>11, <1>12, <1>13, <1>15, <1>16, <1>17, <1>18 DEF IInv

\* The daemon is left with its own two ends.
LEMMA CloseTheirsKeeps ==
    ASSUME IInv, NEW e \in Engines, CloseTheirs(e)
    PROVE  IInv'
  <1>1. /\ Goto(e, "forked", "open")
        /\ has' = has \ Theirs(child[e])
        /\ awaits' = [awaits EXCEPT ![e] = TRUE]
        /\ UNCHANGED <<daemon, life, servers, child, tree, client>>
    BY DEF CloseTheirs
  <1>2. /\ pc[e] = "forked" /\ child[e] \in Launches
        /\ pc' \in [Engines -> {"idle", "pipe1", "pipe2", "forked", "open"}]
        /\ pc'[e] = "open" /\ \A f \in Engines : f # e => pc'[f] = pc[f]
        /\ \A f \in Engines : f # e /\ pc[f] # "idle" => child[f] # child[e]
    BY <1>1, SpawnMoves
  <1>3. TypeOK'
    BY <1>1, <1>2 DEF IInv, TypeOK
  <1>4. DaemonOK' /\ LivesOK' /\ EnginesOK'
    BY <1>1, <1>2 DEF IInv, TypeOK, DaemonOK, LivesOK, EnginesOK
  <1>5. PipesOK' /\ LeftOK'
    BY <1>1, <1>2, EndsDistinct DEF IInv, EnginesOK, PipesOK, LeftOK, Used, Theirs
  <1>6. FreshOK'
    BY <1>1 DEF IInv, FreshOK
  <1>7. ApartOK' /\ ForkedApart' /\ TreeOK' /\ ShellsKnown' /\ RestartCleans'
    BY <1>1, <1>2 DEF IInv, ApartOK, ForkedApart, TreeOK, ShellsKnown, RestartCleans, Own, Running
  <1> QED BY <1>3, <1>4, <1>5, <1>6, <1>7 DEF IInv
-----------------------------------------------------------------------------
(***************************************************************************)
(* Theorems.                                                               *)
(***************************************************************************)
\* The invariant is inductive.
LEMMA StepKeeps == IInv /\ [Next]_vars => IInv'
  <1> SUFFICES ASSUME IInv, [Next]_vars PROVE IInv'
    OBVIOUS
  <1>1. CASE Start \/ PrepareServers \/ Serve \/ Accept \/ Leave \/ ClientSeesEnd
    BY <1>1, DaemonSteps
  <1>2. CASE ResetServers
    BY <1>2, ResetServersKeeps
  <1>3. CASE BringUpFails \/ Die
    BY <1>3, DaemonEnds
  <1>4. ASSUME NEW e \in Engines, FirstPipe(e) \/ Spawning(e) \/ Write(e) \/ Reading(e)
        PROVE  IInv'
    BY <1>4, FirstPipeKeeps, SecondPipeKeeps, SpawnFailsKeeps, ForkKeeps, CloseTheirsKeeps,
       WriteKeeps, ReadingKeeps DEF Spawning
  <1>5. CASE Tree
    BY <1>5, TreeKeeps
  <1>6. CASE UNCHANGED vars
    BY <1>6 DEF vars, daemonVars, engineVars, IInv, TypeOK, DaemonOK, LivesOK, EnginesOK, PipesOK,
                LeftOK, TreeOK, FreshOK, ApartOK, ForkedApart, ShellsKnown, RestartCleans, Own,
                Used, Running
  <1> QED BY <1>1, <1>2, <1>3, <1>4, <1>5, <1>6 DEF Next, BringUp

\* It holds in every state.
LEMMA AlwaysIInv == Spec => []IInv
  BY InitIInv, StepKeeps, PTL DEF Spec

\* Each engine knows its one shell, the daemon has exactly its own ends of the pipes in use, a
\* worker runs only once its daemon has launched the servers, and the end of its output means
\* that it has ended.
THEOREM TreeIsConsistent == Spec => []Consistent
  <1>1. ASSUME IInv PROVE Consistent
    <2>1. DescriptorsKnown
      BY <1>1, EndsNamed DEF IInv, EnginesOK, PipesOK, DescriptorsKnown
    <2>2. ServersLaunched
      BY <1>1 DEF IInv, TypeOK, DaemonOK, LivesOK, ServersLaunched, Own
    <2>3. EndMeansDead
      BY <1>1 DEF IInv, EnginesOK, TreeOK, EndMeansDead, Held
    <2> QED BY <1>1, <2>1, <2>2, <2>3 DEF IInv, Consistent
  <1> QED BY <1>1, AlwaysIInv, PTL

\* Nothing of a worker that was given up is kept but the first pipe of a spawn whose second
\* failed, and no worker holds a pipe of another worker of its engine.
THEOREM OnlyOwnPipes == Spec => []OwnPipesOnly
  <1>1. ASSUME IInv PROVE OwnPipesOnly
    <2>1. \A l \in Launches : has \cap PipeEnds(l) # {} =>
              Used(l) \/ (has \cap PipeEnds(l) = {InR(l), InW(l)} /\ tree[l].shell = "none")
      BY <1>1, EndsNamed DEF IInv, LeftOK
    <2> QED BY <1>1, <2>1 DEF IInv, ForkedApart, OwnPipesOnly
  <1> QED BY <1>1, AlwaysIInv, PTL

\* What runs in the prefix once the servers are reset was started in the daemon's time.
THEOREM ResetLeavesNothingOld == Spec => []RestartCleans
  <1>1. IInv => RestartCleans
    BY DEF IInv
  <1> QED BY <1>1, AlwaysIInv, PTL

(***************************************************************************)
(* TipHost: scripts.  A script holds its captures as whole brackets, from  *)
(* "arm" to "disarm"; the innermost command may be inside one, of which    *)
(* its first n steps are left.                                             *)
(***************************************************************************)
BootOps == {"window", "pump", "tm", "context", "tip", "thread", "loop", "release"}

Ops == BootOps \cup {"letter", "key", "probe", "searchprobe", "manualtip", "quit", "reset", "arm", "read",
                     "search", "session", "begin", "end", "teardown", "exit", "disarm"}

\* What is left of a capture that is under way.
Captures(s, n) ==
    /\ n \in 1..4 /\ n <= Len(s) /\ s[n] = "disarm"
    /\ \/ n = 1
       \/ n = 2 /\ s[1] \in {"session", "search", "end", "teardown", "exit"}
       \/ n = 3 /\ s[1] = "end" /\ s[2] \in {"teardown", "exit"}
       \/ n = 3 /\ s[1] = "begin" /\ s[2] = "end"
       \/ n = 4 /\ s[1] = "begin" /\ s[2] = "end" /\ s[3] \in {"teardown", "exit"}
       \/ n = 4 /\ s[1] = "read" /\ s[2] = "begin" /\ s[3] = "end"

\* A session that is to be torn down.
Tears(s, n) == \E k \in 1..n : s[k] = "teardown"

\* Beyond its first n steps a script has whole brackets only.
BracketedAt(s, n, k) ==
    /\ s[k] \in Ops \ {"teardown", "exit"}
    /\ s[k] = "arm" =>
           \/ k + 2 <= Len(s) /\ s[k + 1] \in {"session", "search"} /\ s[k + 2] = "disarm"
           \/ k + 4 <= Len(s) /\ s[k + 1] = "read" /\ s[k + 2] = "begin" /\ s[k + 3] = "end" /\ s[k + 4] = "disarm"
    /\ s[k] \in {"read", "search"} => k > n + 1 /\ s[k - 1] = "arm"
    /\ s[k] = "begin" => k > n + 1 /\ s[k - 1] = "read"
    /\ s[k] = "end" => k > n + 1 /\ s[k - 1] = "begin"
    /\ s[k] = "thread" => \A j \in (k + 1)..Len(s) : s[j] \in {"loop", "release"}

Bracketed(s, n) == \A k \in (n + 1)..Len(s) : BracketedAt(s, n, k)

\* A capture of the composition's text.
Takes(s, k) == s[k] = "arm" /\ s[k + 1] \in {"session", "read"}

\* The composition is cleared before its text is captured.
Clears(s, n) == \A k \in (n + 1)..Len(s) : Takes(s, k) => \E j \in (n + 1)..(k - 1) : s[j] = "reset"

\* A letter before k, and what it typed not cleared since.
LetterBefore(s, n, k) == \E j \in (n + 1)..(k - 1) : s[j] = "letter" /\ \A i \in j..(k - 1) : s[i] # "reset"

\* A reading is typed before the text is captured.
Types(s, n) == \A k \in (n + 1)..Len(s) : Takes(s, k) => LetterBefore(s, n, k)

\* If the composition is cleared, a reading is typed before the text is captured.
Retypes(s, n) ==
    \A k \in (n + 1)..Len(s) : Takes(s, k) =>
        LetterBefore(s, n, k) \/ \A j \in (n + 1)..(k - 1) : s[j] # "reset"

\* What a line of the relay does: at most m results, no search.
Asks(s, n, m) ==
    /\ \A k \in (n + 1)..Len(s) : s[k] # "search"
    /\ \A j, k \in (n + 1)..Len(s) : s[j] = "arm" /\ s[k] = "arm" => m = 1 /\ j = k

Sound(s, n) == s \in Seq(Ops) /\ n \in 0..4 /\ n <= Len(s) /\ Bracketed(s, n) /\ Retypes(s, n)
-----------------------------------------------------------------------------

\* One step of a script, outside of a bracket.
LEMMA OneStep ==
    ASSUME NEW s, Sound(s, 0), s # <<>>, s[1] # "arm"
    PROVE  /\ Sound(Tail(s), 0)
           /\ s[1] # "reset" /\ Clears(s, 0) => Clears(Tail(s), 0)
           /\ s[1] # "letter" /\ Types(s, 0) => Types(Tail(s), 0)
           /\ s[1] = "reset" => Types(Tail(s), 0)
           /\ \A m : Asks(s, 0, m) => Asks(Tail(s), 0, m)
  <1> DEFINE t == Tail(s)
  <1>0. /\ t \in Seq(Ops) /\ Len(t) = Len(s) - 1 /\ Len(s) \in Nat \ {0}
        /\ \A k \in 1..Len(t) : t[k] = s[k + 1]
    BY DEF Sound
  <1> HIDE DEF t
  <1>1. Bracketed(t, 0)
    <2> SUFFICES ASSUME NEW k \in 1..Len(t) PROVE BracketedAt(t, 0, k)
      BY <1>0 DEF Bracketed
    <2>1. k + 1 \in 1..Len(s) /\ t[k] = s[k + 1] /\ BracketedAt(s, 0, k + 1)
      BY <1>0 DEF Sound, Bracketed
    <2>2. t[k] = "arm" =>
             \/ k + 2 <= Len(t) /\ t[k + 1] \in {"session", "search"} /\ t[k + 2] = "disarm"
             \/ k + 4 <= Len(t) /\ t[k + 1] = "read" /\ t[k + 2] = "begin" /\ t[k + 3] = "end" /\ t[k + 4] = "disarm"
      <3>1. \A i \in 1..4 : k + i <= Len(t) => t[k + i] = s[k + 1 + i]
        BY <1>0
      <3>2. t[k] = "arm" =>
               \/ k + 3 <= Len(s) /\ s[k + 2] \in {"session", "search"} /\ s[k + 3] = "disarm"
               \/ k + 5 <= Len(s) /\ s[k + 2] = "read" /\ s[k + 3] = "begin" /\ s[k + 4] = "end" /\ s[k + 5] = "disarm"
        BY <2>1, <1>0 DEF BracketedAt
      <3> QED
        BY <3>1, <3>2, <1>0
    <2>3. t[k] = "thread" => \A j \in (k + 1)..Len(t) : t[j] \in {"loop", "release"}
      BY <2>1, <1>0 DEF BracketedAt
    <2>4. s[1] \notin {"read", "begin"}
      BY <1>0 DEF Sound, Bracketed, BracketedAt
    <2>5. k > 1 => s[k] = t[k - 1]
      BY <1>0
    <2>6. k = 1 => t[k] \notin {"read", "search", "begin", "end"}
      BY <2>1, <2>4 DEF BracketedAt
    <2> QED
      BY <2>1, <2>2, <2>3, <2>5, <2>6 DEF BracketedAt
  <1>2. ASSUME NEW k \in 1..Len(t), Takes(t, k) PROVE k + 1 \in 1..Len(s) /\ Takes(s, k + 1) /\ k + 1 <= Len(t)
    BY <1>0, <1>1, <1>2 DEF Takes, Bracketed, BracketedAt
  <1>3. ASSUME NEW k \in 1..Len(t), LetterBefore(s, 0, k + 1), s[1] # "letter" PROVE LetterBefore(t, 0, k)
    <2>1. PICK j \in 1..k : s[j] = "letter" /\ \A i \in j..k : s[i] # "reset"
      BY <1>3, <1>0 DEF LetterBefore
    <2>2. j - 1 \in 1..(k - 1) /\ t[j - 1] = "letter"
      BY <2>1, <1>0, <1>3
    <2>3. \A i \in (j - 1)..(k - 1) : t[i] # "reset"
      BY <2>1, <2>2, <1>0
    <2> QED
      BY <2>2, <2>3 DEF LetterBefore
  <1>4. ASSUME NEW k \in 1..Len(t), LetterBefore(s, 0, k + 1), s[1] = "letter"
        PROVE  LetterBefore(t, 0, k) \/ \A j \in 1..(k - 1) : t[j] # "reset"
    <2>1. PICK j \in 1..k : s[j] = "letter" /\ \A i \in j..k : s[i] # "reset"
      BY <1>4, <1>0 DEF LetterBefore
    <2>2. CASE j = 1
      BY <2>1, <2>2, <1>0
    <2>3. CASE j # 1
      <3>1. j - 1 \in 1..(k - 1) /\ t[j - 1] = "letter"
        BY <2>1, <2>3, <1>0
      <3>2. \A i \in (j - 1)..(k - 1) : t[i] # "reset"
        BY <2>1, <3>1, <1>0
      <3> QED
        BY <3>1, <3>2 DEF LetterBefore
    <2> QED
      BY <2>2, <2>3
  <1>5. Retypes(t, 0)
    <2> SUFFICES ASSUME NEW k \in 1..Len(t), Takes(t, k)
                 PROVE  LetterBefore(t, 0, k) \/ \A j \in 1..(k - 1) : t[j] # "reset"
      BY <1>0 DEF Retypes
    <2>1. LetterBefore(s, 0, k + 1) \/ \A j \in 1..k : s[j] # "reset"
      BY <1>2, <1>0 DEF Sound, Retypes
    <2> QED
      BY <2>1, <1>3, <1>4, <1>0
  <1>6. s[1] # "reset" /\ Clears(s, 0) => Clears(t, 0)
    <2> SUFFICES ASSUME s[1] # "reset", Clears(s, 0), NEW k \in 1..Len(t), Takes(t, k)
                 PROVE  \E j \in 1..(k - 1) : t[j] = "reset"
      BY <1>0 DEF Clears
    <2>1. PICK j \in 1..k : s[j] = "reset"
      BY <1>2, <1>0 DEF Clears
    <2>2. j - 1 \in 1..(k - 1) /\ t[j - 1] = "reset"
      BY <2>1, <1>0
    <2> QED
      BY <2>2
  <1>7. s[1] # "letter" /\ Types(s, 0) => Types(t, 0)
    BY <1>2, <1>3, <1>0 DEF Types
  <1>8. s[1] = "reset" => Types(t, 0)
    <2> SUFFICES ASSUME s[1] = "reset", NEW k \in 1..Len(t), Takes(t, k) PROVE LetterBefore(t, 0, k)
      BY <1>0 DEF Types
    <2>1. LetterBefore(s, 0, k + 1)
      BY <1>2, <1>0 DEF Sound, Retypes
    <2> QED
      BY <2>1, <1>3
  <1>9. ASSUME NEW m, Asks(s, 0, m) PROVE Asks(t, 0, m)
    BY <1>0, <1>9 DEF Asks
  <1>10. 0 <= Len(t)
    BY <1>0
  <1> QED
    BY <1>0, <1>1, <1>5, <1>6, <1>7, <1>8, <1>9, <1>10 DEF Sound, t

\* One step of a script, inside a bracket or of a teardown.
LEMMA StepInside ==
    ASSUME NEW s, NEW n \in 1..4, Sound(s, n)
    PROVE  /\ Sound(Tail(s), n - 1)
           /\ Clears(s, n) => Clears(Tail(s), n - 1)
           /\ Types(s, n) => Types(Tail(s), n - 1)
           /\ \A m : Asks(s, n, m) => Asks(Tail(s), n - 1, m)
  <1> DEFINE t == Tail(s)
             p == n - 1
  <1>0. /\ s # <<>> /\ t \in Seq(Ops) /\ Len(t) = Len(s) - 1 /\ Len(s) \in Nat
        /\ \A k \in 1..Len(t) : t[k] = s[k + 1]
        /\ p \in 0..3 /\ n = p + 1 /\ p <= Len(t)
    BY DEF Sound
  <1> HIDE DEF t, p
  <1>1. Bracketed(t, p)
    <2> SUFFICES ASSUME NEW k \in (p + 1)..Len(t) PROVE BracketedAt(t, p, k)
      BY DEF Bracketed
    <2>1. k + 1 \in (n + 1)..Len(s) /\ t[k] = s[k + 1] /\ BracketedAt(s, n, k + 1)
      BY <1>0 DEF Sound, Bracketed
    <2>2. t[k] = "arm" =>
             \/ k + 2 <= Len(t) /\ t[k + 1] \in {"session", "search"} /\ t[k + 2] = "disarm"
             \/ k + 4 <= Len(t) /\ t[k + 1] = "read" /\ t[k + 2] = "begin" /\ t[k + 3] = "end" /\ t[k + 4] = "disarm"
      <3>1. \A i \in 1..4 : k + i <= Len(t) => t[k + i] = s[k + 1 + i]
        BY <1>0
      <3>2. t[k] = "arm" =>
               \/ k + 3 <= Len(s) /\ s[k + 2] \in {"session", "search"} /\ s[k + 3] = "disarm"
               \/ k + 5 <= Len(s) /\ s[k + 2] = "read" /\ s[k + 3] = "begin" /\ s[k + 4] = "end" /\ s[k + 5] = "disarm"
        BY <2>1, <1>0 DEF BracketedAt
      <3> QED
        BY <3>1, <3>2, <1>0
    <2>3. t[k] = "thread" => \A j \in (k + 1)..Len(t) : t[j] \in {"loop", "release"}
      BY <2>1, <1>0 DEF BracketedAt
    <2>5. k > p + 1 => s[k] = t[k - 1]
      BY <1>0
    <2>6. k = p + 1 => k + 1 = n + 1
      BY <1>0
    <2> QED
      BY <2>1, <2>2, <2>3, <2>5, <2>6, <1>0 DEF BracketedAt
  <1>2. ASSUME NEW k \in (p + 1)..Len(t), Takes(t, k) PROVE k + 1 \in (n + 1)..Len(s) /\ Takes(s, k + 1)
    BY <1>0, <1>1, <1>2 DEF Takes, Bracketed, BracketedAt
  <1>3. ASSUME NEW k \in (p + 1)..Len(t), LetterBefore(s, n, k + 1) PROVE LetterBefore(t, p, k)
    <2>1. PICK j \in (n + 1)..k : s[j] = "letter" /\ \A i \in j..k : s[i] # "reset"
      BY <1>3, <1>0 DEF LetterBefore
    <2>2. j - 1 \in (p + 1)..(k - 1) /\ t[j - 1] = "letter"
      BY <2>1, <1>0
    <2>3. \A i \in (j - 1)..(k - 1) : t[i] # "reset"
      BY <2>1, <2>2, <1>0
    <2> QED
      BY <2>2, <2>3 DEF LetterBefore
  <1>5. Retypes(t, p)
    <2> SUFFICES ASSUME NEW k \in (p + 1)..Len(t), Takes(t, k)
                 PROVE  LetterBefore(t, p, k) \/ \A j \in (p + 1)..(k - 1) : t[j] # "reset"
      BY DEF Retypes
    <2>1. LetterBefore(s, n, k + 1) \/ \A j \in (n + 1)..k : s[j] # "reset"
      BY <1>2, <1>0 DEF Sound, Retypes
    <2> QED
      BY <2>1, <1>3, <1>0
  <1>6. Clears(s, n) => Clears(t, p)
    <2> SUFFICES ASSUME Clears(s, n), NEW k \in (p + 1)..Len(t), Takes(t, k)
                 PROVE  \E j \in (p + 1)..(k - 1) : t[j] = "reset"
      BY DEF Clears
    <2>1. PICK j \in (n + 1)..k : s[j] = "reset"
      BY <1>2, <1>0 DEF Clears
    <2>2. j - 1 \in (p + 1)..(k - 1) /\ t[j - 1] = "reset"
      BY <2>1, <1>0
    <2> QED
      BY <2>2
  <1>7. Types(s, n) => Types(t, p)
    BY <1>2, <1>3 DEF Types
  <1>9. ASSUME NEW m, Asks(s, n, m) PROVE Asks(t, p, m)
    BY <1>0, <1>9 DEF Asks
  <1> QED
    BY <1>0, <1>1, <1>5, <1>6, <1>7, <1>9 DEF Sound, t, p

\* The step that arms: a bracket begins.
LEMMA IntoCapture ==
    ASSUME NEW s, Sound(s, 0), s # <<>>, s[1] = "arm"
    PROVE  \E n \in {2, 4} :
               /\ Captures(Tail(s), n) /\ Sound(Tail(s), n)
               /\ Tail(s)[1] \in {"session", "search", "read"}
               /\ Clears(s, 0) => Clears(Tail(s), n) /\ Tail(s)[1] = "search"
               /\ Types(s, 0) => Types(Tail(s), n) /\ Tail(s)[1] = "search"
               /\ Asks(s, 0, 1) => Asks(Tail(s), n, 0) /\ Tail(s)[1] # "search"
  <1> DEFINE t == Tail(s)
  <1>0. /\ t \in Seq(Ops) /\ Len(t) = Len(s) - 1 /\ Len(s) \in Nat \ {0}
        /\ \A k \in 1..Len(t) : t[k] = s[k + 1]
    BY DEF Sound
  <1> HIDE DEF t
  <1>a. \/ 3 <= Len(s) /\ s[2] \in {"session", "search"} /\ s[3] = "disarm"
        \/ 5 <= Len(s) /\ s[2] = "read" /\ s[3] = "begin" /\ s[4] = "end" /\ s[5] = "disarm"
    <2>1. BracketedAt(s, 0, 1)
      BY <1>0 DEF Sound, Bracketed
    <2> QED
      BY <2>1 DEF BracketedAt
  <1>b. PICK n \in {2, 4} : /\ Captures(t, n) /\ t[1] \in {"session", "search", "read"}
                            /\ n + 1 <= Len(s)
                            /\ \A j \in 1..(n + 1) : s[j] \notin {"reset", "letter"}
    <2>1. CASE 3 <= Len(s) /\ s[2] \in {"session", "search"} /\ s[3] = "disarm"
      <3>1. t[1] = s[2] /\ t[2] = s[3]
        BY <2>1, <1>0
      <3>2. \A j \in 1..3 : s[j] \notin {"reset", "letter"}
        BY <2>1
      <3>3. Captures(t, 2)
        BY <3>1, <2>1, <1>0 DEF Captures
      <3> QED
        BY <3>1, <3>2, <3>3, <2>1
    <2>2. CASE 5 <= Len(s) /\ s[2] = "read" /\ s[3] = "begin" /\ s[4] = "end" /\ s[5] = "disarm"
      <3>1. t[1] = s[2] /\ t[2] = s[3] /\ t[3] = s[4] /\ t[4] = s[5]
        BY <2>2, <1>0
      <3>2. \A j \in 1..5 : s[j] \notin {"reset", "letter"}
        BY <2>2
      <3>3. Captures(t, 4)
        BY <3>1, <2>2, <1>0 DEF Captures
      <3> QED
        BY <3>1, <3>2, <3>3, <2>2
    <2> QED
      BY <1>a, <2>1, <2>2
  <1>1. Bracketed(t, n)
    <2> SUFFICES ASSUME NEW k \in (n + 1)..Len(t) PROVE BracketedAt(t, n, k)
      BY DEF Bracketed
    <2>1. k \in Nat /\ k + 1 \in 1..Len(s) /\ t[k] = s[k + 1] /\ BracketedAt(s, 0, k + 1) /\ n \in Nat
      BY <1>0 DEF Sound, Bracketed
    <2>2. t[k] = "arm" =>
             \/ k + 2 <= Len(t) /\ t[k + 1] \in {"session", "search"} /\ t[k + 2] = "disarm"
             \/ k + 4 <= Len(t) /\ t[k + 1] = "read" /\ t[k + 2] = "begin" /\ t[k + 3] = "end" /\ t[k + 4] = "disarm"
      <3>1. \A i \in 1..4 : k + i <= Len(t) => t[k + i] = s[k + 1 + i]
        BY <1>0, <2>1
      <3>2. t[k] = "arm" =>
               \/ k + 3 <= Len(s) /\ s[k + 2] \in {"session", "search"} /\ s[k + 3] = "disarm"
               \/ k + 5 <= Len(s) /\ s[k + 2] = "read" /\ s[k + 3] = "begin" /\ s[k + 4] = "end" /\ s[k + 5] = "disarm"
        BY <2>1, <1>0 DEF BracketedAt
      <3> QED
        BY <3>1, <3>2, <1>0
    <2>3. t[k] = "thread" => \A j \in (k + 1)..Len(t) : t[j] \in {"loop", "release"}
      BY <2>1, <1>0 DEF BracketedAt
    <2>4. t[n] = "disarm" /\ n <= Len(t)
      BY <1>b DEF Captures
    <2>5. s[k] = t[k - 1] /\ (k = n + 1 => s[k] = "disarm")
      BY <2>1, <2>4, <1>0
    <2>6. k = n + 1 => t[k] \notin {"read", "search", "begin", "end"}
      BY <2>1, <2>5 DEF BracketedAt
    <2> QED
      BY <2>1, <2>2, <2>3, <2>5, <2>6, <1>0 DEF BracketedAt
  <1>2. ASSUME NEW k \in (n + 1)..Len(t), Takes(t, k) PROVE k + 1 \in 1..Len(s) /\ Takes(s, k + 1)
    BY <1>0, <1>1, <1>2 DEF Takes, Bracketed, BracketedAt
  <1>3. ASSUME NEW k \in (n + 1)..Len(t), LetterBefore(s, 0, k + 1) PROVE LetterBefore(t, n, k)
    <2>1. PICK j \in 1..k : s[j] = "letter" /\ \A i \in j..k : s[i] # "reset"
      BY <1>3, <1>0 DEF LetterBefore
    <2>2. j - 1 \in (n + 1)..(k - 1) /\ t[j - 1] = "letter"
      BY <2>1, <1>0, <1>b
    <2>3. \A i \in (j - 1)..(k - 1) : t[i] # "reset"
      BY <2>1, <2>2, <1>0
    <2> QED
      BY <2>2, <2>3 DEF LetterBefore
  <1>5. Retypes(t, n)
    <2> SUFFICES ASSUME NEW k \in (n + 1)..Len(t), Takes(t, k)
                 PROVE  LetterBefore(t, n, k) \/ \A j \in (n + 1)..(k - 1) : t[j] # "reset"
      BY DEF Retypes
    <2>1. LetterBefore(s, 0, k + 1) \/ \A j \in 1..k : s[j] # "reset"
      BY <1>2, <1>0 DEF Sound, Retypes
    <2> QED
      BY <2>1, <1>3, <1>0
  <1>6. Clears(s, 0) => Clears(t, n) /\ t[1] = "search"
    <2> SUFFICES ASSUME Clears(s, 0) PROVE Clears(t, n) /\ t[1] = "search"
      OBVIOUS
    <2>1. ASSUME NEW k \in (n + 1)..Len(t), Takes(t, k) PROVE \E j \in (n + 1)..(k - 1) : t[j] = "reset"
      <3>1. PICK j \in 1..k : s[j] = "reset"
        BY <1>2, <2>1, <1>0 DEF Clears
      <3>2. j > n + 1 /\ n \in Nat
        BY <3>1, <1>b
      <3>3. j - 1 \in (n + 1)..(k - 1) /\ t[j - 1] = "reset"
        BY <3>1, <3>2, <1>0, <2>1
      <3> QED
        BY <3>3
    <2>2. t[1] = s[2] /\ ~Takes(s, 1)
      BY <1>0, <1>b DEF Clears
    <2> QED
      BY <2>1, <2>2, <1>b DEF Clears, Takes
  <1>7. Types(s, 0) => Types(t, n) /\ t[1] = "search"
    <2> SUFFICES ASSUME Types(s, 0) PROVE Types(t, n) /\ t[1] = "search"
      OBVIOUS
    <2>1. Types(t, n)
      BY <1>2, <1>3, <1>0 DEF Types
    <2>2. t[1] = s[2] /\ ~LetterBefore(s, 0, 1)
      BY <1>0, <1>b DEF LetterBefore
    <2>3. ~Takes(s, 1)
      BY <2>2, <1>0 DEF Types
    <2> QED
      BY <2>1, <2>2, <2>3, <1>b DEF Takes
  <1>8. Asks(s, 0, 1) => Asks(t, n, 0) /\ t[1] # "search"
    <2> SUFFICES ASSUME Asks(s, 0, 1) PROVE Asks(t, n, 0) /\ t[1] # "search"
      OBVIOUS
    <2>1. \A k \in 1..Len(t) : t[k] = s[k + 1] /\ k + 1 \in 1..Len(s) /\ k + 1 # 1
      BY <1>0
    <2>2. \A k \in 1..Len(t) : t[k] # "search" /\ t[k] # "arm"
      BY <2>1, <1>0 DEF Asks
    <2> QED
      BY <2>2, <1>0, <1>b DEF Asks
  <1>9. Sound(t, n)
    BY <1>0, <1>1, <1>5, <1>b DEF Sound, Captures
  <1> QED
    BY <1>b, <1>6, <1>7, <1>8, <1>9 DEF t

\* A step put before a script.
LEMMA OneBefore ==
    ASSUME NEW t, NEW n \in 0..3, Sound(t, n), NEW x \in Ops
    PROVE  /\ Sound(<<x>> \o t, n + 1)
           /\ Clears(t, n) => Clears(<<x>> \o t, n + 1)
           /\ Types(t, n) => Types(<<x>> \o t, n + 1)
           /\ \A m : Asks(t, n, m) => Asks(<<x>> \o t, n + 1, m)
  <1> DEFINE u == <<x>> \o t
             p == n + 1
  <1>0. /\ t \in Seq(Ops) /\ Len(t) \in Nat /\ n <= Len(t)
        /\ u \in Seq(Ops) /\ Len(u) = Len(t) + 1
        /\ \A k \in 2..Len(u) : u[k] = t[k - 1]
        /\ p \in 1..4 /\ p = n + 1 /\ p <= Len(u)
    BY DEF Sound
  <1> HIDE DEF u, p
  <1>1. Bracketed(u, p)
    <2> SUFFICES ASSUME NEW k \in (p + 1)..Len(u) PROVE BracketedAt(u, p, k)
      BY DEF Bracketed
    <2>1. k - 1 \in (n + 1)..Len(t) /\ u[k] = t[k - 1] /\ BracketedAt(t, n, k - 1)
      BY <1>0 DEF Sound, Bracketed
    <2>2. u[k] = "arm" =>
             \/ k + 2 <= Len(u) /\ u[k + 1] \in {"session", "search"} /\ u[k + 2] = "disarm"
             \/ k + 4 <= Len(u) /\ u[k + 1] = "read" /\ u[k + 2] = "begin" /\ u[k + 3] = "end" /\ u[k + 4] = "disarm"
      <3>0. k \in Nat /\ k >= 2 /\ Len(u) \in Nat /\ Len(t) \in Nat /\ Len(u) = Len(t) + 1
        BY <1>0
      <3>1. /\ k + 1 - 1 = k /\ k + 2 - 1 = k + 1 /\ k + 3 - 1 = k + 2 /\ k + 4 - 1 = k + 3
            /\ k + 1 <= Len(t) => k + 2 <= Len(u) /\ {k + 1, k + 2} \subseteq 2..Len(u)
            /\ k + 3 <= Len(t) => k + 4 <= Len(u) /\ {k + 1, k + 2, k + 3, k + 4} \subseteq 2..Len(u)
        BY <3>0
      <3>2. u[k] = "arm" =>
               \/ k + 1 <= Len(t) /\ t[k] \in {"session", "search"} /\ t[k + 1] = "disarm"
               \/ k + 3 <= Len(t) /\ t[k] = "read" /\ t[k + 1] = "begin" /\ t[k + 2] = "end" /\ t[k + 3] = "disarm"
        BY <2>1, <1>0 DEF BracketedAt
      <3>3. \A q \in 2..Len(u) : u[q] = t[q - 1]
        BY <1>0
      <3>4. CASE k + 1 <= Len(t) /\ t[k] \in {"session", "search"} /\ t[k + 1] = "disarm"
        <4>1. u[k + 1] = t[k + 1 - 1] /\ u[k + 2] = t[k + 2 - 1]
          BY <3>1, <3>3, <3>4
        <4> QED
          BY <3>1, <3>4, <4>1
      <3>5. CASE k + 3 <= Len(t) /\ t[k] = "read" /\ t[k + 1] = "begin" /\ t[k + 2] = "end" /\ t[k + 3] = "disarm"
        <4>1. /\ u[k + 1] = t[k + 1 - 1] /\ u[k + 2] = t[k + 2 - 1]
              /\ u[k + 3] = t[k + 3 - 1] /\ u[k + 4] = t[k + 4 - 1]
          BY <3>1, <3>3, <3>5
        <4> QED
          BY <3>1, <3>5, <4>1
      <3> QED
        BY <3>2, <3>4, <3>5, Zenon
    <2>3. u[k] = "thread" => \A j \in (k + 1)..Len(u) : u[j] \in {"loop", "release"}
      <3> HAVE u[k] = "thread"
      <3> TAKE j \in (k + 1)..Len(u)
      <3>1. \A h \in (k - 1 + 1)..Len(t) : t[h] \in {"loop", "release"}
        BY <2>1 DEF BracketedAt
      <3>2. j - 1 \in (k - 1 + 1)..Len(t) /\ j \in 2..Len(u)
        BY <2>1, <1>0
      <3>3. u[j] = t[j - 1]
        BY <1>0, <3>2
      <3> QED
        BY <3>1, <3>2, <3>3
    <2>4. /\ k > p + 1 => u[k - 1] = t[k - 2]
          /\ k - 1 > n + 1 => k > p + 1
          /\ k - 1 - 1 = k - 2
      BY <1>0
    <2> QED
      BY <2>1, <2>2, <2>3, <2>4 DEF BracketedAt
  <1>2. ASSUME NEW k \in (p + 1)..Len(u), Takes(u, k) PROVE k - 1 \in (n + 1)..Len(t) /\ Takes(t, k - 1)
    <2>1. k + 1 <= Len(u)
      BY <1>1, <1>2, <1>0 DEF Takes, Bracketed, BracketedAt
    <2>2. u[k] = t[k - 1] /\ u[k + 1] = t[k] /\ k - 1 \in (n + 1)..Len(t) /\ k - 1 + 1 = k
      <3>1. PICK j \in Nat : j = k + 1
        BY <1>0
      <3>2. k \in 2..Len(u) /\ j \in 2..Len(u) /\ j - 1 = k /\ k - 1 \in (n + 1)..Len(t) /\ k - 1 + 1 = k
        BY <2>1, <3>1, <1>0
      <3>3. u[k] = t[k - 1] /\ u[j] = t[j - 1]
        BY <3>2, <1>0
      <3> QED
        BY <3>1, <3>2, <3>3
    <2> QED
      BY <2>2, <1>2 DEF Takes
  <1>3. ASSUME NEW k \in (p + 1)..Len(u), LetterBefore(t, n, k - 1) PROVE LetterBefore(u, p, k)
    <2>1. PICK j \in (n + 1)..(k - 1 - 1) : t[j] = "letter" /\ \A i \in j..(k - 1 - 1) : t[i] # "reset"
      BY <1>3, <1>0 DEF LetterBefore
    <2>2. j + 1 \in (p + 1)..(k - 1) /\ u[j + 1] = "letter"
      BY <2>1, <1>0
    <2>3. ASSUME NEW i \in (j + 1)..(k - 1) PROVE u[i] # "reset"
      <3>1. i - 1 \in j..(k - 1 - 1) /\ u[i] = t[i - 1]
        BY <1>0
      <3> QED
        BY <3>1, <2>1
    <2> QED
      BY <2>2, <2>3 DEF LetterBefore
  <1>5. Retypes(u, p)
    <2> SUFFICES ASSUME NEW k \in (p + 1)..Len(u), Takes(u, k)
                 PROVE  LetterBefore(u, p, k) \/ \A j \in (p + 1)..(k - 1) : u[j] # "reset"
      BY DEF Retypes
    <2>1. LetterBefore(t, n, k - 1) \/ \A j \in (n + 1)..(k - 1 - 1) : t[j] # "reset"
      BY <1>2, <1>0 DEF Sound, Retypes
    <2> QED
      BY <2>1, <1>3, <1>0
  <1>6. Clears(t, n) => Clears(u, p)
    <2> SUFFICES ASSUME Clears(t, n), NEW k \in (p + 1)..Len(u), Takes(u, k)
                 PROVE  \E j \in (p + 1)..(k - 1) : u[j] = "reset"
      BY DEF Clears
    <2>1. PICK j \in (n + 1)..(k - 1 - 1) : t[j] = "reset"
      BY <1>2, <1>0 DEF Clears
    <2>2. j + 1 \in (p + 1)..(k - 1) /\ j + 1 \in 2..Len(u) /\ j + 1 - 1 = j
      BY <1>0
    <2>3. u[j + 1] = "reset"
      BY <2>1, <2>2, <1>0
    <2> QED
      BY <2>2, <2>3
  <1>7. Types(t, n) => Types(u, p)
    BY <1>2, <1>3 DEF Types
  <1>9. ASSUME NEW m, Asks(t, n, m) PROVE Asks(u, p, m)
    <2>1. \A k \in (p + 1)..Len(u) : k - 1 \in (n + 1)..Len(t) /\ u[k] = t[k - 1]
      BY <1>0
    <2>2. \A j, k \in (p + 1)..Len(u) : j - 1 = k - 1 => j = k
      BY <1>0
    <2>3. \A k \in (p + 1)..Len(u) : u[k] # "search"
      BY <2>1, <1>9 DEF Asks
    <2>4. ASSUME NEW j \in (p + 1)..Len(u), NEW k \in (p + 1)..Len(u), u[j] = "arm", u[k] = "arm"
          PROVE  m = 1 /\ j = k
      <3>1. PICK i \in (n + 1)..Len(t), h \in (n + 1)..Len(t) : i = j - 1 /\ h = k - 1
        BY <2>1
      <3>2. t[i] = "arm" /\ t[h] = "arm"
        BY <2>1, <2>4, <3>1
      <3>3. m = 1 /\ i = h
        BY <1>9, <3>2 DEF Asks
      <3> QED
        BY <2>2, <3>1, <3>3
    <2> QED
      BY <2>3, <2>4 DEF Asks
  <1> QED
    BY <1>0, <1>1, <1>5, <1>6, <1>7, <1>9 DEF Sound, u, p

\* What a command may be: captures come with clearing and typing of their own.
Fine(s) == Sound(s, 0) /\ Clears(s, 0) /\ Types(s, 0) /\ \A k \in 1..Len(s) : s[k] \notin {"thread", "context"}

\* Two fine scripts in a row are one.
LEMMA FineConcat ==
    ASSUME NEW a, NEW b, Fine(a), Fine(b)
    PROVE  /\ Fine(a \o b)
           /\ Asks(a, 0, 1) /\ Asks(b, 0, 0) => Asks(a \o b, 0, 1)
           /\ Asks(a, 0, 0) /\ Asks(b, 0, 1) => Asks(a \o b, 0, 1)
  <1> DEFINE u == a \o b
             g == Len(a)
  <1>1. a \in Seq(Ops) /\ b \in Seq(Ops) /\ g \in Nat /\ Len(b) \in Nat
    BY DEF Fine, Sound
  <1>2. /\ u \in Seq(Ops) /\ Len(u) = g + Len(b)
        /\ \A i \in 1..(g + Len(b)) : u[i] = IF i <= g THEN a[i] ELSE b[i - g]
    BY <1>1, ConcatProperties
  <1> HIDE DEF u, g
  <1>3. \A k \in 1..g : u[k] = a[k] /\ k \in 1..Len(u)
    BY <1>1, <1>2
  <1>4. ASSUME NEW h \in 1..Len(b) PROVE u[g + h] = b[h] /\ g + h \in 1..Len(u)
    <2>1. PICK k : k = g + h
      OBVIOUS
    <2>2. k \in 1..(g + Len(b)) /\ ~(k <= g) /\ k - g = h
      BY <2>1, <1>1
    <2>3. u[k] = b[h] /\ k \in 1..Len(u)
      BY <2>2, <1>2
    <2> QED
      BY <2>1, <2>3
  <1>5. ASSUME NEW k \in 1..Len(u) PROVE k \in 1..g \/ \E h \in 1..Len(b) : k = g + h
    <2>1. CASE k > g
      <3>1. k - g \in 1..Len(b) /\ k = g + (k - g)
        BY <2>1, <1>1, <1>2
      <3> QED
        BY <3>1
    <2> QED
      BY <2>1, <1>1, <1>2
  <1>6. ASSUME NEW h \in 1..Len(b), NEW i \in 1..4, h + i <= Len(b) PROVE u[g + h + i] = b[h + i] /\ g + h + i <= Len(u)
    <2>1. h + i \in 1..Len(b) /\ g + h + i = g + (h + i)
      BY <1>1, <1>6
    <2>2. u[g + (h + i)] = b[h + i] /\ g + (h + i) \in 1..Len(u)
      BY <2>1, <1>4
    <2> QED
      BY <2>1, <2>2
  <1>7. ASSUME NEW h \in 2..Len(b) PROVE u[g + h - 1] = b[h - 1]
    <2>1. h - 1 \in 1..Len(b) /\ g + h - 1 = g + (h - 1)
      BY <1>1
    <2> QED
      BY <2>1, <1>4
  <1>a. ASSUME NEW k \in 1..g PROVE BracketedAt(u, 0, k)
    <2>1. BracketedAt(a, 0, k) /\ u[k] = a[k]
      BY <1>3, <1>1 DEF Fine, Sound, Bracketed, g
    <2>2. u[k] = "arm" =>
             \/ k + 2 <= Len(u) /\ u[k + 1] \in {"session", "search"} /\ u[k + 2] = "disarm"
             \/ k + 4 <= Len(u) /\ u[k + 1] = "read" /\ u[k + 2] = "begin" /\ u[k + 3] = "end" /\ u[k + 4] = "disarm"
      <3>1. \A i \in 1..4 : k + i <= g => u[k + i] = a[k + i] /\ k + i <= Len(u)
        BY <1>1, <1>2, <1>3
      <3>2. a[k] = "arm" =>
               \/ k + 2 <= g /\ a[k + 1] \in {"session", "search"} /\ a[k + 2] = "disarm"
               \/ k + 4 <= g /\ a[k + 1] = "read" /\ a[k + 2] = "begin" /\ a[k + 3] = "end" /\ a[k + 4] = "disarm"
        BY <2>1 DEF BracketedAt, g
      <3>3. (k + 2 <= g => k + 1 <= g) /\ (k + 4 <= g => k + 1 <= g /\ k + 2 <= g /\ k + 3 <= g)
        BY <1>1
      <3> QED
        BY <3>1, <3>2, <3>3, <2>1
    <2>3. u[k] # "thread" /\ u[k] \in Ops \ {"teardown", "exit"}
      BY <2>1 DEF Fine, BracketedAt, g
    <2>4. k > 1 => u[k - 1] = a[k - 1]
      BY <1>1, <1>3
    <2> QED
      BY <2>1, <2>2, <2>3, <2>4 DEF BracketedAt
  <1>b. ASSUME NEW h \in 1..Len(b), NEW k, k = g + h PROVE BracketedAt(u, 0, k)
    <2>1. BracketedAt(b, 0, h) /\ u[k] = b[h]
      BY <1>b, <1>4, <1>1 DEF Fine, Sound, Bracketed
    <2>2. u[k] = "arm" =>
             \/ k + 2 <= Len(u) /\ u[k + 1] \in {"session", "search"} /\ u[k + 2] = "disarm"
             \/ /\ k + 4 <= Len(u) /\ u[k + 1] = "read" /\ u[k + 2] = "begin"
                /\ u[k + 3] = "end" /\ u[k + 4] = "disarm"
      <3>2. b[h] = "arm" =>
               \/ h + 2 <= Len(b) /\ b[h + 1] \in {"session", "search"} /\ b[h + 2] = "disarm"
               \/ h + 4 <= Len(b) /\ b[h + 1] = "read" /\ b[h + 2] = "begin" /\ b[h + 3] = "end" /\ b[h + 4] = "disarm"
        BY <2>1 DEF BracketedAt
      <3>3. (h + 2 <= Len(b) => h + 1 <= Len(b)) /\ (h + 4 <= Len(b) => h + 1 <= Len(b) /\ h + 2 <= Len(b) /\ h + 3 <= Len(b))
        BY <1>1
      <3>4. 1 \in 1..4 /\ 2 \in 1..4 /\ 3 \in 1..4 /\ 4 \in 1..4
        OBVIOUS
      <3> QED
        BY <1>b, <1>6, <3>2, <3>3, <3>4, <2>1
    <2>3. u[k] # "thread" /\ u[k] \in Ops \ {"teardown", "exit"}
      BY <2>1 DEF Fine, BracketedAt
    <2>4. h > 1 => u[k - 1] = b[h - 1] /\ k > 1
      BY <1>b, <1>1, <1>7
    <2>5. /\ b[h] \in {"read", "search"} => h > 1 /\ b[h - 1] = "arm"
          /\ b[h] = "begin" => h > 1 /\ b[h - 1] = "read"
          /\ b[h] = "end" => h > 1 /\ b[h - 1] = "begin"
      BY <2>1 DEF BracketedAt
    <2>6. /\ u[k] \in {"read", "search"} => k > 1 /\ u[k - 1] = "arm"
          /\ u[k] = "begin" => k > 1 /\ u[k - 1] = "read"
          /\ u[k] = "end" => k > 1 /\ u[k - 1] = "begin"
      BY <2>1, <2>4, <2>5
    <2> QED
      BY <2>2, <2>3, <2>6 DEF BracketedAt
  <1>c. Bracketed(u, 0)
    <2> SUFFICES ASSUME NEW k \in 1..Len(u) PROVE BracketedAt(u, 0, k)
      BY <1>1, <1>2 DEF Bracketed
    <2> QED
      BY <1>5, <1>a, <1>b
  <1>d. ASSUME NEW k \in 1..Len(u), Takes(u, k)
        PROVE  \/ k \in 1..g /\ Takes(a, k)
               \/ \E h \in 1..Len(b) : k = g + h /\ Takes(b, h)
    <2>1. CASE k \in 1..g
      <3>1. a[k] = "arm" /\ BracketedAt(a, 0, k)
        BY <2>1, <1>d, <1>3, <1>1 DEF Takes, Fine, Sound, Bracketed, g
      <3>2. k + 1 \in 1..g
        BY <3>1, <2>1, <1>1 DEF BracketedAt, g
      <3> QED
        BY <3>1, <3>2, <2>1, <1>3, <1>d DEF Takes
    <2>2. CASE \E h \in 1..Len(b) : k = g + h
      <3>1. PICK h \in 1..Len(b) : k = g + h
        BY <2>2
      <3>2. b[h] = "arm" /\ BracketedAt(b, 0, h)
        BY <3>1, <1>d, <1>4, <1>1 DEF Takes, Fine, Sound, Bracketed
      <3>3. h + 1 <= Len(b) /\ 1 \in 1..4
        BY <3>2, <1>1 DEF BracketedAt
      <3>4. u[k + 1] = b[h + 1]
        BY <3>1, <3>3, <1>6
      <3> QED
        BY <3>1, <3>2, <3>4, <1>d DEF Takes
    <2> QED
      BY <1>5, <2>1, <2>2
  <1>e. Clears(u, 0)
    <2> SUFFICES ASSUME NEW k \in 1..Len(u), Takes(u, k) PROVE \E j \in 1..(k - 1) : u[j] = "reset"
      BY <1>1, <1>2 DEF Clears
    <2>1. CASE k \in 1..g /\ Takes(a, k)
      <3>1. PICK j \in 1..(k - 1) : a[j] = "reset"
        BY <2>1, <1>1 DEF Fine, Clears, g
      <3>2. u[j] = "reset"
        BY <3>1, <2>1, <1>1, <1>3
      <3> QED
        BY <3>2
    <2>2. ASSUME NEW h \in 1..Len(b), k = g + h, Takes(b, h) PROVE \E j \in 1..(k - 1) : u[j] = "reset"
      <3>1. PICK j \in 1..(h - 1) : b[j] = "reset"
        BY <2>2, <1>1 DEF Fine, Clears
      <3>2. j \in 1..Len(b) /\ g + j \in 1..(k - 1)
        BY <2>2, <1>1
      <3> QED
        BY <3>1, <3>2, <1>4
    <2> QED
      BY <1>d, <2>1, <2>2
  <1>f. Types(u, 0)
    <2> SUFFICES ASSUME NEW k \in 1..Len(u), Takes(u, k) PROVE LetterBefore(u, 0, k)
      BY <1>1, <1>2 DEF Types
    <2>1. CASE k \in 1..g /\ Takes(a, k)
      <3>1. PICK j \in 1..(k - 1) : a[j] = "letter" /\ \A i \in j..(k - 1) : a[i] # "reset"
        BY <2>1, <1>1 DEF Fine, Types, LetterBefore, g
      <3>2. u[j] = "letter" /\ \A i \in j..(k - 1) : u[i] # "reset"
        BY <3>1, <2>1, <1>1, <1>3
      <3> QED
        BY <3>2 DEF LetterBefore
    <2>2. ASSUME NEW h \in 1..Len(b), k = g + h, Takes(b, h) PROVE LetterBefore(u, 0, k)
      <3>1. PICK j \in 1..(h - 1) : b[j] = "letter" /\ \A i \in j..(h - 1) : b[i] # "reset"
        BY <2>2, <1>1 DEF Fine, Types, LetterBefore
      <3>2. j \in 1..Len(b) /\ g + j \in 1..(k - 1)
        BY <2>2, <1>1
      <3>3. ASSUME NEW i \in (g + j)..(k - 1) PROVE u[i] # "reset"
        <4>1. i - g \in j..(h - 1) /\ i - g \in 1..Len(b) /\ g + (i - g) = i
          BY <2>2, <1>1
        <4> QED
          BY <4>1, <3>1, <1>4
      <3>4. u[g + j] = "letter"
        BY <3>1, <3>2, <1>4
      <3> QED
        BY <3>2, <3>3, <3>4 DEF LetterBefore
    <2> QED
      BY <1>d, <2>1, <2>2
  <1>g. \A k \in 1..Len(u) : u[k] \notin {"thread", "context"}
    BY <1>5, <1>3, <1>4 DEF Fine, g
  <1>h. Retypes(u, 0)
    BY <1>f DEF Retypes, Types
  <1>i. ASSUME NEW m, NEW n, Asks(a, 0, m), Asks(b, 0, n), m = 0 \/ n = 0, m \in {0, 1}, n \in {0, 1} PROVE Asks(u, 0, 1)
    <2>0. (\A k \in 1..g : a[k] # "search") /\ \A k \in 1..Len(b) : b[k] # "search"
      BY <1>i, <1>1 DEF Asks, g
    <2>1. \A k \in 1..Len(u) : u[k] # "search"
      BY <1>5, <1>3, <1>4, <2>0
    <2>2. ASSUME NEW j \in 1..Len(u), NEW k \in 1..Len(u), u[j] = "arm", u[k] = "arm" PROVE j = k
      <3>1. \A i \in 1..g : a[i] = "arm" => m = 1
        BY <1>i, <1>1 DEF Asks, g
      <3>2. \A i \in 1..Len(b) : b[i] = "arm" => n = 1
        BY <1>i, <1>1 DEF Asks
      <3>3. \A i, l \in 1..g : a[i] = "arm" /\ a[l] = "arm" => i = l
        BY <1>i, <1>1 DEF Asks, g
      <3>4. \A i, l \in 1..Len(b) : b[i] = "arm" /\ b[l] = "arm" => i = l
        BY <1>i, <1>1 DEF Asks
      <3> QED
        BY <1>5, <1>3, <1>4, <1>i, <2>2, <3>1, <3>2, <3>3, <3>4
    <2> QED
      BY <2>1, <2>2, <1>1, <1>2 DEF Asks
  <1>j. Sound(u, 0)
    BY <1>1, <1>2, <1>c, <1>h DEF Sound
  <1> QED
    BY <1>e, <1>f, <1>g, <1>i, <1>j DEF Fine, u

\* Steps that neither capture nor belong to the end of a session or the bring-up.
PlainOps == Ops \ {"arm", "read", "search", "begin", "end", "teardown", "exit", "thread", "context"}

LEMMA PlainFine == ASSUME NEW s \in Seq(PlainOps) PROVE Fine(s) /\ Asks(s, 0, 0)
  <1>1. s \in Seq(Ops) /\ Len(s) \in Nat /\ \A k \in 1..Len(s) : s[k] \in PlainOps
    <2>1. PlainOps \subseteq Ops
      BY DEF PlainOps
    <2> QED
      BY <2>1, SeqMonotonic
  <1>2. ASSUME NEW k \in 1..Len(s)
        PROVE  s[k] \in Ops /\ s[k] \notin {"arm", "read", "search", "begin", "end", "teardown", "exit", "thread", "context"}
    BY <1>1 DEF PlainOps
  <1>3. Bracketed(s, 0)
    BY <1>1, <1>2 DEF Bracketed, BracketedAt
  <1>4. Clears(s, 0) /\ Types(s, 0) /\ Retypes(s, 0) /\ Asks(s, 0, 0)
    BY <1>1, <1>2 DEF Clears, Types, Retypes, Takes, Asks
  <1> QED
    BY <1>1, <1>2, <1>3, <1>4 DEF Fine, Sound

\* A reading is its letters.
LEMMA ReadingIs ==
    /\ ReadingKeys \in Seq(PlainOps) /\ Len(ReadingKeys) = Letters
    /\ \A k \in 1..Letters : ReadingKeys[k] = "letter"
  BY TipHostAssumption DEF ReadingKeys, PlainOps, Ops

\* The driven test captures nothing.
LEMMA DrivesFine == \A s \in Drives : s \in Seq(PlainOps)
  <1> DEFINE typed == [i \in 1..2 * Letters |-> IF i % 2 = 1 THEN "letter" ELSE "pump"] \o <<"pump", "probe">>
             strike == <<"key", "pump">>
             page == strike \o strike \o strike \o strike
  <1>1. typed \in Seq(PlainOps)
    <2> DEFINE keys == [i \in 1..2 * Letters |-> IF i % 2 = 1 THEN "letter" ELSE "pump"]
    <2>1. keys \in Seq(PlainOps)
      BY TipHostAssumption DEF PlainOps, Ops, BootOps
    <2>2. <<"pump", "probe">> \in Seq(PlainOps)
      BY DEF PlainOps, Ops, BootOps
    <2> QED
      BY <2>1, <2>2, ConcatProperties
  <1>2. /\ strike \in Seq(PlainOps) /\ <<"searchprobe", "probe">> \in Seq(PlainOps)
        /\ <<"probe">> \in Seq(PlainOps) /\ <<>> \in Seq(PlainOps)
    BY DEF PlainOps, Ops, BootOps
  <1> HIDE DEF typed, strike
  <1>3. strike \o strike \in Seq(PlainOps)
    BY <1>2, ConcatProperties
  <1>4. strike \o strike \o strike \in Seq(PlainOps)
    BY <1>2, <1>3, ConcatProperties
  <1>5. page \in Seq(PlainOps)
    BY <1>2, <1>4, ConcatProperties
  <1> HIDE DEF page
  <1>6. typed \o strike \in Seq(PlainOps)
    BY <1>1, <1>2, ConcatProperties
  <1>7. typed \o strike \o strike \in Seq(PlainOps)
    BY <1>6, <1>2, ConcatProperties
  <1>8. typed \o strike \o <<"searchprobe", "probe">> \in Seq(PlainOps)
    BY <1>6, <1>2, ConcatProperties
  <1>9. typed \o strike \o <<"probe">> \in Seq(PlainOps)
    BY <1>6, <1>2, ConcatProperties
  <1>10. ASSUME NEW p \in {<<>>, page}
         PROVE  typed \o strike \o <<"probe">> \o p \o strike \o <<"probe">> \o strike \in Seq(PlainOps)
    <2>1. p \in Seq(PlainOps)
      BY <1>2, <1>5
    <2>2. typed \o strike \o <<"probe">> \o p \in Seq(PlainOps)
      BY <2>1, <1>9, ConcatProperties
    <2>3. typed \o strike \o <<"probe">> \o p \o strike \in Seq(PlainOps)
      BY <2>2, <1>2, ConcatProperties
    <2>4. typed \o strike \o <<"probe">> \o p \o strike \o <<"probe">> \in Seq(PlainOps)
      BY <2>3, <1>2, ConcatProperties
    <2> QED
      BY <2>4, <1>2, ConcatProperties
  <1>11. Drives = {typed \o strike \o strike, typed \o strike \o <<"searchprobe", "probe">>}
           \cup {typed \o strike \o <<"probe">> \o p \o strike \o <<"probe">> \o strike : p \in {<<>>, page}}
    BY DEF Drives, typed, strike, page
  <1> QED
    BY <1>7, <1>8, <1>10, <1>11

\* The commands that print a result.
LEMMA ConvertFine == Fine(Convert) /\ Asks(Convert, 0, 1)
  <1> DEFINE v == Letters
             a == <<"reset">>
             b == ReadingKeys
             c == <<"pump", "key", "pump", "arm", "session", "disarm">>
  <1>0. v \in Nat \ {0}
    BY TipHostAssumption
  <1>1. a \in Seq(Ops) /\ b \in Seq(Ops) /\ c \in Seq(Ops)
    <2>1. PlainOps \subseteq Ops
      BY DEF PlainOps
    <2> QED
      BY <2>1, ReadingIs, SeqMonotonic DEF Ops, BootOps
  <1>2. PICK r : r = Convert
    OBVIOUS
  <1>3. /\ r \in Seq(Ops) /\ Len(r) = v + 7 /\ r[1] = "reset"
        /\ \A k \in 2..(v + 1) : r[k] = "letter"
        /\ r[v + 2] = "pump" /\ r[v + 3] = "key" /\ r[v + 4] = "pump"
        /\ r[v + 5] = "arm" /\ r[v + 6] = "session" /\ r[v + 7] = "disarm"
    <2> DEFINE ab == a \o b
    <2>1. ab \in Seq(Ops) /\ Len(ab) = v + 1 /\ ab[1] = "reset" /\ \A k \in 2..(v + 1) : ab[k] = "letter"
      BY <1>0, <1>1, ReadingIs, ConcatProperties
    <2>2. r = ab \o c
      BY <1>2 DEF Convert
    <2> HIDE DEF ab
    <2>3. r \in Seq(Ops) /\ Len(r) = v + 7
      BY <2>1, <2>2, <1>0, <1>1, ConcatProperties
    <2>4. \A k \in 1..(v + 1) : r[k] = ab[k]
      <3> SUFFICES ASSUME NEW k \in 1..(v + 1) PROVE r[k] = ab[k]
        OBVIOUS
      <3>1. Len(c) = 6 /\ k \in 1..(Len(ab) + Len(c)) /\ k <= Len(ab)
        BY <2>1, <1>0
      <3>2. (ab \o c)[k] = ab[k]
        BY <2>1, <1>1, <3>1, ConcatProperties
      <3> QED
        BY <2>2, <3>2
    <2>5. \A k \in 1..6 : r[v + 1 + k] = c[k]
      <3> SUFFICES ASSUME NEW k \in 1..6 PROVE r[v + 1 + k] = c[k]
        OBVIOUS
      <3>1. PICK i \in Nat : i = v + 1 + k
        BY <1>0
      <3>2. Len(c) = 6 /\ i \in 1..(Len(ab) + Len(c)) /\ ~(i <= Len(ab)) /\ i - Len(ab) = k
        BY <2>1, <3>1, <1>0
      <3>3. (ab \o c)[i] = c[i - Len(ab)]
        BY <2>1, <1>1, <3>2, ConcatProperties
      <3> QED
        BY <2>2, <3>1, <3>2, <3>3
    <2>6. /\ r[v + 1 + 1] = "pump" /\ r[v + 1 + 2] = "key" /\ r[v + 1 + 3] = "pump"
          /\ r[v + 1 + 4] = "arm" /\ r[v + 1 + 5] = "session" /\ r[v + 1 + 6] = "disarm"
      BY <2>5
    <2>7. /\ v + 1 + 1 = v + 2 /\ v + 1 + 2 = v + 3 /\ v + 1 + 3 = v + 4
          /\ v + 1 + 4 = v + 5 /\ v + 1 + 5 = v + 6 /\ v + 1 + 6 = v + 7
      BY <1>0
    <2> QED
      BY <2>1, <2>3, <2>4, <2>6, <2>7, <1>0
  <1>4. \A k \in 1..Len(r) : k = 1 \/ k \in 2..(v + 1) \/ k \in {v + 2, v + 3, v + 4, v + 5, v + 6, v + 7}
    BY <1>0, <1>3
  <1>5. \A k \in 1..Len(r) : r[k] \in {"reset", "letter", "pump", "key", "session", "disarm"} \/ (k = v + 5 /\ r[k] = "arm")
    BY <1>3, <1>4
  <1>6. Bracketed(r, 0)
    BY <1>0, <1>3, <1>5 DEF Bracketed, BracketedAt, Ops, BootOps
  <1>7. LetterBefore(r, 0, v + 5)
    <2>1. PICK j : j = v + 1
      OBVIOUS
    <2>2. PICK k : k = v + 5
      OBVIOUS
    <2>3. j \in 1..(k - 1) /\ r[j] = "letter" /\ \A i \in j..(k - 1) : r[i] # "reset"
      BY <2>1, <2>2, <1>0, <1>3
    <2>4. LetterBefore(r, 0, k)
      BY <2>3 DEF LetterBefore
    <2> QED
      BY <2>2, <2>4
  <1>8. Clears(r, 0) /\ Types(r, 0) /\ Retypes(r, 0)
    <2>1. \A k \in 1..Len(r) : Takes(r, k) => k = v + 5
      BY <1>5 DEF Takes
    <2>2. 1 \in 1..(v + 5 - 1)
      BY <1>0
    <2> QED
      BY <2>1, <2>2, <1>3, <1>7 DEF Clears, Types, Retypes
  <1>9. Asks(r, 0, 1)
    BY <1>5 DEF Asks
  <1>10. Fine(r)
    BY <1>0, <1>3, <1>5, <1>6, <1>8 DEF Fine, Sound
  <1> QED
    BY <1>2, <1>9, <1>10

LEMMA HenkanFine == Fine(Henkan) /\ Asks(Henkan, 0, 1)
  <1> DEFINE v == Letters
             a == <<"reset">>
             b == ReadingKeys
             c == <<"pump", "key", "pump", "arm", "read", "begin", "end", "disarm">>
  <1>0. v \in Nat \ {0}
    BY TipHostAssumption
  <1>1. a \in Seq(Ops) /\ b \in Seq(Ops) /\ c \in Seq(Ops)
    <2>1. PlainOps \subseteq Ops
      BY DEF PlainOps
    <2> QED
      BY <2>1, ReadingIs, SeqMonotonic DEF Ops, BootOps
  <1>2. PICK r : r = Henkan
    OBVIOUS
  <1>3. /\ r \in Seq(Ops) /\ Len(r) = v + 9 /\ r[1] = "reset"
        /\ \A k \in 2..(v + 1) : r[k] = "letter"
        /\ r[v + 2] = "pump" /\ r[v + 3] = "key" /\ r[v + 4] = "pump"
        /\ r[v + 5] = "arm" /\ r[v + 6] = "read" /\ r[v + 7] = "begin" /\ r[v + 8] = "end" /\ r[v + 9] = "disarm"
    <2> DEFINE ab == a \o b
    <2>1. ab \in Seq(Ops) /\ Len(ab) = v + 1 /\ ab[1] = "reset" /\ \A k \in 2..(v + 1) : ab[k] = "letter"
      BY <1>0, <1>1, ReadingIs, ConcatProperties
    <2>2. r = ab \o c
      BY <1>2 DEF Henkan
    <2> HIDE DEF ab
    <2>3. r \in Seq(Ops) /\ Len(r) = v + 9
      BY <2>1, <2>2, <1>0, <1>1, ConcatProperties
    <2>4. \A k \in 1..(v + 1) : r[k] = ab[k]
      <3> SUFFICES ASSUME NEW k \in 1..(v + 1) PROVE r[k] = ab[k]
        OBVIOUS
      <3>1. Len(c) = 8 /\ k \in 1..(Len(ab) + Len(c)) /\ k <= Len(ab)
        BY <2>1, <1>0
      <3>2. (ab \o c)[k] = ab[k]
        BY <2>1, <1>1, <3>1, ConcatProperties
      <3> QED
        BY <2>2, <3>2
    <2>5. \A k \in 1..8 : r[v + 1 + k] = c[k]
      <3> SUFFICES ASSUME NEW k \in 1..8 PROVE r[v + 1 + k] = c[k]
        OBVIOUS
      <3>1. PICK i \in Nat : i = v + 1 + k
        BY <1>0
      <3>2. Len(c) = 8 /\ i \in 1..(Len(ab) + Len(c)) /\ ~(i <= Len(ab)) /\ i - Len(ab) = k
        BY <2>1, <3>1, <1>0
      <3>3. (ab \o c)[i] = c[i - Len(ab)]
        BY <2>1, <1>1, <3>2, ConcatProperties
      <3> QED
        BY <2>2, <3>1, <3>2, <3>3
    <2>6. /\ r[v + 1 + 1] = "pump" /\ r[v + 1 + 2] = "key" /\ r[v + 1 + 3] = "pump"
          /\ r[v + 1 + 4] = "arm" /\ r[v + 1 + 5] = "read"
          /\ r[v + 1 + 6] = "begin" /\ r[v + 1 + 7] = "end" /\ r[v + 1 + 8] = "disarm"
      BY <2>5
    <2>7. /\ v + 1 + 1 = v + 2 /\ v + 1 + 2 = v + 3 /\ v + 1 + 3 = v + 4
          /\ v + 1 + 4 = v + 5 /\ v + 1 + 5 = v + 6 /\ v + 1 + 6 = v + 7
          /\ v + 1 + 7 = v + 8 /\ v + 1 + 8 = v + 9
      BY <1>0
    <2> QED
      BY <2>1, <2>3, <2>4, <2>6, <2>7, <1>0
  <1>4. \A k \in 1..Len(r) : k = 1 \/ k \in 2..(v + 1) \/ k \in {v + 2, v + 3, v + 4, v + 5, v + 6, v + 7, v + 8, v + 9}
    BY <1>0, <1>3
  <1>5. \A k \in 1..Len(r) : r[k] \in {"reset", "letter", "pump", "key", "disarm"}
            \/ (k = v + 5 /\ r[k] = "arm") \/ (k = v + 6 /\ r[k] = "read")
            \/ (k = v + 7 /\ r[k] = "begin") \/ (k = v + 8 /\ r[k] = "end")
    BY <1>3, <1>4
  <1>6. Bracketed(r, 0)
    BY <1>0, <1>3, <1>5 DEF Bracketed, BracketedAt, Ops, BootOps
  <1>7. LetterBefore(r, 0, v + 5)
    <2>1. PICK j : j = v + 1
      OBVIOUS
    <2>2. PICK k : k = v + 5
      OBVIOUS
    <2>3. j \in 1..(k - 1) /\ r[j] = "letter" /\ \A i \in j..(k - 1) : r[i] # "reset"
      BY <2>1, <2>2, <1>0, <1>3
    <2>4. LetterBefore(r, 0, k)
      BY <2>3 DEF LetterBefore
    <2> QED
      BY <2>2, <2>4
  <1>8. Clears(r, 0) /\ Types(r, 0) /\ Retypes(r, 0)
    <2>1. \A k \in 1..Len(r) : Takes(r, k) => k = v + 5
      BY <1>5 DEF Takes
    <2>2. 1 \in 1..(v + 5 - 1)
      BY <1>0
    <2> QED
      BY <2>1, <2>2, <1>3, <1>7 DEF Clears, Types, Retypes
  <1>9. Asks(r, 0, 1)
    BY <1>5 DEF Asks
  <1>10. Fine(r)
    BY <1>0, <1>3, <1>5, <1>6, <1>8 DEF Fine, Sound
  <1> QED
    BY <1>2, <1>9, <1>10

\* The search is a bracket of its own.
LEMMA SearchFine == Fine(SearchCommand)
  <1> DEFINE r == SearchCommand
  <1>1. r \in Seq(Ops) /\ Len(r) = 3 /\ r[1] = "arm" /\ r[2] = "search" /\ r[3] = "disarm"
    BY DEF SearchCommand, Ops
  <1> HIDE DEF r
  <1>2. \A k \in 1..Len(r) : ~Takes(r, k)
    BY <1>1 DEF Takes
  <1>3. Bracketed(r, 0)
    BY <1>1 DEF Bracketed, BracketedAt, Ops
  <1>4. Clears(r, 0) /\ Types(r, 0) /\ Retypes(r, 0)
    BY <1>1, <1>2 DEF Clears, Types, Retypes
  <1> QED
    BY <1>1, <1>3, <1>4 DEF Fine, Sound, r

\* Every command.
LEMMA ScriptsFine ==
    ASSUME NEW c, NEW s \in Scripts(c)
    PROVE  /\ Fine(s)
           /\ c # "search" => Asks(s, 0, 1)
           /\ c \notin Results => Asks(s, 0, 0)
  <1>1. ASSUME NEW r, Asks(r, 0, 0) PROVE Asks(r, 0, 1)
    BY <1>1 DEF Asks
  <1>2. CASE c = "convert"
    BY <1>2, ConvertFine DEF Scripts, Results
  <1>3. CASE c = "henkan"
    BY <1>3, HenkanFine DEF Scripts, Results
  <1>4. CASE c = "search"
    BY <1>4, SearchFine DEF Scripts, Results
  <1>5. CASE c \notin Results
    <2>1. ReadingKeys \o <<"pump">> \in Seq(PlainOps)
      <3>1. <<"pump">> \in Seq(PlainOps)
        BY DEF PlainOps, Ops, BootOps
      <3> QED
        BY <3>1, ReadingIs, ConcatProperties
    <2>2. \A x \in {"reset", "key", "pump", "session", "manualtip", "quit"} : x \in PlainOps
      BY DEF PlainOps, Ops, BootOps
    <2>3. /\ <<"reset">> \in Seq(PlainOps) /\ ActionKey \in Seq(PlainOps) /\ <<"key">> \in Seq(PlainOps)
          /\ <<"session">> \in Seq(PlainOps) /\ <<"manualtip">> \in Seq(PlainOps)
          /\ <<"quit">> \in Seq(PlainOps) /\ Silent \in Seq(PlainOps) /\ <<>> \in Seq(PlainOps)
      BY <2>2 DEF ActionKey, Silent
    <2>4. Scripts(c) \subseteq Seq(PlainOps)
      BY <1>5, <2>1, <2>3, DrivesFine DEF Scripts, Results
    <2> QED
      BY <2>4, PlainFine, <1>1
  <1> QED
    BY <1>2, <1>3, <1>4, <1>5 DEF Results

\* Whatever a line asks for is fine; a line of the relay asks for one result at most.
LEMMA LinesFine ==
    ASSUME NEW l, NEW s \in LineScripts(l)
    PROVE  Fine(s) /\ (l \in Lines => Asks(s, 0, 1))
  <1>1. PICK a \in Scripts(l[1]) : \E b \in IF Len(l) > 1 THEN Scripts(l[2]) ELSE {<<>>} : s = a \o b
    BY DEF LineScripts
  <1>2. PICK b \in IF Len(l) > 1 THEN Scripts(l[2]) ELSE {<<>>} : s = a \o b
    BY <1>1
  <1>3. Fine(a) /\ (l[1] # "search" => Asks(a, 0, 1)) /\ (l[1] \notin Results => Asks(a, 0, 0))
    BY ScriptsFine
  <1>4. CASE Len(l) > 1
    <2>1. Fine(b) /\ (l[2] # "search" => Asks(b, 0, 1)) /\ (l[2] \notin Results => Asks(b, 0, 0))
      BY <1>4, <1>2, ScriptsFine
    <2>2. /\ Fine(a \o b)
          /\ Asks(a, 0, 1) /\ Asks(b, 0, 0) => Asks(a \o b, 0, 1)
          /\ Asks(a, 0, 0) /\ Asks(b, 0, 1) => Asks(a \o b, 0, 1)
      BY <1>3, <2>1, FineConcat
    <2> QED
      BY <1>2, <1>3, <1>4, <2>1, <2>2, RelayLines
  <1>5. CASE ~(Len(l) > 1)
    <2>1. b = <<>>
      BY <1>5, <1>2
    <2>2. Fine(b) /\ Asks(b, 0, 0)
      <3>1. <<>> \in Seq(PlainOps)
        OBVIOUS
      <3> QED
        BY <2>1, <3>1, PlainFine
    <2>3. /\ Fine(a \o b)
          /\ Asks(a, 0, 1) /\ Asks(b, 0, 0) => Asks(a \o b, 0, 1)
      BY <1>3, <2>2, FineConcat
    <2> QED
      BY <1>2, <1>3, <2>2, <2>3, RelayLines
  <1> QED
    BY <1>4, <1>5

\* main arms nothing; started warm it has the bring-up to do and nothing else.
MainOK(s, m) ==
    /\ \A k \in DOMAIN s : s[k] # "arm"
    /\ m = "warm" => \A k \in DOMAIN s : s[k] \in BootOps

\* So is what main does in each mode.
LEMMA MainFine ==
    ASSUME NEW m, NEW s \in MainScripts(m)
    PROVE  Sound(s, 0) /\ Clears(s, 0) /\ Types(s, 0) /\ MainOK(s, m)
  <1> DEFINE R == Ops \ {"arm", "read", "search", "begin", "end", "teardown", "exit", "thread"}
  <1>1. ASSUME NEW r \in Seq(R) PROVE Sound(r, 0) /\ Clears(r, 0) /\ Types(r, 0) /\ \A k \in DOMAIN r : r[k] # "arm"
    <2>1. r \in Seq(Ops) /\ Len(r) \in Nat /\ DOMAIN r = 1..Len(r) /\ \A k \in 1..Len(r) : r[k] \in R
      <3>1. R \subseteq Ops
        OBVIOUS
      <3> QED
        BY <3>1, SeqMonotonic, LenProperties
    <2>2. ASSUME NEW k \in 1..Len(r)
          PROVE  r[k] \in Ops /\ r[k] \notin {"arm", "read", "search", "begin", "end", "teardown", "exit", "thread"}
      BY <2>1
    <2>3. Bracketed(r, 0)
      BY <2>1, <2>2 DEF Bracketed, BracketedAt
    <2>4. Clears(r, 0) /\ Types(r, 0) /\ Retypes(r, 0)
      BY <2>1, <2>2 DEF Clears, Types, Retypes, Takes
    <2> QED
      BY <2>1, <2>2, <2>3, <2>4 DEF Sound
  <1>2. \A x \in {"pump", "release", "manualtip", "window", "tm", "context", "tip"} : x \in R
    BY DEF Ops, BootOps
  <1>3. /\ <<"pump", "release">> \in Seq(R) /\ <<"release">> \in Seq(R) /\ <<"manualtip", "release">> \in Seq(R)
        /\ Boot \in Seq(R)
    BY <1>2 DEF Boot
  <1>4. Seq(PlainOps) \subseteq Seq(R)
    <2>1. PlainOps \subseteq R
      BY DEF PlainOps
    <2> QED
      BY <2>1, SeqMonotonic
  <1> HIDE DEF R
  <1>5. CASE m = "drive"
    <2>1. PICK d \in Drives \cup {<<>>} : s = Boot \o d \o <<"pump", "release">>
      BY <1>5 DEF MainScripts
    <2>2. d \in Seq(R)
      <3>1. <<>> \in Seq(R)
        OBVIOUS
      <3> QED
        BY <3>1, <1>4, DrivesFine
    <2>3. Boot \o d \in Seq(R)
      BY <1>3, <2>2, ConcatProperties
    <2>4. s \in Seq(R)
      BY <1>3, <2>1, <2>3, ConcatProperties
    <2> QED
      BY <2>4, <1>1, <1>5 DEF MainOK
  <1>6. CASE m = "snapshot"
    <2>1. s \in {Boot \o <<"release">>, Boot \o <<"manualtip", "release">>}
      BY <1>6 DEF MainScripts
    <2>2. s \in Seq(R)
      BY <1>3, <2>1, ConcatProperties
    <2> QED
      BY <2>2, <1>1, <1>6 DEF MainOK
  <1>7. CASE m \notin {"drive", "snapshot"}
    <2> DEFINE a == Boot
               b == <<"thread", "loop", "release">>
    <2>1. s = a \o b
      BY <1>7 DEF MainScripts
    <2>2. /\ Len(a) = 6 /\ a[1] = "window" /\ a[2] = "pump" /\ a[3] = "tm" /\ a[4] = "context" /\ a[5] = "pump"
          /\ a[6] = "tip" /\ a \in Seq(BootOps) /\ b \in Seq(BootOps)
      BY DEF Boot, BootOps
    <2>3. Len(b) = 3 /\ b[1] = "thread" /\ b[2] = "loop" /\ b[3] = "release"
      OBVIOUS
    <2> HIDE DEF a, b
    <2>4. /\ s \in Seq(BootOps) /\ Len(s) = 9 /\ DOMAIN s = 1..9
          /\ \A i \in 1..9 : s[i] = IF i <= 6 THEN a[i] ELSE b[i - 6]
      <3>1. /\ s \in Seq(BootOps) /\ Len(s) = Len(a) + Len(b)
            /\ \A i \in 1..(Len(a) + Len(b)) : s[i] = IF i <= Len(a) THEN a[i] ELSE b[i - Len(a)]
        BY <2>1, <2>2, ConcatProperties
      <3>2. Len(s) = 9 /\ Len(a) + Len(b) = 9
        BY <3>1, <2>2, <2>3
      <3> QED
        BY <3>1, <3>2, <2>2, LenProperties
    <2>5. \A k \in 1..9 : s[k] \in BootOps /\ (s[k] = "thread" => k = 7)
      <3>1. \A k \in 1..9 : k \in {1, 2, 3, 4, 5, 6, 7, 8, 9}
        OBVIOUS
      <3> QED
        BY <3>1, <2>2, <2>3, <2>4 DEF BootOps
    <2>6. s[8] = "loop" /\ s[9] = "release"
      BY <2>3, <2>4
    <2>7. s \in Seq(Ops)
      <3>1. BootOps \subseteq Ops
        BY DEF Ops
      <3> QED
        BY <3>1, <2>4, SeqMonotonic
    <2>8. Bracketed(s, 0)
      <3> SUFFICES ASSUME NEW k \in 1..9 PROVE BracketedAt(s, 0, k)
        BY <2>4 DEF Bracketed
      <3>1. s[k] \in BootOps /\ (s[k] = "thread" => \A j \in (k + 1)..Len(s) : s[j] \in {"loop", "release"})
        BY <2>4, <2>5, <2>6
      <3> QED
        BY <3>1 DEF BracketedAt, Ops, BootOps
    <2>9. \A k \in 1..9 : s[k] # "arm"
      BY <2>5 DEF BootOps
    <2>10. Clears(s, 0) /\ Types(s, 0) /\ Retypes(s, 0)
      BY <2>4, <2>9 DEF Clears, Types, Retypes, Takes
    <2> QED
      BY <2>4, <2>5, <2>7, <2>8, <2>9, <2>10 DEF Sound, MainOK
  <1> QED
    BY <1>5, <1>6, <1>7

-----------------------------------------------------------------------------
(***************************************************************************)
(* TipHost: the state.                                                     *)
(***************************************************************************)
RelayIds == 1..MaxLines

\* A text with nothing of lines the command has not met.
Fresh(f, text) == text \subseteq {f.id} \cup f.met

\* A text with the letters of the command's own line, if it is a line of the relay, unless they
\* are late or it has met others.
HoldsOwn(f, text, q, context) ==
    f.id \in RelayIds /\ context => f.id \in text \/ f.met # {} \/ \E i \in DOMAIN q : q[i] = f.id

\* A command under way, n steps inside a bracket, with m results to come.
FrameOK(f, n, m, text, q, context, at, md) ==
    /\ Sound(f.script, n)
    /\ Clears(f.script, n) \/ Fresh(f, text)
    /\ Types(f.script, n) \/ HoldsOwn(f, text, q, context)
    /\ f.id = 0 => MainOK(f.script, md)
    /\ f.id \in RelayIds => Asks(f.script, n, m)
    /\ \A k \in DOMAIN f.script : f.script[k] \in {"thread", "context"} => f.id = 0 /\ at = "none"

Frames == [id : LineIds, script : Seq(Ops), met : SUBSET LineIds]

\* The command with other steps to do.
With(f, s) == [f EXCEPT !.script = s]

\* A command with another script left to do.
LEMMA WithIs ==
    ASSUME NEW f \in Frames, NEW s \in Seq(Ops)
    PROVE  With(f, s) \in Frames /\ With(f, s).id = f.id /\ With(f, s).script = s /\ With(f, s).met = f.met
  BY DEF With, Frames

\* What a text holds of a command does not depend on its script.
LEMMA SameOwner ==
    ASSUME NEW f \in Frames, NEW s \in Seq(Ops), NEW text, NEW q, NEW context
    PROVE  /\ Fresh(With(f, s), text) <=> Fresh(f, text)
           /\ HoldsOwn(With(f, s), text, q, context) <=> HoldsOwn(f, text, q, context)
  BY WithIs DEF Fresh, HoldsOwn

\* A command does a step outside of a bracket.
LEMMA FrameStep ==
    ASSUME NEW f \in Frames, NEW m, NEW c, NEW q, NEW x, NEW a, NEW md, NEW c2, NEW q2,
           FrameOK(f, 0, m, c, q, x, a, md), f.script # <<>>, f.script[1] # "arm",
           f.script[1] = "reset" \/ Fresh(f, c) => Fresh(f, c2),
           f.script[1] = "letter" \/ (f.script[1] # "reset" /\ HoldsOwn(f, c, q, x)) => HoldsOwn(f, c2, q2, x)
    PROVE  FrameOK(With(f, Tail(f.script)), 0, m, c2, q2, x, a, md)
  <1> DEFINE s == f.script
             t == Tail(s)
             g == With(f, t)
  <1>1. Sound(s, 0)
    BY DEF FrameOK
  <1>2. /\ Sound(t, 0)
        /\ s[1] # "reset" /\ Clears(s, 0) => Clears(t, 0)
        /\ s[1] # "letter" /\ Types(s, 0) => Types(t, 0)
        /\ s[1] = "reset" => Types(t, 0)
        /\ \A mm : Asks(s, 0, mm) => Asks(t, 0, mm)
    BY <1>1, OneStep
  <1>3. t \in Seq(Ops) /\ s \in Seq(Ops)
    BY <1>1, <1>2 DEF Sound
  <1>4. g.id = f.id /\ g.script = t /\ (Fresh(g, c2) <=> Fresh(f, c2)) /\ (HoldsOwn(g, c2, q2, x) <=> HoldsOwn(f, c2, q2, x))
    BY <1>3, WithIs, SameOwner
  <1>5. \A k \in DOMAIN t : k + 1 \in DOMAIN s /\ t[k] = s[k + 1]
    BY <1>3
  <1> HIDE DEF s, t, g
  <1>6. MainOK(s, md) => MainOK(t, md)
    BY <1>5 DEF MainOK
  <1>7. /\ Clears(s, 0) \/ Fresh(f, c)
        /\ Types(s, 0) \/ HoldsOwn(f, c, q, x)
        /\ f.id = 0 => MainOK(s, md)
        /\ f.id \in RelayIds => Asks(s, 0, m)
        /\ \A k \in DOMAIN s : s[k] \in {"thread", "context"} => f.id = 0 /\ a = "none"
    BY DEF FrameOK, s
  <1>8. Clears(t, 0) \/ Fresh(g, c2)
    BY <1>2, <1>4, <1>7 DEF s
  <1>9. Types(t, 0) \/ HoldsOwn(g, c2, q2, x)
    BY <1>2, <1>4, <1>7 DEF s
  <1>10. \A k \in DOMAIN t : t[k] \in {"thread", "context"} => f.id = 0 /\ a = "none"
    BY <1>5, <1>7
  <1> QED
    BY <1>2, <1>4, <1>6, <1>7, <1>8, <1>9, <1>10 DEF FrameOK, g, s, t

\* A command does a step inside a bracket.
LEMMA FrameInside ==
    ASSUME NEW f \in Frames, NEW n \in 1..4, NEW m, NEW c, NEW q, NEW x, NEW a, NEW md,
           FrameOK(f, n, m, c, q, x, a, md)
    PROVE  FrameOK(With(f, Tail(f.script)), n - 1, m, c, q, x, a, md)
  <1> DEFINE s == f.script
             t == Tail(s)
             g == With(f, t)
  <1>1. Sound(s, n)
    BY DEF FrameOK
  <1>2. /\ Sound(t, n - 1)
        /\ Clears(s, n) => Clears(t, n - 1)
        /\ Types(s, n) => Types(t, n - 1)
        /\ \A mm : Asks(s, n, mm) => Asks(t, n - 1, mm)
    BY <1>1, StepInside
  <1>3. t \in Seq(Ops) /\ s \in Seq(Ops)
    BY <1>1, <1>2 DEF Sound
  <1>4. g.id = f.id /\ g.script = t /\ (Fresh(g, c) <=> Fresh(f, c)) /\ (HoldsOwn(g, c, q, x) <=> HoldsOwn(f, c, q, x))
    BY <1>3, WithIs, SameOwner
  <1>a. s # <<>>
    BY <1>1 DEF Sound
  <1>5. \A k \in DOMAIN t : k + 1 \in DOMAIN s /\ t[k] = s[k + 1]
    BY <1>3, <1>a
  <1> HIDE DEF s, t, g
  <1>6. MainOK(s, md) => MainOK(t, md)
    BY <1>5 DEF MainOK
  <1>7. /\ Clears(s, n) \/ Fresh(f, c)
        /\ Types(s, n) \/ HoldsOwn(f, c, q, x)
        /\ f.id = 0 => MainOK(s, md)
        /\ f.id \in RelayIds => Asks(s, n, m)
        /\ \A k \in DOMAIN s : s[k] \in {"thread", "context"} => f.id = 0 /\ a = "none"
    BY DEF FrameOK, s
  <1>10. \A k \in DOMAIN t : t[k] \in {"thread", "context"} => f.id = 0 /\ a = "none"
    BY <1>5, <1>7
  <1> QED
    BY <1>2, <1>4, <1>6, <1>7, <1>10 DEF FrameOK, g, s, t

\* A command enters a bracket.
LEMMA FrameArms ==
    ASSUME NEW f \in Frames, NEW c, NEW q, NEW x, NEW a, NEW md,
           FrameOK(f, 0, 1, c, q, x, a, md), f.script # <<>>, f.script[1] = "arm"
    PROVE  \E n \in {2, 4} :
               LET t == Tail(f.script) IN
               /\ Captures(t, n)
               /\ FrameOK(With(f, t), n, 0, c, q, x, a, md)
               /\ t[1] \in {"session", "search", "read"}
               /\ t[1] # "search" => Fresh(f, c) /\ HoldsOwn(f, c, q, x)
               /\ f.id \in RelayIds => t[1] # "search"
  <1> DEFINE s == f.script
             t == Tail(s)
             g == With(f, t)
  <1>1. Sound(s, 0)
    BY DEF FrameOK
  <1>2. PICK n \in {2, 4} :
               /\ Captures(t, n) /\ Sound(t, n)
               /\ t[1] \in {"session", "search", "read"}
               /\ Clears(s, 0) => Clears(t, n) /\ t[1] = "search"
               /\ Types(s, 0) => Types(t, n) /\ t[1] = "search"
               /\ Asks(s, 0, 1) => Asks(t, n, 0) /\ t[1] # "search"
    BY <1>1, IntoCapture
  <1>3. t \in Seq(Ops) /\ s \in Seq(Ops)
    BY <1>1, <1>2 DEF Sound
  <1>4. g.id = f.id /\ g.script = t /\ (Fresh(g, c) <=> Fresh(f, c)) /\ (HoldsOwn(g, c, q, x) <=> HoldsOwn(f, c, q, x))
    BY <1>3, WithIs, SameOwner
  <1>5. \A k \in DOMAIN t : k + 1 \in DOMAIN s /\ t[k] = s[k + 1]
    BY <1>3
  <1> HIDE DEF s, t, g
  <1>6. MainOK(s, md) => MainOK(t, md)
    BY <1>5 DEF MainOK
  <1>7. /\ Clears(s, 0) \/ Fresh(f, c)
        /\ Types(s, 0) \/ HoldsOwn(f, c, q, x)
        /\ f.id = 0 => MainOK(s, md)
        /\ f.id \in RelayIds => Asks(s, 0, 1)
        /\ \A k \in DOMAIN s : s[k] \in {"thread", "context"} => f.id = 0 /\ a = "none"
    BY DEF FrameOK, s
  <1>10. \A k \in DOMAIN t : t[k] \in {"thread", "context"} => f.id = 0 /\ a = "none"
    BY <1>5, <1>7
  <1>11. FrameOK(g, n, 0, c, q, x, a, md)
    BY <1>2, <1>4, <1>6, <1>7, <1>10 DEF FrameOK
  <1> QED
    BY <1>2, <1>7, <1>11 DEF g, s, t

\* A command is given a step to do first.
LEMMA FrameBefore ==
    ASSUME NEW f \in Frames, NEW n \in 0..3, NEW m, NEW c, NEW q, NEW x, NEW a, NEW md,
           FrameOK(f, n, m, c, q, x, a, md),
           NEW o \in Ops \ {"arm", "thread", "context"}, f.id = 0 => md # "warm"
    PROVE  FrameOK(With(f, <<o>> \o f.script), n + 1, m, c, q, x, a, md)
  <1> DEFINE s == f.script
             t == <<o>> \o s
             g == With(f, t)
  <1>1. Sound(s, n)
    BY DEF FrameOK
  <1>2. /\ Sound(t, n + 1)
        /\ Clears(s, n) => Clears(t, n + 1)
        /\ Types(s, n) => Types(t, n + 1)
        /\ \A mm : Asks(s, n, mm) => Asks(t, n + 1, mm)
    BY <1>1, OneBefore
  <1>3. t \in Seq(Ops) /\ s \in Seq(Ops)
    BY <1>1, <1>2 DEF Sound
  <1>4. g.id = f.id /\ g.script = t /\ (Fresh(g, c) <=> Fresh(f, c)) /\ (HoldsOwn(g, c, q, x) <=> HoldsOwn(f, c, q, x))
    BY <1>3, WithIs, SameOwner
  <1>5. \A k \in DOMAIN t : t[k] = o \/ (k - 1 \in DOMAIN s /\ t[k] = s[k - 1])
    BY <1>3
  <1> HIDE DEF s, t, g
  <1>6. md # "warm" /\ MainOK(s, md) => MainOK(t, md)
    BY <1>5 DEF MainOK
  <1>7. /\ Clears(s, n) \/ Fresh(f, c)
        /\ Types(s, n) \/ HoldsOwn(f, c, q, x)
        /\ f.id = 0 => MainOK(s, md)
        /\ f.id \in RelayIds => Asks(s, n, m)
        /\ \A k \in DOMAIN s : s[k] \in {"thread", "context"} => f.id = 0 /\ a = "none"
    BY DEF FrameOK, s
  <1>10. \A k \in DOMAIN t : t[k] \in {"thread", "context"} => f.id = 0 /\ a = "none"
    BY <1>5, <1>7
  <1> QED
    BY <1>2, <1>4, <1>6, <1>7, <1>10 DEF FrameOK, g, s, t

\* The same steps, when texts and company grow.
LEMMA FrameGrows ==
    ASSUME NEW f, NEW g, NEW n, NEW m, NEW c, NEW q, NEW x, NEW a, NEW md, NEW c2, NEW q2, NEW a2,
           FrameOK(f, n, m, c, q, x, a, md),
           g.id = f.id, g.script = f.script,
           Fresh(f, c) => Fresh(g, c2), HoldsOwn(f, c, q, x) => HoldsOwn(g, c2, q2, x), a = "none" => a2 = "none"
    PROVE  FrameOK(g, n, m, c2, q2, x, a2, md)
  BY Zenon DEF FrameOK

\* A command that is done is in order.
LEMMA FrameDone ==
    ASSUME NEW f \in Frames, NEW c, NEW q, NEW x, NEW a, NEW md
    PROVE  FrameOK(With(f, <<>>), 0, 1, c, q, x, a, md)
  <1>1. Sound(<<>>, 0) /\ Clears(<<>>, 0) /\ Types(<<>>, 0) /\ Asks(<<>>, 0, 1) /\ MainOK(<<>>, md)
    BY DEF Sound, Bracketed, Retypes, Clears, Types, Asks, MainOK
  <1>2. With(f, <<>>).script = <<>>
    BY DEF With, Frames
  <1> QED
    BY <1>1, <1>2 DEF FrameOK

\* A command with no result to come may have one.
LEMMA FrameMore ==
    ASSUME NEW f, NEW n, NEW c, NEW q, NEW x, NEW a, NEW md, FrameOK(f, n, 0, c, q, x, a, md)
    PROVE  FrameOK(f, n, 1, c, q, x, a, md)
  <1>1. Asks(f.script, n, 0) => Asks(f.script, n, 1)
    BY DEF Asks
  <1> QED
    BY <1>1 DEF FrameOK

\* The thread that reads has started, or could not be.
LEMMA FrameReady ==
    ASSUME NEW f, NEW n, NEW m, NEW c, NEW q, NEW x, NEW a, NEW md, NEW a2, FrameOK(f, n, m, c, q, x, a, md),
           \A k \in DOMAIN f.script : f.script[k] \notin {"thread", "context"}
    PROVE  FrameOK(f, n, m, c, q, x, a2, md)
  BY DEF FrameOK

\* A command that is not the relay's has no letters of its own to answer for.
LEMMA FrameForeign ==
    ASSUME NEW f, NEW n, NEW m, NEW c, NEW q, NEW x, NEW a, NEW md, NEW x2, FrameOK(f, n, m, c, q, x, a, md),
           f.id \notin RelayIds
    PROVE  FrameOK(f, n, m, c, q, x2, a, md)
  BY DEF FrameOK, HoldsOwn

-----------------------------------------------------------------------------
Entries == [tag : {"READY", "BEGIN", "END"}, id : LineIds, text : SUBSET LineIds,
            met : SUBSET LineIds, late : BOOLEAN]

Messages == [at : {"none", "idle", "ready", "read", "sent", "running", "done", "gone"},
             line : Lines \cup CtlLines \cup {<<>>}]

Kinds ==
    /\ mode \in Modes /\ run \in {"up", "exit", "fault", "null"}
    /\ stack \in Seq(Frames) /\ stack # <<>>
    /\ host \in [window : BOOLEAN, tm : BOOLEAN, context : BOOLEAN, tip : BOOLEAN, quit : BOOLEAN, veh : BOOLEAN]
    /\ comp \in SUBSET LineIds /\ queue \in Seq(LineIds) /\ cap \in SUBSET LineIds
    /\ armed \in LineIds /\ guard \in LineIds
    /\ msg \in [Senders -> Messages]
    /\ lines \in 0..MaxLines
    /\ out \in Seq(Entries)

\* The line that was sent is one the relay may send, and it has been counted.
Sent ==
    /\ msg[Stdin].at = "sent" => msg[Stdin].line \in Lines
    /\ msg[Stdin].at \in {"sent", "running", "done"} => lines > 0
    /\ msg[Stdin].at \in {"none", "ready"} => lines = 0

\* Each sender has at most one command on the stack, main is the outermost; a command has met
\* all those inside it.
Nested ==
    /\ \A i \in DOMAIN stack :
           /\ stack[i].id = 0 <=> i = Len(stack)
           /\ stack[i].id \in RelayIds => stack[i].id = lines /\ msg[Stdin].at = "running"
           /\ stack[i].id \in Ctls /\ run = "up" => msg[stack[i].id].at = "running"
    /\ \A i, j \in DOMAIN stack : i < j => stack[i].id # stack[j].id /\ stack[i].id \in stack[j].met

FrameIs(f, n, m) == FrameOK(f, n, m, comp, queue, host.context, msg[Stdin].at, mode)

\* The innermost command, with the first n steps of its script inside a bracket or leading up to
\* the teardown of a session, which the handler guards in the warm mode.
Inner(n) ==
    /\ armed = 0 => n = 0 \/ (n = 1 /\ Top.script # <<>> /\ Top.script[1] = "teardown")
    /\ armed # 0 => armed = Top.id /\ Captures(Top.script, n)
    /\ guard = IF mode = "warm" /\ Tears(Top.script, n) THEN Top.id ELSE 0
    /\ mode = "warm" /\ Tears(Top.script, n) => Top.id # 0
    /\ FrameIs(Top, n, IF armed = 0 THEN 1 ELSE 0)

Entered == \E n \in 0..4 : Inner(n)

Outer == \A i \in DOMAIN stack : i > 1 => FrameIs(stack[i], 0, 1)

\* What is captured, or about to be.
Captured ==
    armed # 0 =>
        /\ Top.script[1] \in {"session", "read"} => Fresh(Top, comp) /\ HoldsOwn(Top, comp, queue, host.context)
        /\ Fresh(Top, cap)
        /\ Top.script[1] \in {"begin", "end"} => HoldsOwn(Top, cap, queue, host.context)
        /\ armed \in RelayIds => Top.script[1] # "search"

\* The blocks of the relay's lines.
Clean ==
    \A i \in DOMAIN out : out[i].id \in RelayIds =>
        /\ out[i].id <= lines
        /\ out[i].tag = "END" /\ host.context =>
              /\ out[i].text \subseteq {out[i].id} \cup out[i].met
              /\ out[i].met = {} /\ ~out[i].late => out[i].text = {out[i].id}

Acknowledged ==
    \A i \in DOMAIN out : out[i].tag = "READY" =>
        out[i].id <= lines /\ (out[i].id = lines => msg[Stdin].at \notin {"sent", "running"})

LastIs(tag, id) == out # <<>> /\ out[Len(out)].tag = tag /\ out[Len(out)].id = id

Arms(s) == \E k \in DOMAIN s : s[k] = "arm"

\* Between BEGIN and END nothing else is written, nothing ends and nobody else runs.
Blocks ==
    \A i \in DOMAIN out :
        /\ out[i].tag = "END" => i > 1 /\ out[i - 1].tag = "BEGIN"
        /\ out[i].tag = "BEGIN" =>
               /\ i > 1 /\ out[i - 1].tag = "READY" /\ out[i - 1].id = out[i].id - 1
               /\ i < Len(out) => out[i + 1].tag = "END"
               /\ i = Len(out) => run = "up" /\ armed \in RelayIds /\ Top.script[1] = "end"

\* As long as a line of the relay has still to print its result, nothing was printed for it.
Awaited ==
    /\ msg[Stdin].at = "read" => LastIs("READY", lines)
    /\ msg[Stdin].at = "sent" => LastIs("READY", lines - 1)
    /\ armed \in RelayIds =>
           /\ Top.script[1] \in {"session", "read", "begin"} => LastIs("READY", lines - 1)
           /\ Top.script[1] = "end" => LastIs("BEGIN", lines)
    /\ \A i \in DOMAIN stack :
           stack[i].id \in RelayIds /\ (i > 1 \/ armed = 0) /\ Arms(stack[i].script) => LastIs("READY", lines - 1)

Whole == CtlBlock \/ (Blocks /\ Awaited)

Unfaulted == mode = "warm" => run # "fault"

HostInv ==
    /\ Kinds /\ Sent /\ Nested /\ Entered /\ Outer
    /\ Captured /\ Clean /\ Acknowledged /\ Whole /\ Unfaulted
-----------------------------------------------------------------------------

\* Facts of every state.
LEMMA HostFacts ==
    ASSUME HostInv
    PROVE  /\ Stdin \in Senders /\ 0 \in LineIds /\ Stdin = 0 /\ 0 \notin Ctls /\ MaxLines \in Nat
           /\ \A i \in LineIds : i \in Nat /\ (i = 0 \/ i \in RelayIds \/ i \in Ctls)
           /\ \A i \in RelayIds : i \in Nat /\ i # 0 /\ i \notin Ctls /\ i \in LineIds
           /\ \A c \in Ctls : c \in Nat /\ c # 0 /\ c \in LineIds /\ c \in Senders
           /\ \A s \in Senders : s = Stdin \/ s \in Ctls
           /\ lines \in Nat /\ lines <= MaxLines /\ lines \in LineIds
           /\ msg \in [Senders -> Messages]
           /\ Len(stack) \in Nat \ {0} /\ DOMAIN stack = 1..Len(stack)
           /\ \A i \in DOMAIN stack : stack[i] \in Frames
           /\ Top = stack[1] /\ Top \in Frames /\ Top.id \in LineIds /\ Top.script \in Seq(Ops)
  <1>1. Kinds
    BY DEF HostInv
  <1>2. MaxLines \in Nat /\ Ctls \subseteq Nat \ (0..MaxLines)
    BY TipHostAssumption
  <1>3. /\ Stdin \in Senders /\ 0 \in LineIds /\ Stdin = 0 /\ 0 \notin Ctls
        /\ \A i \in LineIds : i \in Nat /\ (i = 0 \/ i \in RelayIds \/ i \in Ctls)
        /\ \A i \in RelayIds : i \in Nat /\ i # 0 /\ i \notin Ctls /\ i \in LineIds
        /\ \A c \in Ctls : c \in Nat /\ c # 0 /\ c \in LineIds /\ c \in Senders
        /\ \A s \in Senders : s = Stdin \/ s \in Ctls
    BY <1>2 DEF Stdin, Senders, LineIds, RelayIds
  <1>4. lines \in Nat /\ lines <= MaxLines /\ lines \in LineIds
    BY <1>1, <1>2 DEF Kinds, LineIds
  <1>5. /\ Len(stack) \in Nat \ {0} /\ DOMAIN stack = 1..Len(stack)
        /\ \A i \in DOMAIN stack : stack[i] \in Frames
    BY <1>1 DEF Kinds
  <1>6. Top = stack[1] /\ Top \in Frames
    BY <1>1, <1>5 DEF Kinds, Top
  <1>7. Top.id \in LineIds /\ Top.script \in Seq(Ops)
    BY <1>6 DEF Frames
  <1> QED
    BY <1>1, <1>2, <1>3, <1>4, <1>5, <1>6, <1>7 DEF Kinds

\* Something put first.
LEMMA PushIs ==
    ASSUME NEW S, NEW e \in S, NEW t \in Seq(S), NEW u, u = <<e>> \o t
    PROVE  /\ u \in Seq(S) /\ Len(u) = Len(t) + 1 /\ u # <<>> /\ u[1] = e
           /\ Len(t) \in Nat /\ DOMAIN t = 1..Len(t) /\ DOMAIN u = 1..(Len(t) + 1)
           /\ \A i \in 1..Len(t) : u[i + 1] = t[i]
           /\ \A i \in 1..(Len(t) + 1) : i = 1 \/ (i > 1 /\ i - 1 \in 1..Len(t) /\ u[i] = t[i - 1])
  <1>1. <<e>> \in Seq(S) /\ Len(<<e>>) = 1 /\ <<e>>[1] = e
    OBVIOUS
  <1>2. /\ u \in Seq(S)
        /\ Len(u) = Len(<<e>>) + Len(t)
        /\ \A i \in 1..Len(<<e>>) + Len(t) : u[i] = IF i <= Len(<<e>>) THEN <<e>>[i] ELSE t[i - Len(<<e>>)]
    BY <1>1, ConcatProperties
  <1>3. Len(t) \in Nat /\ DOMAIN t = 1..Len(t)
    OBVIOUS
  <1>4. Len(u) = Len(t) + 1
    BY <1>1, <1>2, <1>3
  <1>5. \A i \in 1..(Len(t) + 1) : u[i] = IF i <= 1 THEN <<e>>[i] ELSE t[i - 1]
    <2> TAKE i \in 1..(Len(t) + 1)
    <2>1. i \in 1..Len(<<e>>) + Len(t)
      BY <1>1, <1>3
    <2>2. u[i] = IF i <= Len(<<e>>) THEN <<e>>[i] ELSE t[i - Len(<<e>>)]
      BY <1>2, <2>1
    <2> QED
      BY <1>1, <2>2
  <1>6. u[1] = e /\ u # <<>>
    BY <1>1, <1>3, <1>4, <1>5
  <1>7. \A i \in 1..Len(t) : u[i + 1] = t[i]
    <2> TAKE i \in 1..Len(t)
    <2>1. PICK j \in 1..(Len(t) + 1) : j = i + 1
      BY <1>3
    <2>2. ~(j <= 1) /\ j - 1 = i
      BY <2>1
    <2>3. u[j] = t[j - 1]
      BY <1>5, <2>2
    <2> QED
      BY <2>1, <2>2, <2>3
  <1>8. \A i \in 1..(Len(t) + 1) : i = 1 \/ (i > 1 /\ i - 1 \in 1..Len(t) /\ u[i] = t[i - 1])
    BY <1>3, <1>5
  <1>9. DOMAIN u = 1..(Len(t) + 1)
    BY <1>2, <1>4
  <1> QED
    BY <1>2, <1>3, <1>4, <1>6, <1>7, <1>8, <1>9

\* A step put first.
LEMMA PutFirst ==
    ASSUME NEW o \in Ops, NEW t \in Seq(Ops)
    PROVE  /\ <<o>> \o t \in Seq(Ops) /\ Len(<<o>> \o t) = Len(t) + 1 /\ <<o>> \o t # <<>> /\ (<<o>> \o t)[1] = o
           /\ \A k \in 1..Len(t) : (<<o>> \o t)[k + 1] = t[k]
           /\ \A k \in 1..(Len(t) + 1) : k = 1 \/ (k - 1 \in 1..Len(t) /\ (<<o>> \o t)[k] = t[k - 1])
  <1>1. PICK u : u = <<o>> \o t
    OBVIOUS
  <1>2. /\ u \in Seq(Ops) /\ Len(u) = Len(t) + 1 /\ u # <<>> /\ u[1] = o
        /\ \A k \in 1..Len(t) : u[k + 1] = t[k]
        /\ \A k \in 1..(Len(t) + 1) : k = 1 \/ (k > 1 /\ k - 1 \in 1..Len(t) /\ u[k] = t[k - 1])
    BY <1>1, PushIs
  <1> QED
    BY <1>1, <1>2

\* The innermost command takes a step.
LEMMA ThenIs ==
    ASSUME HostInv, NEW s \in Seq(Ops), stack' = <<[Top EXCEPT !.script = s]>> \o Tail(stack)
    PROVE  /\ stack' \in Seq(Frames) /\ stack' # <<>>
           /\ Len(stack') = Len(stack) /\ DOMAIN stack' = DOMAIN stack
           /\ Top' = With(Top, s) /\ stack'[1] = With(Top, s)
           /\ Top'.id = Top.id /\ Top'.script = s /\ Top'.met = Top.met
           /\ \A i \in DOMAIN stack : i > 1 => stack'[i] = stack[i]
           /\ \A i \in DOMAIN stack : stack'[i].id = stack[i].id /\ stack'[i].met = stack[i].met
  <1> DEFINE f == With(Top, s)
  <1>1. Top \in Frames /\ Top = stack[1] /\ stack \in Seq(Frames) /\ stack # <<>>
    BY HostFacts DEF HostInv, Kinds
  <1>2. f \in Frames /\ f.id = Top.id /\ f.script = s /\ f.met = Top.met
    BY <1>1, WithIs
  <1>3. stack' = <<f>> \o Tail(stack)
    BY DEF With
  <1> HIDE DEF f
  <1>k. /\ Tail(stack) \in Seq(Frames) /\ Len(Tail(stack)) = Len(stack) - 1
        /\ \A i \in 1..Len(Tail(stack)) : Tail(stack)[i] = stack[i + 1]
    BY <1>1, HeadTailProperties
  <1>a. PICK t \in Seq(Frames) : t = Tail(stack)
    BY <1>k
  <1>b. Len(t) = Len(stack) - 1 /\ Len(stack) \in Nat \ {0} /\ DOMAIN stack = 1..Len(stack)
    BY <1>a, <1>k, <1>1
  <1>c. stack' = <<f>> \o t
    BY <1>3, <1>a
  <1>d. /\ stack' \in Seq(Frames) /\ Len(stack') = Len(t) + 1 /\ stack' # <<>> /\ stack'[1] = f
        /\ DOMAIN stack' = 1..(Len(t) + 1)
        /\ \A i \in 1..(Len(t) + 1) : i = 1 \/ (i > 1 /\ i - 1 \in 1..Len(t) /\ stack'[i] = t[i - 1])
    <2>1. PICK u : u = <<f>> \o t
      OBVIOUS
    <2>2. /\ u \in Seq(Frames) /\ Len(u) = Len(t) + 1 /\ u # <<>> /\ u[1] = f
          /\ DOMAIN u = 1..(Len(t) + 1)
          /\ \A i \in 1..(Len(t) + 1) : i = 1 \/ (i > 1 /\ i - 1 \in 1..Len(t) /\ u[i] = t[i - 1])
      BY <1>2, <2>1, PushIs
    <2> QED
      BY <1>c, <2>1, <2>2
  <1>e. Len(t) + 1 = Len(stack)
    BY <1>b
  <1>g. /\ Len(stack') = Len(stack) /\ DOMAIN stack' = 1..Len(stack)
        /\ \A i \in 1..Len(stack) : i = 1 \/ (i > 1 /\ i - 1 \in 1..Len(t) /\ stack'[i] = t[i - 1])
    BY <1>d, <1>e, Zenon
  <1>h. \A i \in 2..Len(stack) : t[i - 1] = stack[i]
    BY <1>a, <1>b, <1>k
  <1>j. \A i \in 2..Len(stack) : stack'[i] = stack[i]
    BY <1>b, <1>g, <1>h
  <1>4. /\ stack' \in Seq(Frames) /\ Len(stack') = Len(stack) /\ stack'[1] = f /\ stack' # <<>>
        /\ DOMAIN stack' = DOMAIN stack /\ DOMAIN stack = 1..Len(stack)
        /\ \A i \in 2..Len(stack) : stack'[i] = stack[i]
    BY <1>b, <1>d, <1>g, <1>j
  <1>5. Top' = f
    BY <1>4 DEF Top
  <1>6. \A i \in DOMAIN stack : i > 1 => stack'[i] = stack[i]
    BY <1>4
  <1>7. \A i \in DOMAIN stack : stack'[i].id = stack[i].id /\ stack'[i].met = stack[i].met
    <2> TAKE i \in DOMAIN stack
    <2>1. CASE i = 1
      BY <1>1, <1>2, <1>4, <2>1
    <2>2. CASE i > 1
      BY <1>6, <2>2
    <2> QED
      BY <1>4, <2>1, <2>2
  <1> QED
    BY <1>2, <1>4, <1>5, <1>6, <1>7 DEF f

\* The stack keeps its order when the innermost command takes a step.
LEMMA StillNested ==
    ASSUME HostInv, NEW s \in Seq(Ops), stack' = <<[Top EXCEPT !.script = s]>> \o Tail(stack),
           UNCHANGED <<msg, lines>>, run = "up"
    PROVE  Nested' /\ Sent'
  <1>1. Nested /\ Sent
    BY DEF HostInv
  <1>2. Sent'
    BY <1>1 DEF Sent
  <1>2a. stack' = <<[Top EXCEPT !.script = s]>> \o Tail(stack)
    OBVIOUS
  <1>2b. /\ Len(stack') = Len(stack) /\ DOMAIN stack' = DOMAIN stack
         /\ \A i \in DOMAIN stack : stack'[i].id = stack[i].id /\ stack'[i].met = stack[i].met
    BY <1>2a, ThenIs, Zenon
  <1>2c. msg' = msg /\ lines' = lines
    OBVIOUS
  <1>2d. /\ Len(stack) \in Nat /\ DOMAIN stack = 1..Len(stack)
    BY HostFacts
  <1>2e. \A i \in DOMAIN stack' :
           /\ stack'[i].id = 0 <=> i = Len(stack')
           /\ stack'[i].id \in RelayIds => stack'[i].id = lines' /\ msg'[Stdin].at = "running"
           /\ stack'[i].id \in Ctls /\ run' = "up" => msg'[stack'[i].id].at = "running"
    <2>1. ASSUME NEW i \in DOMAIN stack'
          PROVE  /\ stack'[i].id = 0 <=> i = Len(stack')
                 /\ stack'[i].id \in RelayIds => stack'[i].id = lines' /\ msg'[Stdin].at = "running"
                 /\ stack'[i].id \in Ctls /\ run' = "up" => msg'[stack'[i].id].at = "running"
      <3>1. i \in DOMAIN stack /\ stack'[i].id = stack[i].id /\ Len(stack') = Len(stack) /\ run = "up"
        BY <1>2b
      <3>2. /\ stack[i].id = 0 <=> i = Len(stack)
            /\ stack[i].id \in RelayIds => stack[i].id = lines /\ msg[Stdin].at = "running"
            /\ stack[i].id \in Ctls /\ run = "up" => msg[stack[i].id].at = "running"
        BY <1>1, <3>1 DEF Nested
      <3> QED
        BY <1>2c, <3>1, <3>2
    <2> QED
      BY <2>1
  <1>2f. \A i, j \in DOMAIN stack' : i < j => stack'[i].id # stack'[j].id /\ stack'[i].id \in stack'[j].met
    <2> TAKE i, j \in DOMAIN stack'
    <2> HAVE i < j
    <2>1. i \in DOMAIN stack /\ j \in DOMAIN stack
      BY <1>2b
    <2>2. stack[i].id # stack[j].id /\ stack[i].id \in stack[j].met
      BY <1>1, <2>1 DEF Nested
    <2>3. stack'[i].id = stack[i].id /\ stack'[j].id = stack[j].id /\ stack'[j].met = stack[j].met
      BY <1>2b, <2>1
    <2> QED
      BY <2>2, <2>3
  <1>3. Nested'
    BY <1>2e, <1>2f, Zenon DEF Nested
  <1> QED
    BY <1>2, <1>3

\* The commands outside it are as they were.
LEMMA StillOuter ==
    ASSUME HostInv, NEW s \in Seq(Ops), stack' = <<[Top EXCEPT !.script = s]>> \o Tail(stack),
           UNCHANGED <<msg, mode>>, host'.context = host.context,
           \A i \in DOMAIN stack : i > 1 =>
               /\ Fresh(stack[i], comp) => Fresh(stack[i], comp')
               /\ HoldsOwn(stack[i], comp, queue, host.context) => HoldsOwn(stack[i], comp', queue', host.context)
    PROVE  Outer'
  <1> SUFFICES ASSUME NEW i \in DOMAIN stack', i > 1
               PROVE  FrameOK(stack'[i], 0, 1, comp', queue', host'.context, msg'[Stdin].at, mode')
    BY DEF Outer, FrameIs
  <1>1. i \in DOMAIN stack /\ stack'[i] = stack[i]
    BY ThenIs
  <1>2. FrameOK(stack[i], 0, 1, comp, queue, host.context, msg[Stdin].at, mode)
    BY <1>1 DEF HostInv, Outer, FrameIs
  <1>3. FrameOK(stack[i], 0, 1, comp', queue', host.context, msg[Stdin].at, mode)
    BY <1>1, <1>2, FrameGrows
  <1> QED
    BY <1>1, <1>3

-----------------------------------------------------------------------------
\* What the first step of the innermost command says of where it is.
Capturing == {"disarm", "session", "search", "end", "teardown", "exit", "begin", "read"}

\* Outside a capture and outside a session.
Plain == armed = 0 /\ guard = 0 /\ Inner(0)

\* A command that is not about to capture or to tear down is outside of any bracket.
LEMMA PlainHere ==
    ASSUME HostInv, Top.script # <<>> => Top.script[1] \notin Capturing
    PROVE  Plain
  <1>1. PICK n \in 0..4 : Inner(n)
    BY DEF HostInv, Entered
  <1>2. armed = 0
    <2>1. SUFFICES ASSUME armed # 0 PROVE FALSE
      OBVIOUS
    <2>2. Captures(Top.script, n)
      BY <1>1, <2>1 DEF Inner
    <2>3. Top.script \in Seq(Ops) /\ n >= 1 /\ n <= Len(Top.script)
      BY <2>2, HostFacts DEF Captures
    <2>4. Top.script # <<>>
      BY <2>3
    <2> QED
      BY <2>2, <2>4 DEF Captures, Capturing
  <1>3. n = 0
    BY <1>1, <1>2 DEF Inner, Capturing
  <1>4. ~Tears(Top.script, 0)
    BY DEF Tears
  <1>5. guard = 0
    BY <1>1, <1>3, <1>4 DEF Inner
  <1> QED
    BY <1>1, <1>2, <1>3, <1>5 DEF Plain

\* Nothing is captured before and after, nothing is written.
LEMMA QuietStep ==
    ASSUME HostInv, Kinds', Sent', Nested', Entered', Outer',
           armed = 0, armed' = 0, UNCHANGED <<mode, lines, out>>,
           msg'[Stdin].at = msg[Stdin].at \/ msg'[Stdin].at \in {"none", "ready", "done"},
           run = "up", run' = "up", host'.context = host.context \/ lines = 0,
           Len(stack') = Len(stack), DOMAIN stack' = DOMAIN stack,
           \A i \in DOMAIN stack : /\ stack'[i].id = stack[i].id
                                   /\ Arms(stack'[i].script) => Arms(stack[i].script)
    PROVE  HostInv'
  <1>1. Captured'
    BY DEF Captured
  <1>2. Clean'
    <2>1. Clean /\ lines' = lines /\ out' = out
      BY DEF HostInv
    <2>2. CASE lines = 0
      <3>1. \A i \in DOMAIN out : out[i].id \notin RelayIds
        BY <2>1, <2>2 DEF Clean, RelayIds
      <3> QED
        BY <2>1, <3>1 DEF Clean
    <2>3. CASE host'.context = host.context
      BY <2>1, <2>3, Zenon DEF Clean
    <2> QED
      BY <2>2, <2>3
  <1>3. Acknowledged'
    BY DEF HostInv, Acknowledged
  <1>4. Whole'
    <2>1. CtlBlock' <=> CtlBlock
      BY DEF CtlBlock
    <2>2. 0 \notin RelayIds
      BY DEF RelayIds
    <2>3. Blocks => Blocks'
      BY <2>2 DEF Blocks
    <2>4. Awaited => Awaited'
      <3>1. SUFFICES ASSUME Awaited PROVE Awaited'
        OBVIOUS
      <3>2. \A t, i : LastIs(t, i)' <=> LastIs(t, i)
        BY DEF LastIs
      <3>3. /\ msg'[Stdin].at = "read" => LastIs("READY", lines)'
            /\ msg'[Stdin].at = "sent" => LastIs("READY", lines - 1)'
        BY <3>1 DEF Awaited, LastIs
      <3>4. armed' \notin RelayIds
        BY <2>2
      <3>5. ASSUME NEW i \in DOMAIN stack',
                   stack'[i].id \in RelayIds /\ (i > 1 \/ armed' = 0) /\ Arms(stack'[i].script)
            PROVE  LastIs("READY", lines - 1)'
        <4>1. stack[i].id \in RelayIds /\ (i > 1 \/ armed = 0) /\ Arms(stack[i].script) /\ i \in DOMAIN stack
          BY <3>5
        <4>2. LastIs("READY", lines - 1)
          BY <3>1, <4>1 DEF Awaited
        <4> QED
          BY <4>2 DEF LastIs
      <3> QED
        BY <3>3, <3>4, <3>5 DEF Awaited
    <2> QED
      BY <2>1, <2>3, <2>4 DEF HostInv, Whole
  <1>5. Unfaulted'
    BY DEF HostInv, Unfaulted
  <1> QED
    BY <1>1, <1>2, <1>3, <1>4, <1>5 DEF HostInv

\* The process ends.
LEMMA Ends ==
    ASSUME HostInv, UNCHANGED <<mode, stack, host, comp, queue, cap, armed, guard, msg, lines, out>>,
           run' \in {"exit", "null", "fault"}, run' = "fault" => mode # "warm",
           Top.script # <<>>, Top.script[1] # "end"
    PROVE  HostInv'
  <1>1. Kinds' /\ Sent' /\ Outer' /\ Captured' /\ Clean' /\ Acknowledged'
    BY DEF HostInv, Kinds, Sent, Outer, Captured, Clean, Acknowledged, Top, FrameIs
  <1>2. Nested'
    BY DEF HostInv, Nested
  <1>3. Entered'
    BY DEF HostInv, Entered, Inner, FrameIs, Top
  <1>4. Whole'
    BY DEF HostInv, Whole, Blocks, Awaited, LastIs, CtlBlock, Top
  <1>5. Unfaulted'
    BY DEF Unfaulted
  <1> QED
    BY <1>1, <1>2, <1>3, <1>4, <1>5 DEF HostInv

\* What follows the first step of a script.
LEMMA RestIs ==
    ASSUME NEW s \in Seq(Ops), s # <<>>
    PROVE  /\ Tail(s) \in Seq(Ops)
           /\ \A k \in DOMAIN Tail(s) : k + 1 \in DOMAIN s /\ Tail(s)[k] = s[k + 1]
  <1>1. /\ Tail(s) \in Seq(Ops) /\ Len(Tail(s)) = Len(s) - 1
        /\ \A i \in 1..Len(Tail(s)) : Tail(s)[i] = s[i + 1]
    BY HeadTailProperties
  <1> QED
    BY <1>1

\* A step outside a capture.
LEMMA PlainStep ==
    ASSUME HostInv, Plain, Top.script # <<>>, Top.script[1] # "arm", run = "up",
           stack' = <<[Top EXCEPT !.script = Tail(@)]>> \o Tail(stack),
           UNCHANGED <<mode, run, cap, armed, guard, msg, lines, out>>,
           host' \in [window : BOOLEAN, tm : BOOLEAN, context : BOOLEAN, tip : BOOLEAN, quit : BOOLEAN, veh : BOOLEAN],
           host'.context = host.context, comp' \in SUBSET LineIds, queue' \in Seq(LineIds),
           Top.script[1] = "reset" \/ Fresh(Top, comp) => Fresh(Top, comp'),
           Top.script[1] = "letter" \/ (Top.script[1] # "reset" /\ HoldsOwn(Top, comp, queue, host.context))
               => HoldsOwn(Top, comp', queue', host.context),
           \A i \in DOMAIN stack : i > 1 =>
               /\ Fresh(stack[i], comp) => Fresh(stack[i], comp')
               /\ HoldsOwn(stack[i], comp, queue, host.context) => HoldsOwn(stack[i], comp', queue', host.context)
    PROVE  HostInv'
  <1>1. PICK s \in Seq(Ops) : s = Tail(Top.script) /\ \A k \in DOMAIN s : k + 1 \in DOMAIN Top.script /\ s[k] = Top.script[k + 1]
    BY HostFacts, RestIs
  <1>2. stack' = <<[Top EXCEPT !.script = s]>> \o Tail(stack)
    BY <1>1
  <1>3. Sent' /\ Nested'
    BY <1>1, <1>2, StillNested
  <1>4. Outer'
    BY <1>1, <1>2, StillOuter
  <1>5. /\ stack' \in Seq(Frames) /\ stack' # <<>>
        /\ Len(stack') = Len(stack) /\ DOMAIN stack' = DOMAIN stack
        /\ Top' = With(Top, s) /\ stack'[1] = With(Top, s)
        /\ Top'.script = s
        /\ \A i \in DOMAIN stack : i > 1 => stack'[i] = stack[i]
        /\ \A i \in DOMAIN stack : stack'[i].id = stack[i].id
    BY <1>1, <1>2, ThenIs
  <1>6. Kinds'
    BY <1>5 DEF HostInv, Kinds
  <1>7. FrameOK(With(Top, s), 0, 1, comp', queue', host.context, msg[Stdin].at, mode)
    <2>1. FrameOK(Top, 0, 1, comp, queue, host.context, msg[Stdin].at, mode)
      BY DEF Plain, Inner, FrameIs
    <2> QED
      BY <1>1, <2>1, FrameStep, HostFacts
  <1>8. Inner(0)'
    <2>1. armed' = 0 /\ guard' = 0 /\ host'.context = host.context /\ msg' = msg /\ mode' = mode
      BY DEF Plain
    <2>2. FrameIs(Top, 0, 1)'
      BY <1>5, <1>7, <2>1 DEF FrameIs
    <2>3. ~Tears(Top.script, 0)'
      BY DEF Tears
    <2> QED
      BY <2>1, <2>2, <2>3 DEF Inner
  <1>9. Entered'
    BY <1>8 DEF Entered
  <1>10. \A i \in DOMAIN stack : Arms(stack'[i].script) => Arms(stack[i].script)
    <2>1. Arms(s) => Arms(Top.script)
      BY <1>1 DEF Arms
    <2>2. Top = stack[1] /\ stack'[1].script = s
      BY <1>5, HostFacts
    <2>3. \A i \in DOMAIN stack : i = 1 \/ i > 1
      BY HostFacts
    <2> QED
      BY <1>5, <2>1, <2>2, <2>3
  <1> QED
    BY <1>3, <1>4, <1>5, <1>6, <1>9, <1>10, QuietStep DEF Plain

-----------------------------------------------------------------------------
\* The next step, as a condition on the script.
LEMMA Heading ==
    ASSUME HostInv, NEW op, At(op)
    PROVE  run = "up" /\ Top.script # <<>> /\ Top.script[1] = op
  BY HostFacts DEF At

\* Done, with nothing put first.
LEMMA AdvanceIs ==
    ASSUME HostInv, Top.script # <<>>, Advance
    PROVE  stack' = <<[Top EXCEPT !.script = Tail(@)]>> \o Tail(stack)
  <1>1. Tail(Top.script) \in Seq(Ops)
    BY HostFacts, RestIs
  <1>2. <<>> \o Tail(Top.script) = Tail(Top.script)
    BY <1>1, ConcatEmptySeq
  <1> QED
    BY <1>2 DEF Advance, Then

\* A step that leaves the texts alone.
LEMMA SameTexts ==
    ASSUME HostInv, Plain, NEW op, At(op), op \notin {"arm", "reset", "letter"} \cup Capturing, Advance,
           UNCHANGED <<mode, run, comp, queue, cap, armed, guard, msg, lines, out>>,
           host' \in [window : BOOLEAN, tm : BOOLEAN, context : BOOLEAN, tip : BOOLEAN, quit : BOOLEAN, veh : BOOLEAN],
           host'.context = host.context
    PROVE  HostInv'
  <1>1. run = "up" /\ Top.script # <<>> /\ Top.script[1] = op
    BY Heading
  <1>2. stack' = <<[Top EXCEPT !.script = Tail(@)]>> \o Tail(stack)
    BY <1>1, AdvanceIs
  <1>3. comp' \in SUBSET LineIds /\ queue' \in Seq(LineIds) /\ comp' = comp /\ queue' = queue
    BY DEF HostInv, Kinds
  <1>4. \A f : /\ Fresh(f, comp) => Fresh(f, comp')
              /\ HoldsOwn(f, comp, queue, host.context) => HoldsOwn(f, comp', queue', host.context)
    BY <1>3
  <1>5. op # "arm" /\ op # "reset" /\ op # "letter"
    OBVIOUS
  <1> QED
    BY <1>1, <1>2, <1>3, <1>4, <1>5, PlainStep

\* Likewise at a step of the action.
LEMMA AtPlain ==
    ASSUME HostInv, NEW op, At(op), op \notin Capturing
    PROVE  Plain
  BY PlainHere, Heading

\* The type of the globals.
LEMMA HostIs ==
    ASSUME HostInv
    PROVE  host \in [window : BOOLEAN, tm : BOOLEAN, context : BOOLEAN, tip : BOOLEAN, quit : BOOLEAN, veh : BOOLEAN]
  BY DEF HostInv, Kinds

\* The steps that change none of the texts; one lemma for each action from here on.
LEMMA KeyStep == ASSUME HostInv, Key PROVE HostInv'
  <1>1. Plain
    BY AtPlain DEF Key, Capturing
  <1> QED
    BY <1>1, HostIs, SameTexts DEF Key, textVars, guardVars, ioVars, Capturing

LEMMA PumpEndsStep == ASSUME HostInv, PumpEnds PROVE HostInv'
  <1>1. PICK op \in {"pump", "loop"} : At(op)
    BY DEF PumpEnds
  <1>2. Plain
    BY <1>1, AtPlain DEF Capturing
  <1> QED
    BY <1>1, <1>2, HostIs, SameTexts DEF PumpEnds, textVars, guardVars, ioVars, Capturing

LEMMA TipStep == ASSUME HostInv, Tip PROVE HostInv'
  <1>1. Plain
    BY AtPlain DEF Tip, Capturing
  <1>2. PICK ok \in BOOLEAN : host' = [host EXCEPT !.tip = ok]
    BY DEF Tip
  <1>3. /\ host' \in [window : BOOLEAN, tm : BOOLEAN, context : BOOLEAN, tip : BOOLEAN, quit : BOOLEAN, veh : BOOLEAN]
        /\ host'.context = host.context
    BY <1>2, HostIs
  <1> QED
    BY <1>1, <1>3, SameTexts DEF Tip, textVars, guardVars, ioVars, Capturing

LEMMA WindowStep == ASSUME HostInv, Window PROVE HostInv'
  <1>1. Plain
    BY AtPlain DEF Window, Capturing
  <1>2. CASE run' = "exit" /\ UNCHANGED <<stack, host>>
    BY <1>2, Heading, Ends DEF Window, textVars, guardVars, ioVars
  <1>3. CASE Advance /\ host' = [host EXCEPT !.window = TRUE] /\ UNCHANGED run
    <2>1. /\ host' \in [window : BOOLEAN, tm : BOOLEAN, context : BOOLEAN, tip : BOOLEAN, quit : BOOLEAN, veh : BOOLEAN]
          /\ host'.context = host.context
      BY <1>3, HostIs
    <2> QED
      BY <1>1, <1>3, <2>1, SameTexts DEF Window, textVars, guardVars, ioVars, Capturing
  <1> QED
    BY <1>2, <1>3 DEF Window

LEMMA ThreadMgrStep == ASSUME HostInv, ThreadMgr PROVE HostInv'
  <1>1. Plain
    BY AtPlain DEF ThreadMgr, Capturing
  <1>2. CASE run' = "exit" /\ UNCHANGED <<stack, host>>
    BY <1>2, Heading, Ends DEF ThreadMgr, textVars, guardVars, ioVars
  <1>3. CASE Advance /\ host' = [host EXCEPT !.tm = TRUE] /\ UNCHANGED run
    <2>1. /\ host' \in [window : BOOLEAN, tm : BOOLEAN, context : BOOLEAN, tip : BOOLEAN, quit : BOOLEAN, veh : BOOLEAN]
          /\ host'.context = host.context
      BY <1>3, HostIs
    <2> QED
      BY <1>1, <1>3, <2>1, SameTexts DEF ThreadMgr, textVars, guardVars, ioVars, Capturing
  <1> QED
    BY <1>2, <1>3 DEF ThreadMgr

LEMMA SearchProbeStep == ASSUME HostInv, SearchProbe PROVE HostInv'
  <1>1. Plain
    BY AtPlain DEF SearchProbe, Capturing
  <1>2. CASE run' = "exit" /\ UNCHANGED stack
    BY <1>2, Heading, Ends DEF SearchProbe, textVars, guardVars, ioVars
  <1>3. CASE Advance /\ UNCHANGED run
    BY <1>1, <1>3, HostIs, SameTexts DEF SearchProbe, textVars, guardVars, ioVars, Capturing
  <1> QED
    BY <1>2, <1>3 DEF SearchProbe

LEMMA ReleaseStep == ASSUME HostInv, Release PROVE HostInv'
  BY Heading, Ends DEF Release, textVars, guardVars, ioVars

LEMMA ExitStep == ASSUME HostInv, Exit PROVE HostInv'
  BY Heading, Ends DEF Exit, textVars, guardVars, ioVars

LEMMA ResetStep == ASSUME HostInv, Reset PROVE HostInv'
  <1>1. Plain
    BY AtPlain DEF Reset, Capturing
  <1>2. run = "up" /\ Top.script # <<>> /\ Top.script[1] = "reset"
    BY Heading DEF Reset
  <1>3. stack' = <<[Top EXCEPT !.script = Tail(@)]>> \o Tail(stack)
    BY <1>2, AdvanceIs DEF Reset
  <1>4. comp' = {} /\ queue' = queue /\ host' = host /\ comp' \in SUBSET LineIds /\ queue' \in Seq(LineIds)
    BY DEF Reset, HostInv, Kinds
  <1>5. ASSUME NEW i \in DOMAIN stack, i > 1
        PROVE  Fresh(stack[i], comp') /\ HoldsOwn(stack[i], comp', queue', host.context)
    <2>1. stack[1].id \in stack[i].met /\ 1 \in DOMAIN stack
      BY <1>5, HostFacts DEF HostInv, Nested
    <2>2. stack[i].met # {}
      BY <2>1
    <2> QED
      BY <1>4, <2>2 DEF Fresh, HoldsOwn
  <1>6. Fresh(Top, comp')
    BY <1>4 DEF Fresh
  <1> QED
    BY <1>1, <1>2, <1>3, <1>4, <1>5, <1>6, HostIs, PlainStep DEF Reset, guardVars, ioVars

LEMMA LetterStep == ASSUME HostInv, Letter PROVE HostInv'
  <1>1. Plain
    BY AtPlain DEF Letter, Capturing
  <1>2. run = "up" /\ Top.script # <<>> /\ Top.script[1] = "letter"
    BY Heading DEF Letter
  <1>3. stack' = <<[Top EXCEPT !.script = Tail(@)]>> \o Tail(stack)
    BY <1>2, AdvanceIs DEF Letter
  <1>4. /\ host' = host /\ comp \in SUBSET LineIds /\ queue \in Seq(LineIds) /\ Top.id \in LineIds
        /\ comp' = comp \/ comp' = comp \cup {Top.id}
        /\ queue' = queue \/ queue' = Append(queue, Top.id)
        /\ (queue' = queue => host.tip) /\ (host.tip /\ host.context => comp' = comp \cup {Top.id})
    BY HostFacts DEF Letter, HostInv, Kinds, Typed
  <1>5. comp' \in SUBSET LineIds /\ queue' \in Seq(LineIds) /\ comp \subseteq comp'
    BY <1>4
  <1>6. \A i \in DOMAIN queue : i \in DOMAIN queue' /\ queue'[i] = queue[i]
    BY <1>4
  <1>7. host.context => Top.id \in comp' \/ \E i \in DOMAIN queue' : queue'[i] = Top.id
    <2>1. CASE queue' = queue
      BY <1>4, <2>1
    <2>2. CASE queue' = Append(queue, Top.id)
      <3>1. Len(queue) + 1 \in DOMAIN queue' /\ queue'[Len(queue) + 1] = Top.id
        BY <1>4, <2>2
      <3> QED
        BY <3>1
    <2> QED
      BY <1>4, <2>1, <2>2
  <1>8. HoldsOwn(Top, comp', queue', host.context)
    BY <1>7 DEF HoldsOwn
  <1>9. Fresh(Top, comp) => Fresh(Top, comp')
    BY <1>4 DEF Fresh
  <1>10. ASSUME NEW i \in DOMAIN stack, i > 1
         PROVE  /\ Fresh(stack[i], comp) => Fresh(stack[i], comp')
                /\ HoldsOwn(stack[i], comp', queue', host.context)
    <2>1. Top.id \in stack[i].met
      BY <1>10, HostFacts DEF HostInv, Nested
    <2>2. stack[i].met # {}
      BY <2>1
    <2> QED
      BY <1>4, <2>1, <2>2 DEF Fresh, HoldsOwn
  <1> QED
    BY <1>1, <1>2, <1>3, <1>4, <1>5, <1>8, <1>9, <1>10, HostIs, PlainStep DEF Letter, guardVars, ioVars

-----------------------------------------------------------------------------
\* The rest of the line is dropped.
LEMMA DropStep ==
    ASSUME HostInv, Plain, run = "up",
           stack' = <<[Top EXCEPT !.script = <<>>]>> \o Tail(stack),
           UNCHANGED <<mode, run, comp, queue, cap, armed, guard, msg, lines, out>>,
           host' \in [window : BOOLEAN, tm : BOOLEAN, context : BOOLEAN, tip : BOOLEAN, quit : BOOLEAN, veh : BOOLEAN],
           host'.context = host.context
    PROVE  HostInv'
  <1>a. <<>> \in Seq(Ops)
    OBVIOUS
  <1>1. PICK s \in Seq(Ops) : s = <<>>
    BY <1>a, Zenon
  <1>2. stack' = <<[Top EXCEPT !.script = s]>> \o Tail(stack)
    BY <1>1
  <1>3. Sent' /\ Nested'
    BY <1>1, <1>2, StillNested
  <1>4. Outer'
    <2>1. comp' = comp /\ queue' = queue
      OBVIOUS
    <2>2. \A f : /\ Fresh(f, comp) => Fresh(f, comp')
                /\ HoldsOwn(f, comp, queue, host.context) => HoldsOwn(f, comp', queue', host.context)
      BY <2>1
    <2> QED
      BY <1>1, <1>2, <2>2, StillOuter
  <1>5. /\ stack' \in Seq(Frames) /\ stack' # <<>>
        /\ Len(stack') = Len(stack) /\ DOMAIN stack' = DOMAIN stack
        /\ Top' = With(Top, s) /\ stack'[1] = With(Top, s)
        /\ Top'.script = s
        /\ \A i \in DOMAIN stack : i > 1 => stack'[i] = stack[i]
        /\ \A i \in DOMAIN stack : stack'[i].id = stack[i].id
    BY <1>1, <1>2, ThenIs
  <1>6. Kinds'
    BY <1>5 DEF HostInv, Kinds
  <1>7. FrameOK(With(Top, s), 0, 1, comp', queue', host'.context, msg'[Stdin].at, mode')
    BY <1>1, FrameDone, HostFacts
  <1>8. Inner(0)'
    <2>1. armed' = 0 /\ guard' = 0
      BY DEF Plain
    <2>2. FrameIs(Top, 0, 1)'
      BY <1>5, <1>7 DEF FrameIs
    <2>3. ~Tears(Top.script, 0)'
      BY DEF Tears
    <2> QED
      BY <2>1, <2>2, <2>3 DEF Inner
  <1>9. Entered'
    BY <1>8 DEF Entered
  <1>10. \A i \in DOMAIN stack : Arms(stack'[i].script) => Arms(stack[i].script)
    <2>1. ~Arms(s)
      BY <1>1 DEF Arms
    <2>2. stack'[1].script = s
      BY <1>5
    <2>3. \A i \in DOMAIN stack : i = 1 \/ i > 1
      BY HostFacts
    <2> QED
      BY <1>5, <2>1, <2>2, <2>3
  <1> QED
    BY <1>3, <1>4, <1>5, <1>6, <1>9, <1>10, QuietStep DEF Plain

LEMMA QuitStep == ASSUME HostInv, Quit PROVE HostInv'
  <1>1. Plain
    BY AtPlain DEF Quit, Capturing
  <1>2. /\ host' \in [window : BOOLEAN, tm : BOOLEAN, context : BOOLEAN, tip : BOOLEAN, quit : BOOLEAN, veh : BOOLEAN]
        /\ host'.context = host.context
    BY HostIs DEF Quit
  <1>3. run = "up"
    BY DEF Quit, At
  <1> QED
    BY <1>1, <1>2, <1>3, DropStep DEF Quit, textVars, guardVars, ioVars

LEMMA ManualTipStep == ASSUME HostInv, ManualTip PROVE HostInv'
  <1>1. Plain /\ run = "up"
    BY AtPlain DEF ManualTip, Capturing, At
  <1>2. CASE host.tm
    <2>1. PICK ok \in BOOLEAN : host' = [host EXCEPT !.tip = @ \/ ok]
      BY <1>2 DEF ManualTip
    <2>2. /\ host' \in [window : BOOLEAN, tm : BOOLEAN, context : BOOLEAN, tip : BOOLEAN, quit : BOOLEAN, veh : BOOLEAN]
          /\ host'.context = host.context
      <3>1. (host.tip \/ ok) \in BOOLEAN
        OBVIOUS
      <3>2. host' = [host EXCEPT !.tip = (host.tip \/ ok)]
        BY <2>1
      <3> QED
        BY <3>1, <3>2, HostIs
    <2> QED
      BY <1>1, <1>2, <2>2, SameTexts DEF ManualTip, textVars, guardVars, ioVars, Capturing
  <1>3. CASE ~host.tm
    BY <1>1, <1>3, HostIs, DropStep DEF ManualTip, textVars, guardVars, ioVars
  <1> QED
    BY <1>2, <1>3

\* A command that asks for the candidates of the text, in the place of the one that may.
LEMMA FrameInstead ==
    ASSUME NEW f \in Frames, NEW m, NEW c, NEW q, NEW x, NEW a, NEW md,
           FrameOK(f, 0, m, c, q, x, a, md), f.script # <<>>, f.script[1] = "probe", f.id = 0 => md # "warm"
    PROVE  /\ <<"session">> \o Tail(f.script) \in Seq(Ops)
           /\ FrameOK(With(f, <<"session">> \o Tail(f.script)), 0, m, c, q, x, a, md)
           /\ Arms(<<"session">> \o Tail(f.script)) => Arms(f.script)
  <1> DEFINE s == f.script
             t == <<"session">> \o Tail(s)
             g == With(f, t)
  <1>1. Sound(s, 0) /\ s \in Seq(Ops) /\ s # <<>> /\ s[1] = "probe"
    BY DEF FrameOK, Sound
  <1>2. /\ t \in Seq(Ops) /\ Len(t) = Len(s) /\ DOMAIN t = 1..Len(t) /\ DOMAIN s = 1..Len(s) /\ Len(s) \in Nat \ {0}
        /\ t[1] = "session" /\ \A k \in 2..Len(s) : t[k] = s[k]
    <2>1. /\ Tail(s) \in Seq(Ops) /\ Len(Tail(s)) = Len(s) - 1
          /\ \A i \in 1..Len(Tail(s)) : Tail(s)[i] = s[i + 1]
      BY <1>1, HeadTailProperties
    <2>2. PICK u \in Seq(Ops) : u = Tail(s)
      BY <2>1
    <2>3. "session" \in Ops /\ t = <<"session">> \o u
      BY <2>2 DEF Ops
    <2> HIDE DEF t, s
    <2>4. /\ t \in Seq(Ops) /\ Len(t) = Len(u) + 1 /\ t[1] = "session"
          /\ \A i \in 1..(Len(u) + 1) : i = 1 \/ (i - 1 \in 1..Len(u) /\ t[i] = u[i - 1])
      BY <2>3, PutFirst
    <2>5. Len(u) + 1 = Len(s) /\ Len(s) \in Nat \ {0} /\ \A i \in 2..Len(s) : u[i - 1] = s[i]
      BY <2>1, <2>2, <1>1
    <2>6. \A k \in 2..Len(s) : t[k] = s[k]
      BY <2>4, <2>5
    <2> QED
      BY <2>4, <2>5, <2>6, <1>1
  <1> HIDE DEF s, t
  <1>3. \A k \in 1..Len(s) : k = 1 \/ (k \in 2..Len(s) /\ t[k] = s[k])
    BY <1>2
  <1>4. Bracketed(t, 0)
    <2>1. SUFFICES ASSUME NEW k \in 1..Len(t) PROVE BracketedAt(t, 0, k)
      BY DEF Bracketed
    <2>2. CASE k = 1
      BY <1>2, <2>2 DEF BracketedAt, Ops, BootOps
    <2>3. CASE k \in 2..Len(s)
      <3>1. BracketedAt(s, 0, k)
        BY <1>1, <1>2, <2>3 DEF Sound, Bracketed
      <3>2. t[k] = s[k]
        BY <1>2, <2>3
      <3>3. \A j \in 1..4 : k + j <= Len(s) => t[k + j] = s[k + j]
        BY <1>2, <2>3
      <3>4. k > 1 /\ s[k - 1] \in {"arm", "read", "begin"} => t[k - 1] = s[k - 1]
        BY <1>1, <1>2, <2>3
      <3>5. \A j \in (k + 1)..Len(s) : t[j] = s[j]
        BY <1>2, <2>3
      <3>6. t[k] = "arm" =>
               \/ k + 2 <= Len(t) /\ t[k + 1] \in {"session", "search"} /\ t[k + 2] = "disarm"
               \/ k + 4 <= Len(t) /\ t[k + 1] = "read" /\ t[k + 2] = "begin" /\ t[k + 3] = "end" /\ t[k + 4] = "disarm"
        <4>1. s[k] = "arm" =>
                 \/ k + 2 <= Len(s) /\ s[k + 1] \in {"session", "search"} /\ s[k + 2] = "disarm"
                 \/ k + 4 <= Len(s) /\ s[k + 1] = "read" /\ s[k + 2] = "begin" /\ s[k + 3] = "end" /\ s[k + 4] = "disarm"
          BY <3>1 DEF BracketedAt
        <4>2. /\ k + 2 <= Len(s) => t[k + 1] = s[k + 1] /\ t[k + 2] = s[k + 2]
              /\ k + 4 <= Len(s) => t[k + 3] = s[k + 3] /\ t[k + 4] = s[k + 4] /\ k + 2 <= Len(s)
          BY <1>2, <3>3
        <4> QED
          BY <1>2, <3>2, <4>1, <4>2
      <3>7. t[k] = "thread" => \A j \in (k + 1)..Len(t) : t[j] \in {"loop", "release"}
        BY <1>2, <3>1, <3>2, <3>5 DEF BracketedAt
      <3> QED
        BY <1>2, <2>3, <3>1, <3>2, <3>4, <3>6, <3>7 DEF BracketedAt
    <2> QED
      BY <1>2, <2>2, <2>3
  <1>5. \A k \in 1..Len(t) : Takes(t, k) => k \in 2..Len(s) /\ Takes(s, k)
    <2>1. SUFFICES ASSUME NEW k \in 1..Len(t), Takes(t, k) PROVE k \in 2..Len(s) /\ Takes(s, k)
      OBVIOUS
    <2>2. k \in 2..Len(s) /\ s[k] = "arm"
      BY <1>2, <2>1 DEF Takes
    <2>3. BracketedAt(s, 0, k)
      BY <1>1, <2>2 DEF Sound, Bracketed
    <2>4. k + 1 \in 2..Len(s)
      BY <1>2, <2>2, <2>3 DEF BracketedAt
    <2>5. t[k + 1] = s[k + 1]
      BY <1>2, <2>4
    <2> QED
      BY <2>1, <2>2, <2>5 DEF Takes
  <1>6. \A k \in 1..Len(t) : \A j \in 1..(k - 1) :
            /\ s[j] = "reset" => t[j] = "reset"
            /\ t[j] = "reset" => s[j] = "reset"
            /\ s[j] = "letter" => t[j] = "letter"
    BY <1>1, <1>2
  <1>7. \A k \in 1..Len(t) : LetterBefore(s, 0, k) => LetterBefore(t, 0, k)
    BY <1>2, <1>6 DEF LetterBefore
  <1>8. Clears(s, 0) => Clears(t, 0)
    BY <1>2, <1>5, <1>6 DEF Clears
  <1>9. Types(s, 0) => Types(t, 0)
    BY <1>2, <1>5, <1>7 DEF Types
  <1>10. Retypes(t, 0)
    <2>1. Retypes(s, 0)
      BY <1>1 DEF Sound
    <2> QED
      BY <1>2, <1>5, <1>6, <1>7, <2>1 DEF Retypes
  <1>11. Sound(t, 0)
    BY <1>2, <1>4, <1>10 DEF Sound
  <1>12. \A mm : Asks(s, 0, mm) => Asks(t, 0, mm)
    BY <1>1, <1>2, <1>3 DEF Asks
  <1>13. g.id = f.id /\ g.script = t /\ (Fresh(g, c) <=> Fresh(f, c)) /\ (HoldsOwn(g, c, q, x) <=> HoldsOwn(f, c, q, x))
    BY <1>2, WithIs, SameOwner
  <1> HIDE DEF g
  <1>14. FrameOK(g, 0, m, c, q, x, a, md)
    <2>1. /\ Clears(s, 0) \/ Fresh(f, c)
          /\ Types(s, 0) \/ HoldsOwn(f, c, q, x)
          /\ f.id = 0 => MainOK(s, md)
          /\ f.id \in RelayIds => Asks(s, 0, m)
          /\ \A k \in DOMAIN s : s[k] \in {"thread", "context"} => f.id = 0 /\ a = "none"
      BY DEF FrameOK, s
    <2>2. md # "warm" /\ MainOK(s, md) => MainOK(t, md)
      BY <1>2, <1>3 DEF MainOK
    <2>3. \A k \in DOMAIN t : t[k] \in {"thread", "context"} => f.id = 0 /\ a = "none"
      BY <1>2, <1>3, <2>1
    <2> QED
      BY <1>8, <1>9, <1>11, <1>12, <1>13, <2>1, <2>2, <2>3 DEF FrameOK
  <1>15. Arms(t) => Arms(s)
    BY <1>2, <1>3 DEF Arms
  <1> QED
    BY <1>2, <1>14, <1>15 DEF g, t, s

-----------------------------------------------------------------------------
Globals == [window : BOOLEAN, tm : BOOLEAN, context : BOOLEAN, tip : BOOLEAN, quit : BOOLEAN, veh : BOOLEAN]

\* A step of the innermost command that leaves texts and messages alone.
LEMMA SameCompany ==
    ASSUME HostInv, NEW s \in Seq(Ops), stack' = <<[Top EXCEPT !.script = s]>> \o Tail(stack),
           run = "up", UNCHANGED <<mode, run, comp, queue, msg, lines>>, host' \in Globals, host'.context = host.context,
           cap' \in SUBSET LineIds, armed' \in LineIds, guard' \in LineIds, out' \in Seq(Entries)
    PROVE  Kinds' /\ Sent' /\ Nested' /\ Outer'
  <1>1. Sent' /\ Nested'
    BY StillNested
  <1>2. Outer'
    <2>1. comp' = comp /\ queue' = queue
      OBVIOUS
    <2>2. \A f : /\ Fresh(f, comp) => Fresh(f, comp')
                /\ HoldsOwn(f, comp, queue, host.context) => HoldsOwn(f, comp', queue', host.context)
      BY <2>1
    <2> QED
      BY <2>2, StillOuter
  <1>3. stack' \in Seq(Frames) /\ stack' # <<>>
    BY ThenIs
  <1>4. Kinds'
    BY <1>3 DEF HostInv, Kinds, Globals
  <1> QED
    BY <1>1, <1>2, <1>4

\* The same outside a capture, before and after.
LEMMA QuietScript ==
    ASSUME HostInv, NEW s \in Seq(Ops), stack' = <<[Top EXCEPT !.script = s]>> \o Tail(stack),
           run = "up", UNCHANGED <<mode, run, comp, queue, msg, lines, out>>, host' \in Globals, host'.context = host.context,
           cap' \in SUBSET LineIds, armed = 0, armed' = 0, guard' \in LineIds,
           NEW n \in 0..1, n = 0 \/ (s # <<>> /\ s[1] = "teardown"),
           guard' = IF mode = "warm" /\ Tears(s, n) THEN Top.id ELSE 0,
           mode = "warm" /\ Tears(s, n) => Top.id # 0,
           FrameOK(With(Top, s), n, 1, comp, queue, host.context, msg[Stdin].at, mode),
           Arms(s) => Arms(Top.script)
    PROVE  HostInv'
  <1>1. out' \in Seq(Entries) /\ armed' \in LineIds
    BY DEF HostInv, Kinds
  <1>2. Kinds' /\ Sent' /\ Nested' /\ Outer'
    BY <1>1, SameCompany
  <1>3. /\ Len(stack') = Len(stack) /\ DOMAIN stack' = DOMAIN stack
        /\ Top' = With(Top, s) /\ stack'[1] = With(Top, s)
        /\ Top'.script = s /\ Top'.id = Top.id
        /\ \A i \in DOMAIN stack : i > 1 => stack'[i] = stack[i]
        /\ \A i \in DOMAIN stack : stack'[i].id = stack[i].id
    BY ThenIs
  <1>4. Inner(n)'
    <2>1. FrameIs(Top, n, 1)'
      BY <1>3 DEF FrameIs
    <2>2. /\ n = 0 \/ (n = 1 /\ Top'.script # <<>> /\ Top'.script[1] = "teardown")
          /\ guard' = IF mode' = "warm" /\ Tears(Top'.script, n) THEN Top'.id ELSE 0
          /\ mode' = "warm" /\ Tears(Top'.script, n) => Top'.id # 0
      BY <1>3
    <2> QED
      BY <2>1, <2>2 DEF Inner
  <1>5. Entered'
    BY <1>4 DEF Entered
  <1>6. \A i \in DOMAIN stack : Arms(stack'[i].script) => Arms(stack[i].script)
    <2>1. Top = stack[1] /\ stack'[1].script = s
      BY <1>3, HostFacts
    <2>2. \A i \in DOMAIN stack : i = 1 \/ i > 1
      BY HostFacts
    <2> QED
      BY <1>3, <2>1, <2>2
  <1> QED
    BY <1>2, <1>3, <1>5, <1>6, QuietStep

LEMMA ProbeStep == ASSUME HostInv, Probe PROVE HostInv'
  <1>1. Plain /\ run = "up"
    BY AtPlain DEF Probe, Capturing, At
  <1>2. CASE Advance
    BY <1>1, <1>2, HostIs, SameTexts DEF Probe, textVars, guardVars, ioVars, Capturing
  <1>3. CASE Then(<<"session">>)
    <2>1. Top.script # <<>> /\ Top.script[1] = "probe"
      BY Heading DEF Probe
    <2>2. FrameOK(Top, 0, 1, comp, queue, host.context, msg[Stdin].at, mode)
      BY <1>1 DEF Plain, Inner, FrameIs
    <2>3. Top.id = 0 => mode # "warm"
      BY <2>1, <2>2, HostFacts DEF FrameOK, MainOK, BootOps
    <2>4. PICK s \in Seq(Ops) : s = <<"session">> \o Tail(Top.script)
      BY <2>1, <2>2, <2>3, HostFacts, FrameInstead
    <2>5. /\ FrameOK(With(Top, s), 0, 1, comp, queue, host.context, msg[Stdin].at, mode)
          /\ Arms(s) => Arms(Top.script)
      BY <2>1, <2>2, <2>3, <2>4, HostFacts, FrameInstead
    <2>6. stack' = <<[Top EXCEPT !.script = s]>> \o Tail(stack)
      BY <1>3, <2>4 DEF Then
    <2>7. /\ host' \in Globals /\ host'.context = host.context /\ cap' \in SUBSET LineIds /\ guard' \in LineIds
          /\ armed = 0 /\ armed' = 0 /\ guard' = 0 /\ UNCHANGED <<mode, run, comp, queue, msg, lines, out>>
      BY <1>1 DEF HostInv, Kinds, Globals, Probe, textVars, guardVars, ioVars, Plain
    <2>8. ~Tears(s, 0)
      BY DEF Tears
    <2> QED
      BY <1>1, <2>5, <2>6, <2>7, <2>8, QuietScript
  <1> QED
    BY <1>2, <1>3 DEF Probe

LEMMA ThreadStep == ASSUME HostInv, Thread PROVE HostInv'
  <1>1. Plain /\ run = "up"
    BY AtPlain DEF Thread, Capturing, At
  <1>2. Top.script # <<>> /\ Top.script[1] = "thread"
    BY Heading DEF Thread
  <1>3. PICK s \in Seq(Ops) : s = Tail(Top.script) /\ \A k \in DOMAIN s : k + 1 \in DOMAIN Top.script /\ s[k] = Top.script[k + 1]
    BY <1>2, HostFacts, RestIs
  <1>4. stack' = <<[Top EXCEPT !.script = s]>> \o Tail(stack)
    BY <1>2, <1>3, AdvanceIs DEF Thread
  <1>5. PICK a \in {"ready", "none"} : msg' = [msg EXCEPT ![Stdin].at = a]
    BY DEF Thread
  <1>6. msg[Stdin].at = "none" /\ lines = 0
    <2>1. FrameOK(Top, 0, 1, comp, queue, host.context, msg[Stdin].at, mode)
      BY <1>1 DEF Plain, Inner, FrameIs
    <2>2. 1 \in DOMAIN Top.script
      BY <1>2, HostFacts
    <2> QED
      BY <1>2, <2>1, <2>2 DEF FrameOK, HostInv, Sent
  <1>7. /\ msg' \in [Senders -> Messages] /\ msg'[Stdin].at = a
        /\ \A c \in Ctls : msg'[c] = msg[c]
    <2>1. msg[Stdin] \in Messages /\ a \in {"none", "idle", "ready", "read", "sent", "running", "done", "gone"}
      BY HostFacts
    <2>2. [msg[Stdin] EXCEPT !.at = a] \in Messages /\ [msg[Stdin] EXCEPT !.at = a].at = a
      BY <2>1 DEF Messages
    <2>3. msg' = [msg EXCEPT ![Stdin] = [msg[Stdin] EXCEPT !.at = a]]
      BY <1>5
    <2> HIDE DEF Messages
    <2> QED
      BY <2>2, <2>3, HostFacts
  <1>8. Top.id = 0 /\ Len(stack) = 1
    <2>1. FrameOK(Top, 0, 1, comp, queue, host.context, msg[Stdin].at, mode)
      BY <1>1 DEF Plain, Inner, FrameIs
    <2>2. 1 \in DOMAIN Top.script
      BY <1>2, HostFacts
    <2>3. Top.id = 0
      BY <1>2, <2>1, <2>2 DEF FrameOK
    <2> QED
      BY <2>3, HostFacts DEF HostInv, Nested
  <1>9. /\ stack' \in Seq(Frames) /\ stack' # <<>>
        /\ Len(stack') = Len(stack) /\ DOMAIN stack' = DOMAIN stack
        /\ Top' = With(Top, s) /\ stack'[1] = With(Top, s)
        /\ Top'.script = s
        /\ \A i \in DOMAIN stack : stack'[i].id = stack[i].id
    BY <1>4, ThenIs
  <1>10. /\ UNCHANGED <<mode, run, host, comp, queue, cap, armed, guard, lines, out>>
         /\ armed = 0 /\ guard = 0 /\ Kinds
    BY <1>1 DEF Thread, textVars, guardVars, Plain, HostInv
  <1>11. Kinds'
    BY <1>7, <1>9, <1>10 DEF Kinds
  <1>12. Sent'
    BY <1>6, <1>7, <1>10 DEF Sent
  <1>13. Nested'
    <2>1. DOMAIN stack = {1} /\ stack[1].id = 0
      BY <1>8, HostFacts
    <2>2. 0 \notin RelayIds /\ 0 \notin Ctls
      BY HostFacts DEF RelayIds
    <2> QED
      BY <1>9, <1>8, <2>1, <2>2 DEF Nested
  <1>14. Outer'
    BY <1>8, <1>9, HostFacts DEF Outer
  <1>15. FrameOK(With(Top, s), 0, 1, comp, queue, host.context, a, mode)
    <2>1. FrameOK(Top, 0, 1, comp, queue, host.context, msg[Stdin].at, mode)
      BY <1>1 DEF Plain, Inner, FrameIs
    <2>2. FrameOK(With(Top, s), 0, 1, comp, queue, host.context, msg[Stdin].at, mode)
      BY <1>2, <1>3, <2>1, FrameStep, HostFacts
    <2>3. BracketedAt(Top.script, 0, 1)
      BY <1>2, <2>1, HostFacts DEF FrameOK, Sound, Bracketed
    <2>4. \A j \in 2..Len(Top.script) : Top.script[j] \in {"loop", "release"}
      BY <1>2, <2>3 DEF BracketedAt
    <2>5. \A k \in DOMAIN s : s[k] \notin {"thread", "context"}
      <3>1. DOMAIN s = 1..Len(s) /\ Len(s) \in Nat
        BY <1>3
      <3>2. ASSUME NEW k \in DOMAIN s
            PROVE  k + 1 \in 2..Len(Top.script) /\ s[k] = Top.script[k + 1]
        BY <1>3, <3>1, HostFacts
      <3> QED
        BY <2>4, <3>2
    <2>6. With(Top, s).script = s
      BY HostFacts, WithIs
    <2> QED
      BY <2>2, <2>5, <2>6, FrameReady
  <1>16. Inner(0)'
    <2>1. FrameIs(Top, 0, 1)'
      BY <1>7, <1>9, <1>10, <1>15 DEF FrameIs
    <2>2. ~Tears(Top.script, 0)'
      BY DEF Tears
    <2> QED
      BY <1>10, <2>1, <2>2 DEF Inner
  <1>17. Entered'
    BY <1>16 DEF Entered
  <1>18. \A i \in DOMAIN stack : Arms(stack'[i].script) => Arms(stack[i].script)
    <2>1. Arms(s) => Arms(Top.script)
      BY <1>3 DEF Arms
    <2>2. Top = stack[1] /\ stack'[1].script = s /\ DOMAIN stack = {1}
      BY <1>8, <1>9, HostFacts
    <2> QED
      BY <2>1, <2>2
  <1> QED
    BY <1>1, <1>7, <1>9, <1>10, <1>11, <1>12, <1>13, <1>14, <1>17, <1>18, QuietStep

LEMMA ContextStep == ASSUME HostInv, Context PROVE HostInv'
  <1>1. Plain /\ run = "up"
    BY AtPlain DEF Context, Capturing, At
  <1>2. Top.script # <<>> /\ Top.script[1] = "context"
    BY Heading DEF Context
  <1>3. CASE run' = "exit" /\ UNCHANGED <<stack, host>>
    BY <1>2, <1>3, Ends DEF Context, textVars, guardVars, ioVars
  <1>4. CASE Advance /\ UNCHANGED run /\ \E ok \in BOOLEAN : host' = [host EXCEPT !.context = ok]
    <2>1. PICK s \in Seq(Ops) : s = Tail(Top.script) /\ \A k \in DOMAIN s : k + 1 \in DOMAIN Top.script /\ s[k] = Top.script[k + 1]
      BY <1>2, HostFacts, RestIs
    <2>2. stack' = <<[Top EXCEPT !.script = s]>> \o Tail(stack)
      BY <1>2, <1>4, <2>1, AdvanceIs
    <2>3. FrameOK(Top, 0, 1, comp, queue, host.context, msg[Stdin].at, mode)
      BY <1>1 DEF Plain, Inner, FrameIs
    <2>4. Top.id = 0 /\ Len(stack) = 1 /\ lines = 0
      <3>1. 1 \in DOMAIN Top.script
        BY <1>2, HostFacts
      <3>2. Top.id = 0 /\ msg[Stdin].at = "none"
        BY <1>2, <2>3, <3>1 DEF FrameOK
      <3>3. lines = 0
        BY <3>2 DEF HostInv, Sent
      <3>4. 1 \in DOMAIN stack /\ stack[1].id = 0
        BY <3>2, HostFacts
      <3> QED
        BY <3>2, <3>3, <3>4 DEF HostInv, Nested
    <2>5. host' \in Globals
      BY <1>4, HostIs DEF Globals
    <2>6. /\ UNCHANGED <<mode, run, comp, queue, cap, armed, guard, msg, lines, out>>
          /\ armed = 0 /\ guard = 0 /\ Kinds
      BY <1>1, <1>4 DEF Context, textVars, guardVars, ioVars, Plain, HostInv
    <2>7. /\ stack' \in Seq(Frames) /\ stack' # <<>>
          /\ Len(stack') = Len(stack) /\ DOMAIN stack' = DOMAIN stack
          /\ Top' = With(Top, s) /\ stack'[1] = With(Top, s)
          /\ Top'.script = s
          /\ \A i \in DOMAIN stack : stack'[i].id = stack[i].id
      BY <2>2, ThenIs
    <2>8. Kinds'
      BY <2>5, <2>6, <2>7 DEF Kinds, Globals
    <2>9. Sent' /\ Nested'
      BY <1>1, <2>2, <2>6, StillNested
    <2>10. Outer'
      BY <2>4, <2>7, HostFacts DEF Outer
    <2>11. FrameOK(With(Top, s), 0, 1, comp, queue, host'.context, msg[Stdin].at, mode)
      <3>1. FrameOK(With(Top, s), 0, 1, comp, queue, host.context, msg[Stdin].at, mode)
        BY <1>2, <2>1, <2>3, FrameStep, HostFacts
      <3>2. With(Top, s).id \notin RelayIds
        BY <2>4, HostFacts, WithIs
      <3> QED
        BY <3>1, <3>2, FrameForeign
    <2>12. Inner(0)'
      <3>1. FrameIs(Top, 0, 1)'
        BY <2>6, <2>7, <2>11 DEF FrameIs
      <3>2. ~Tears(Top.script, 0)'
        BY DEF Tears
      <3> QED
        BY <2>6, <3>1, <3>2 DEF Inner
    <2>13. Entered'
      BY <2>12 DEF Entered
    <2>14. \A i \in DOMAIN stack : Arms(stack'[i].script) => Arms(stack[i].script)
      <3>1. Arms(s) => Arms(Top.script)
        BY <2>1 DEF Arms
      <3>2. Top = stack[1] /\ stack'[1].script = s /\ DOMAIN stack = {1}
        BY <2>4, <2>7, HostFacts
      <3> QED
        BY <3>1, <3>2
    <2> QED
      BY <1>1, <1>4, <2>4, <2>6, <2>7, <2>8, <2>9, <2>10, <2>13, <2>14, QuietStep
  <1> QED
    BY <1>3, <1>4 DEF Context
-----------------------------------------------------------------------------
\* Inside a capture.
LEMMA CaptureHere ==
    ASSUME HostInv, armed # 0
    PROVE  /\ Top.script # <<>> /\ armed = Top.id /\ Top.id # 0
           /\ Top.script[1] \in Capturing
           /\ \E n \in 1..4 :
                  /\ Inner(n) /\ Captures(Top.script, n)
                  /\ FrameOK(Top, n, 0, comp, queue, host.context, msg[Stdin].at, mode)
  <1>1. PICK n \in 0..4 : Inner(n)
    BY DEF HostInv, Entered
  <1>2. /\ armed = Top.id /\ Captures(Top.script, n)
        /\ FrameOK(Top, n, 0, comp, queue, host.context, msg[Stdin].at, mode)
    BY <1>1 DEF Inner, FrameIs
  <1>3. n \in 1..4 /\ n <= Len(Top.script)
    BY <1>2 DEF Captures
  <1>4. Top.script # <<>>
    BY <1>3, HostFacts
  <1>5. Top.script[1] \in Capturing
    BY <1>2 DEF Captures, Capturing
  <1> QED
    BY <1>1, <1>2, <1>3, <1>4, <1>5

\* Inside a session that nobody captures.
LEMMA SessionHere ==
    ASSUME HostInv, armed = 0, Top.script # <<>>, Top.script[1] \in Capturing
    PROVE  /\ Top.script[1] \in {"disarm", "session"} => Plain
           /\ Top.script[1] \in {"disarm", "session", "teardown"}
           /\ Top.script[1] = "teardown" => Inner(1)
  <1>1. PICK n \in 0..4 : Inner(n)
    BY DEF HostInv, Entered
  <1>2. n = 0 \/ (n = 1 /\ Top.script[1] = "teardown")
    BY <1>1 DEF Inner
  <1>3. CASE n = 0
    <2>1. FrameOK(Top, 0, 1, comp, queue, host.context, msg[Stdin].at, mode)
      BY <1>1, <1>3 DEF Inner, FrameIs
    <2>2. BracketedAt(Top.script, 0, 1)
      BY <2>1, HostFacts DEF FrameOK, Sound, Bracketed
    <2>3. Top.script[1] \in {"disarm", "session"}
      BY <2>2 DEF BracketedAt, Capturing
    <2>4. ~Tears(Top.script, 0)
      BY DEF Tears
    <2> QED
      BY <1>1, <1>3, <2>3, <2>4 DEF Plain, Inner
  <1>4. CASE n = 1 /\ Top.script[1] = "teardown"
    BY <1>1, <1>4
  <1> QED
    BY <1>2, <1>3, <1>4

-----------------------------------------------------------------------------
\* The innermost command goes on to s, of which the first n steps are inside its bracket.
StaysInside(s, n) ==
    /\ stack' = <<[Top EXCEPT !.script = s]>> \o Tail(stack)
    /\ run = "up" /\ UNCHANGED <<mode, run, comp, queue, msg, lines>>
    /\ host' \in Globals /\ host'.context = host.context
    /\ cap' \in SUBSET LineIds /\ armed # 0 /\ armed' = armed /\ guard' \in LineIds /\ out' \in Seq(Entries)
    /\ Captures(s, n) /\ guard' = IF mode = "warm" /\ Tears(s, n) THEN Top.id ELSE 0
    /\ FrameOK(With(Top, s), n, 0, comp, queue, host.context, msg[Stdin].at, mode)
    /\ Captured' /\ Clean' /\ Acknowledged' /\ Whole'

\* A step inside a capture.
LEMMA CaptureStep ==
    ASSUME HostInv, NEW s \in Seq(Ops), NEW n \in 1..4, StaysInside(s, n)
    PROVE  HostInv'
  <1>0. /\ stack' = <<[Top EXCEPT !.script = s]>> \o Tail(stack)
        /\ run = "up" /\ UNCHANGED <<mode, run, comp, queue, msg, lines>>
        /\ host' \in Globals /\ host'.context = host.context
        /\ cap' \in SUBSET LineIds /\ armed # 0 /\ armed' = armed /\ guard' \in LineIds /\ out' \in Seq(Entries)
        /\ Captures(s, n) /\ guard' = IF mode = "warm" /\ Tears(s, n) THEN Top.id ELSE 0
        /\ FrameOK(With(Top, s), n, 0, comp, queue, host.context, msg[Stdin].at, mode)
        /\ Captured' /\ Clean' /\ Acknowledged' /\ Whole'
    BY Zenon DEF StaysInside
  <1> USE <1>0
  <1>1. armed' \in LineIds
    BY DEF HostInv, Kinds
  <1>2. Kinds' /\ Sent' /\ Nested' /\ Outer'
    BY <1>1, SameCompany
  <1>3. Top' = With(Top, s) /\ Top'.script = s /\ Top'.id = Top.id
    BY ThenIs
  <1>4. armed = Top.id /\ Top.id # 0
    BY CaptureHere
  <1>5. Inner(n)'
    <2>1. FrameIs(Top, n, 0)'
      BY <1>3 DEF FrameIs
    <2> QED
      BY <1>3, <1>4, <2>1 DEF Inner
  <1>6. Entered'
    BY <1>5 DEF Entered
  <1>7. Unfaulted'
    BY DEF Unfaulted
  <1> QED
    BY <1>2, <1>6, <1>7 DEF HostInv

\* Nothing is written, and END is not next.
LEMMA CaptureOn ==
    ASSUME HostInv, NEW s \in Seq(Ops), stack' = <<[Top EXCEPT !.script = s]>> \o Tail(stack),
           run = "up", UNCHANGED <<mode, run, msg, lines, out>>, host'.context = host.context,
           armed # 0, armed' = armed, Top.script[1] # "end", s[1] # "end",
           armed \in RelayIds /\ s[1] \in {"session", "read", "begin"} => Top.script[1] \in {"session", "read", "begin"}
    PROVE  Clean' /\ Acknowledged' /\ Whole'
  <1>1. Clean' /\ Acknowledged'
    BY DEF HostInv, Clean, Acknowledged
  <1>2. /\ Len(stack') = Len(stack) /\ DOMAIN stack' = DOMAIN stack
        /\ Top'.script = s
        /\ \A i \in DOMAIN stack : i > 1 => stack'[i] = stack[i]
        /\ \A i \in DOMAIN stack : stack'[i].id = stack[i].id
    BY ThenIs
  <1>3. CtlBlock' <=> CtlBlock
    BY DEF CtlBlock
  <1>4. \A t, i : LastIs(t, i)' <=> LastIs(t, i)
    BY DEF LastIs
  <1>5. Blocks => Blocks'
    BY <1>2 DEF Blocks
  <1>6. Awaited => Awaited'
    <2>1. SUFFICES ASSUME Awaited PROVE Awaited'
      OBVIOUS
    <2>2. /\ msg'[Stdin].at = "read" => LastIs("READY", lines)'
          /\ msg'[Stdin].at = "sent" => LastIs("READY", lines - 1)'
      BY <2>1 DEF Awaited, LastIs
    <2>3. armed' \in RelayIds =>
           /\ Top'.script[1] \in {"session", "read", "begin"} => LastIs("READY", lines - 1)'
           /\ Top'.script[1] = "end" => LastIs("BEGIN", lines)'
      BY <1>2, <2>1 DEF Awaited, LastIs
    <2>4. ASSUME NEW i \in DOMAIN stack',
                 stack'[i].id \in RelayIds /\ (i > 1 \/ armed' = 0) /\ Arms(stack'[i].script)
          PROVE  LastIs("READY", lines - 1)'
      <3>1. i \in DOMAIN stack /\ i > 1 /\ stack'[i] = stack[i]
        BY <1>2, <2>4
      <3>2. LastIs("READY", lines - 1)
        BY <2>1, <2>4, <3>1 DEF Awaited
      <3> QED
        BY <3>2 DEF LastIs
    <2> QED
      BY <2>2, <2>3, <2>4, Zenon DEF Awaited
  <1> QED
    BY <1>1, <1>3, <1>5, <1>6 DEF HostInv, Whole

\* What is left of a capture when its first step is done.
LEMMA CaptureLeft ==
    ASSUME HostInv, armed # 0, Top.script[1] # "disarm"
    PROVE  \E n \in 1..3 :
               LET s == Tail(Top.script) IN
               /\ s \in Seq(Ops) /\ Inner(n + 1)
               /\ Captures(Top.script, n + 1)
               /\ FrameOK(With(Top, s), n, 0, comp, queue, host.context, msg[Stdin].at, mode)
               /\ Captures(s, n) /\ s # <<>> /\ n <= Len(s) /\ \A k \in 1..n : s[k] = Top.script[k + 1]
  <1>1. Top.script # <<>> /\ Top.script \in Seq(Ops)
    BY CaptureHere, HostFacts
  <1>2. PICK n \in 1..4 :
                  /\ Inner(n) /\ Captures(Top.script, n)
                  /\ FrameOK(Top, n, 0, comp, queue, host.context, msg[Stdin].at, mode)
    BY CaptureHere
  <1>3. n # 1
    BY <1>2 DEF Captures
  <1>4. PICK m \in 1..3 : m = n - 1
    BY <1>3
  <1>5. n = m + 1
    BY <1>4
  <1>6. FrameOK(With(Top, Tail(Top.script)), n - 1, 0, comp, queue, host.context, msg[Stdin].at, mode)
    BY <1>2, FrameInside, HostFacts
  <1>7. FrameOK(With(Top, Tail(Top.script)), m, 0, comp, queue, host.context, msg[Stdin].at, mode)
    BY <1>4, <1>6
  <1>8. /\ Tail(Top.script) \in Seq(Ops) /\ Len(Tail(Top.script)) = Len(Top.script) - 1
        /\ \A k \in 1..Len(Tail(Top.script)) : Tail(Top.script)[k] = Top.script[k + 1]
    BY <1>1, HeadTailProperties
  <1>9. m + 1 <= Len(Top.script) /\ Len(Top.script) \in Nat
    BY <1>1, <1>2, <1>5 DEF Captures
  <1>10. m <= Len(Tail(Top.script)) /\ Len(Tail(Top.script)) \in Nat
    BY <1>8, <1>9
  <1>11. \A k \in 1..m : Tail(Top.script)[k] = Top.script[k + 1]
    BY <1>8, <1>10
  <1>12. Tail(Top.script) # <<>>
    BY <1>10
  <1>13. Inner(m + 1) /\ Captures(Top.script, m + 1)
    BY <1>2, <1>5
  <1>14. Captures(Tail(Top.script), m)
    BY <1>10, <1>11, <1>13 DEF Captures
  <1> QED
    BY <1>7, <1>8, <1>10, <1>11, <1>12, <1>13, <1>14

-----------------------------------------------------------------------------
LEMMA ReadTextStep == ASSUME HostInv, ReadText PROVE HostInv'
  <1>1. run = "up" /\ Top.script # <<>> /\ Top.script[1] = "read"
    BY Heading DEF ReadText
  <1>2. armed # 0
    BY <1>1, SessionHere DEF Capturing
  <1>3. PICK n \in 1..3 :
               LET t == Tail(Top.script) IN
               /\ t \in Seq(Ops) /\ Inner(n + 1) /\ Captures(Top.script, n + 1)
               /\ FrameOK(With(Top, t), n, 0, comp, queue, host.context, msg[Stdin].at, mode)
               /\ Captures(t, n) /\ t # <<>> /\ n <= Len(t) /\ \A k \in 1..n : t[k] = Top.script[k + 1]
    BY <1>1, <1>2, CaptureLeft
  <1>4. PICK s \in Seq(Ops) : s = Tail(Top.script)
    BY <1>3
  <1>5. stack' = <<[Top EXCEPT !.script = s]>> \o Tail(stack)
    BY <1>1, <1>4, AdvanceIs DEF ReadText
  <1>6. n = 3 /\ s[1] = "begin" /\ s[2] = "end" /\ Captures(s, n)
    BY <1>1, <1>3, <1>4 DEF Captures
  <1>7. ~Tears(s, n) /\ guard = 0
    <2>1. ~Tears(Top.script, n + 1)
      <3>1. Captures(Top.script, 4) /\ Top.script[1] = "read"
        BY <1>1, <1>3, <1>6
      <3>2. Top.script[2] = "begin" /\ Top.script[3] = "end" /\ Top.script[4] = "disarm"
        BY <3>1 DEF Captures
      <3>3. ASSUME NEW k \in 1..4 PROVE Top.script[k] # "teardown"
        BY <3>1, <3>2
      <3> QED
        BY <1>6, <3>3 DEF Tears
    <2>2. guard = 0
      BY <1>3, <2>1 DEF Inner
    <2>3. ~Tears(s, n)
      BY <1>3, <1>4, <1>6 DEF Captures, Tears
    <2> QED
      BY <2>2, <2>3
  <1>8. /\ UNCHANGED <<mode, run, host, comp, queue, armed, guard, msg, lines, out>> /\ cap' = comp
        /\ host' \in Globals /\ cap' \in SUBSET LineIds /\ guard' \in LineIds /\ out' \in Seq(Entries)
    BY DEF ReadText, textVars, ioVars, HostInv, Kinds, Globals
  <1>9. Clean' /\ Acknowledged' /\ Whole'
    BY <1>1, <1>2, <1>5, <1>6, <1>8, CaptureOn
  <1>10. Captured'
    <2>1. Fresh(Top, comp) /\ HoldsOwn(Top, comp, queue, host.context)
      BY <1>1, <1>2 DEF HostInv, Captured
    <2>2. Top' = With(Top, s) /\ Top'.script = s
      BY <1>5, ThenIs
    <2>3. Fresh(Top', comp) /\ HoldsOwn(Top', comp, queue, host.context)
      BY <2>1, <2>2, SameOwner, HostFacts
    <2> QED
      BY <1>6, <1>8, <2>2, <2>3 DEF Captured
  <1>11. FrameOK(With(Top, s), n, 0, comp, queue, host.context, msg[Stdin].at, mode)
    BY <1>3, <1>4
  <1>12. guard' = IF mode = "warm" /\ Tears(s, n) THEN Top.id ELSE 0
    BY <1>7, <1>8
  <1>13. n \in 1..4
    BY <1>6
  <1>in. StaysInside(s, n)
    BY <1>1, <1>2, <1>5, <1>6, <1>8, <1>9, <1>10, <1>11, <1>12, <1>13 DEF StaysInside
  <1> QED
    BY <1>in, CaptureStep

LEMMA DisarmStep == ASSUME HostInv, Disarm PROVE HostInv'
  <1>1. run = "up" /\ Top.script # <<>> /\ Top.script[1] = "disarm"
    BY Heading DEF Disarm
  <1>2. PICK s \in Seq(Ops) : s = Tail(Top.script) /\ \A k \in DOMAIN s : k + 1 \in DOMAIN Top.script /\ s[k] = Top.script[k + 1]
    BY <1>1, HostFacts, RestIs
  <1>3. stack' = <<[Top EXCEPT !.script = s]>> \o Tail(stack)
    BY <1>1, <1>2, AdvanceIs DEF Disarm
  <1>4. /\ UNCHANGED <<mode, run, host, comp, queue, cap, guard, msg, lines, out>> /\ armed' = 0 /\ armed' \in LineIds
        /\ host' \in Globals /\ cap' \in SUBSET LineIds /\ guard' \in LineIds /\ out' \in Seq(Entries)
    BY HostFacts DEF Disarm, textVars, ioVars, HostInv, Kinds, Globals
  <1>5. ~Tears(s, 0)
    BY DEF Tears
  <1>6. Arms(s) => Arms(Top.script)
    BY <1>2 DEF Arms
  <1>7. CASE armed = 0
    <2>1. Plain
      BY <1>1, <1>7, SessionHere DEF Capturing
    <2>2. FrameOK(Top, 0, 1, comp, queue, host.context, msg[Stdin].at, mode)
      BY <2>1 DEF Plain, Inner, FrameIs
    <2>3. FrameOK(With(Top, s), 0, 1, comp, queue, host.context, msg[Stdin].at, mode)
      BY <1>1, <1>2, <2>2, FrameStep, HostFacts
    <2>4. guard' = 0
      BY <1>4, <2>1 DEF Plain
    <2> QED
      BY <1>1, <1>3, <1>4, <1>5, <1>6, <1>7, <2>3, <2>4, QuietScript
  <1>8. CASE armed # 0
    <2>1. PICK n \in 1..4 :
                  /\ Inner(n) /\ Captures(Top.script, n)
                  /\ FrameOK(Top, n, 0, comp, queue, host.context, msg[Stdin].at, mode)
      BY <1>8, CaptureHere
    <2>2. n = 1
      BY <1>1, <2>1 DEF Captures
    <2>3. guard = 0
      BY <1>1, <2>1, <2>2 DEF Inner, Tears
    <2>4. FrameOK(Top, 1, 0, comp, queue, host.context, msg[Stdin].at, mode)
      BY <2>1, <2>2
    <2>5. FrameOK(With(Top, s), 1 - 1, 0, comp, queue, host.context, msg[Stdin].at, mode)
      BY <1>2, <2>4, FrameInside, HostFacts
    <2>6. FrameOK(With(Top, s), 0, 0, comp, queue, host.context, msg[Stdin].at, mode)
      BY <2>5
    <2>7. FrameOK(With(Top, s), 0, 1, comp, queue, host.context, msg[Stdin].at, mode)
      BY <2>6, FrameMore
    <2>8. Top.id \in RelayIds => ~Arms(s)
      BY <2>6, HostFacts, WithIs DEF FrameOK, Asks, Arms
    <2>9. Kinds' /\ Sent' /\ Nested' /\ Outer'
      BY <1>1, <1>3, <1>4, SameCompany
    <2>10. /\ DOMAIN stack' = DOMAIN stack
           /\ Top' = With(Top, s) /\ stack'[1] = With(Top, s)
           /\ Top'.script = s /\ Top'.id = Top.id
           /\ \A i \in DOMAIN stack : i > 1 => stack'[i] = stack[i]
           /\ \A i \in DOMAIN stack : stack'[i].id = stack[i].id
      BY <1>3, ThenIs
    <2>11. Inner(0)'
      <3>1. FrameIs(Top, 0, 1)'
        BY <1>4, <2>7, <2>10 DEF FrameIs
      <3>2. ~Tears(Top.script, 0)'
        BY DEF Tears
      <3> QED
        BY <1>4, <2>3, <3>1, <3>2 DEF Inner
    <2>12. Entered'
      BY <2>11 DEF Entered
    <2>13. Captured'
      BY <1>4 DEF Captured
    <2>14. Clean' /\ Acknowledged'
      BY <1>4 DEF HostInv, Clean, Acknowledged
    <2>15. Unfaulted'
      BY <1>1, <1>4 DEF Unfaulted
    <2>16. Whole'
      <3>1. CtlBlock' <=> CtlBlock
        BY <1>4 DEF CtlBlock
      <3>2. Blocks => Blocks'
        BY <1>1, <1>4 DEF Blocks
      <3>3. ASSUME Awaited PROVE Awaited'
        <4>1. /\ msg'[Stdin].at = "read" => LastIs("READY", lines)'
              /\ msg'[Stdin].at = "sent" => LastIs("READY", lines - 1)'
          BY <1>4, <3>3 DEF Awaited, LastIs
        <4>2. armed' \notin RelayIds
          BY <1>4, HostFacts
        <4>3. ASSUME NEW i \in DOMAIN stack',
                     stack'[i].id \in RelayIds /\ (i > 1 \/ armed' = 0) /\ Arms(stack'[i].script)
              PROVE  LastIs("READY", lines - 1)'
          <5>1. i \in DOMAIN stack /\ (i = 1 \/ i > 1) /\ Top = stack[1]
            BY <2>10, <4>3, HostFacts
          <5>2. i > 1
            BY <2>8, <2>10, <4>3, <5>1
          <5>3. stack'[i] = stack[i]
            BY <2>10, <5>1, <5>2
          <5>4. LastIs("READY", lines - 1)
            BY <3>3, <4>3, <5>1, <5>2, <5>3 DEF Awaited
          <5> QED
            BY <1>4, <5>4 DEF LastIs
        <4> QED
          BY <4>1, <4>2, <4>3, Zenon DEF Awaited
      <3> QED
        BY <3>1, <3>2, <3>3 DEF HostInv, Whole
    <2> QED
      BY <2>9, <2>12, <2>13, <2>14, <2>15, <2>16 DEF HostInv
  <1> QED
    BY <1>7, <1>8

-----------------------------------------------------------------------------
\* A step that is not the teardown leaves it to come.
LEMMA TearsOn ==
    ASSUME NEW s \in Seq(Ops), NEW t \in Seq(Ops), NEW n \in 1..3, s[1] # "teardown", \A k \in 1..n : t[k] = s[k + 1]
    PROVE  Tears(s, n + 1) <=> Tears(t, n)
  <1>1. \A k \in 1..(n + 1) : k = 1 \/ (k - 1 \in 1..n /\ t[k - 1] = s[k])
    OBVIOUS
  <1>2. \A k \in 1..n : k + 1 \in 1..(n + 1)
    OBVIOUS
  <1> QED
    BY <1>1, <1>2 DEF Tears

\* What is written comes last.
LEMMA Written ==
    ASSUME HostInv, NEW e \in Entries, out' = Append(out, e)
    PROVE  /\ out' \in Seq(Entries) /\ out \in Seq(Entries) /\ out' # <<>>
           /\ Len(out') = Len(out) + 1 /\ Len(out) \in Nat
           /\ DOMAIN out = 1..Len(out) /\ DOMAIN out' = 1..(Len(out) + 1)
           /\ \A i \in DOMAIN out : i \in DOMAIN out' /\ out'[i] = out[i]
           /\ out'[Len(out) + 1] = e
           /\ \A i \in DOMAIN out' : i \in DOMAIN out \/ i = Len(out) + 1
  <1>1. out \in Seq(Entries)
    BY DEF HostInv, Kinds
  <1> HIDE DEF Entries
  <1> QED
    BY <1>1, AppendProperties

\* The command that captures is the only one of its line.
LEMMA CaptureOf ==
    ASSUME HostInv, armed # 0
    PROVE  /\ Top.id = armed /\ Top.id # 0 /\ (Top.id \in RelayIds \/ Top.id \in Ctls)
           /\ armed \in RelayIds => /\ msg[Stdin].at = "running" /\ lines = armed
                                    /\ \A i \in DOMAIN stack : stack[i].id \in RelayIds => i = 1
  <1>1. Top.id = armed /\ Top.id # 0 /\ Top = stack[1] /\ 1 \in DOMAIN stack /\ DOMAIN stack = 1..Len(stack)
    BY CaptureHere, HostFacts
  <1>2. Top.id \in RelayIds \/ Top.id \in Ctls
    BY <1>1, HostFacts
  <1>3. armed \in RelayIds => msg[Stdin].at = "running" /\ lines = armed
    BY <1>1 DEF HostInv, Nested
  <1>4. ASSUME armed \in RelayIds, NEW i \in DOMAIN stack, stack[i].id \in RelayIds, i # 1
        PROVE  FALSE
    <2>1. stack[i].id = lines /\ stack[1].id = lines
      BY <1>1, <1>4 DEF HostInv, Nested
    <2>2. 1 < i
      BY <1>1, <1>4, HostFacts
    <2>3. stack[1].id # stack[i].id
      BY <1>1, <2>2 DEF HostInv, Nested
    <2> QED
      BY <2>1, <2>3
  <1> QED
    BY <1>1, <1>2, <1>3, <1>4

LEMMA BeginStep == ASSUME HostInv, Begin PROVE HostInv'
  <1>1. run = "up" /\ Top.script # <<>> /\ Top.script[1] = "begin"
    BY Heading DEF Begin
  <1>2. armed # 0
    BY <1>1, SessionHere DEF Capturing
  <1>3. PICK n \in 1..3 :
               LET t == Tail(Top.script) IN
               /\ t \in Seq(Ops) /\ Inner(n + 1) /\ Captures(Top.script, n + 1)
               /\ FrameOK(With(Top, t), n, 0, comp, queue, host.context, msg[Stdin].at, mode)
               /\ Captures(t, n) /\ t # <<>> /\ n <= Len(t) /\ \A k \in 1..n : t[k] = Top.script[k + 1]
    BY <1>1, <1>2, CaptureLeft
  <1>4. PICK s \in Seq(Ops) : s = Tail(Top.script)
    BY <1>3
  <1>5. stack' = <<[Top EXCEPT !.script = s]>> \o Tail(stack)
    BY <1>1, <1>4, AdvanceIs DEF Begin
  <1>6. s[1] = "end" /\ Captures(s, n)
    BY <1>1, <1>3, <1>4 DEF Captures
  <1>7. Tears(Top.script, n + 1) <=> Tears(s, n)
    BY <1>1, <1>3, <1>4, TearsOn, HostFacts
  <1>8. /\ UNCHANGED <<mode, run, host, comp, queue, cap, armed, guard, msg, lines>>
        /\ host' \in Globals /\ cap' \in SUBSET LineIds /\ guard' \in LineIds
    BY DEF Begin, textVars, guardVars, HostInv, Kinds, Globals
  <1>9. guard' = IF mode = "warm" /\ Tears(s, n) THEN Top.id ELSE 0
    BY <1>3, <1>7, <1>8 DEF Inner
  <1>10. FrameOK(With(Top, s), n, 0, comp, queue, host.context, msg[Stdin].at, mode)
    BY <1>3, <1>4
  <1>11. /\ DOMAIN stack' = DOMAIN stack
         /\ Top' = With(Top, s) /\ Top'.script = s /\ Top'.id = Top.id /\ Top'.met = Top.met
         /\ \A i \in DOMAIN stack : stack'[i].id = stack[i].id
    BY <1>5, ThenIs
  <1>12. Captured'
    <2>1. Fresh(Top, cap) /\ HoldsOwn(Top, cap, queue, host.context)
      BY <1>1, <1>2 DEF HostInv, Captured
    <2>2. Fresh(Top', cap) /\ HoldsOwn(Top', cap, queue, host.context)
      BY <2>1, <1>11, SameOwner, HostFacts
    <2> QED
      BY <1>6, <1>8, <1>11, <2>2 DEF Captured
  <1>13. PICK e \in Entries : out' = Append(out, e) /\ e.tag = "BEGIN" /\ e.id = Top.id
    <2>1. cap \in SUBSET LineIds /\ Top.met \in SUBSET LineIds /\ Top.id \in LineIds
      BY HostFacts DEF HostInv, Kinds, Frames
    <2>2. PICK b \in BOOLEAN : b = \E i \in DOMAIN queue : queue[i] = Top.id
      OBVIOUS
    <2>3. PICK e \in Entries : e = [tag |-> "BEGIN", id |-> Top.id, text |-> cap, met |-> Top.met, late |-> b]
      BY <2>1 DEF Entries
    <2>4. out' = Append(out, e)
      BY <2>2, <2>3 DEF Begin, WriteLine
    <2> QED
      BY <2>2, <2>3, <2>4, Zenon
  <1>14. /\ out' \in Seq(Entries) /\ out' # <<>>
         /\ Len(out') = Len(out) + 1 /\ Len(out) \in Nat
         /\ DOMAIN out = 1..Len(out) /\ DOMAIN out' = 1..(Len(out) + 1)
         /\ \A i \in DOMAIN out : i \in DOMAIN out' /\ out'[i] = out[i]
         /\ out'[Len(out) + 1] = e
         /\ \A i \in DOMAIN out' : i \in DOMAIN out \/ i = Len(out) + 1
    BY <1>13, Written
  <1>15. /\ Top.id = armed /\ Top.id # 0 /\ (Top.id \in RelayIds \/ Top.id \in Ctls)
         /\ armed \in RelayIds => /\ msg[Stdin].at = "running" /\ lines = armed
                                  /\ \A i \in DOMAIN stack : stack[i].id \in RelayIds => i = 1
    BY <1>2, CaptureOf
  <1>16. Clean'
    <2>1. SUFFICES ASSUME NEW i \in DOMAIN out', out'[i].id \in RelayIds
                   PROVE  /\ out'[i].id <= lines
                          /\ out'[i].tag = "END" /\ host.context =>
                                 /\ out'[i].text \subseteq {out'[i].id} \cup out'[i].met
                                 /\ out'[i].met = {} /\ ~out'[i].late => out'[i].text = {out'[i].id}
      BY <1>8 DEF Clean
    <2>2. CASE i \in DOMAIN out
      BY <1>14, <2>1, <2>2 DEF HostInv, Clean
    <2>3. CASE i = Len(out) + 1
      BY <1>13, <1>14, <1>15, <2>1, <2>3, HostFacts
    <2> QED
      BY <1>14, <2>2, <2>3
  <1>17. Acknowledged'
    BY <1>8, <1>13, <1>14 DEF HostInv, Acknowledged
  <1>18. Whole'
    <2>1. SUFFICES ASSUME ~CtlBlock' PROVE Blocks' /\ Awaited'
      BY DEF Whole
    <2>2. ~CtlBlock
      BY <1>14, <2>1 DEF CtlBlock
    <2>3. Blocks /\ Awaited
      BY <2>2 DEF HostInv, Whole
    <2>4. Top.id \in RelayIds
      BY <1>13, <1>14, <1>15, <2>1 DEF CtlBlock
    <2>5. LastIs("READY", lines - 1)
      BY <1>1, <1>15, <2>3, <2>4 DEF Awaited
    <2>6. Len(out) \in DOMAIN out /\ out[Len(out)].tag = "READY" /\ out[Len(out)].id = lines - 1 /\ Len(out) >= 1
      BY <1>14, <2>5 DEF LastIs
    <2>7. ASSUME NEW i \in DOMAIN out'
          PROVE  /\ out'[i].tag = "END" => i > 1 /\ out'[i - 1].tag = "BEGIN"
                 /\ out'[i].tag = "BEGIN" =>
                        /\ i > 1 /\ out'[i - 1].tag = "READY" /\ out'[i - 1].id = out'[i].id - 1
                        /\ i < Len(out') => out'[i + 1].tag = "END"
                        /\ i = Len(out') => run' = "up" /\ armed' \in RelayIds /\ Top'.script[1] = "end"
      <3>1. CASE i \in DOMAIN out
        <4>1. i > 1 => i - 1 \in DOMAIN out /\ out'[i - 1] = out[i - 1]
          BY <1>14, <3>1
        <4>2. i < Len(out) => i + 1 \in DOMAIN out /\ out'[i + 1] = out[i + 1]
          BY <1>14, <3>1
        <4>3. out'[i] = out[i] /\ (i < Len(out) \/ i = Len(out)) /\ i # Len(out')
          BY <1>14, <3>1
        <4> QED
          BY <2>3, <2>6, <3>1, <4>1, <4>2, <4>3 DEF Blocks
      <3>2. CASE i = Len(out) + 1
        <4>1. i > 1 /\ out'[i - 1] = out[Len(out)]
          BY <1>14, <2>6, <3>2
        <4>2. out'[i] = e /\ ~(i < Len(out'))
          BY <1>14, <3>2
        <4> QED
          BY <1>1, <1>6, <1>8, <1>11, <1>13, <1>15, <2>4, <2>6, <4>1, <4>2
      <3> QED
        BY <1>14, <3>1, <3>2
    <2>8. Blocks'
      BY <2>7 DEF Blocks
    <2>9. Awaited'
      <3>1. out'[Len(out')].tag = "BEGIN" /\ out'[Len(out')].id = lines
        BY <1>13, <1>14, <1>15, <2>4
      <3>2. \A i \in DOMAIN stack' : stack'[i].id \in RelayIds => i = 1
        BY <1>11, <1>15, <2>4
      <3>3. msg'[Stdin].at = "running" /\ armed' # 0 /\ lines' = lines /\ s[1] = "end" /\ Top'.script = s
        BY <1>2, <1>6, <1>8, <1>11, <1>15, <2>4
      <3> QED
        BY <1>14, <3>1, <3>2, <3>3 DEF Awaited, LastIs
    <2> QED
      BY <2>8, <2>9
  <1>19. n \in 1..4 /\ host'.context = host.context /\ out' \in Seq(Entries)
    BY <1>8, <1>14
  <1>in. StaysInside(s, n)
    BY <1>1, <1>2, <1>5, <1>6, <1>8, <1>9, <1>10, <1>12, <1>16, <1>17, <1>18, <1>19 DEF StaysInside
  <1> QED
    BY <1>in, CaptureStep

LEMMA EndStep == ASSUME HostInv, End PROVE HostInv'
  <1>1. run = "up" /\ Top.script # <<>> /\ Top.script[1] = "end"
    BY Heading DEF End
  <1>2. armed # 0
    BY <1>1, SessionHere DEF Capturing
  <1>3. PICK n \in 1..3 :
               LET t == Tail(Top.script) IN
               /\ t \in Seq(Ops) /\ Inner(n + 1) /\ Captures(Top.script, n + 1)
               /\ FrameOK(With(Top, t), n, 0, comp, queue, host.context, msg[Stdin].at, mode)
               /\ Captures(t, n) /\ t # <<>> /\ n <= Len(t) /\ \A k \in 1..n : t[k] = Top.script[k + 1]
    BY <1>1, <1>2, CaptureLeft
  <1>4. PICK s \in Seq(Ops) : s = Tail(Top.script)
    BY <1>3
  <1>5. stack' = <<[Top EXCEPT !.script = s]>> \o Tail(stack)
    BY <1>1, <1>4, AdvanceIs DEF End
  <1>6. s[1] \in {"disarm", "teardown", "exit"} /\ Captures(s, n)
    BY <1>1, <1>3, <1>4 DEF Captures
  <1>7. Tears(Top.script, n + 1) <=> Tears(s, n)
    BY <1>1, <1>3, <1>4, TearsOn, HostFacts
  <1>8. /\ UNCHANGED <<mode, run, host, comp, queue, cap, armed, guard, msg, lines>>
        /\ host' \in Globals /\ cap' \in SUBSET LineIds /\ guard' \in LineIds
    BY DEF End, textVars, guardVars, HostInv, Kinds, Globals
  <1>9. guard' = IF mode = "warm" /\ Tears(s, n) THEN Top.id ELSE 0
    BY <1>3, <1>7, <1>8 DEF Inner
  <1>10. FrameOK(With(Top, s), n, 0, comp, queue, host.context, msg[Stdin].at, mode)
    BY <1>3, <1>4
  <1>11. /\ DOMAIN stack' = DOMAIN stack
         /\ Top' = With(Top, s) /\ Top'.script = s /\ Top'.id = Top.id /\ Top'.met = Top.met
         /\ \A i \in DOMAIN stack : stack'[i].id = stack[i].id
    BY <1>5, ThenIs
  <1>a. Fresh(Top, cap) /\ HoldsOwn(Top, cap, queue, host.context)
    BY <1>1, <1>2 DEF HostInv, Captured
  <1>12. Captured'
    <2>2. Fresh(Top', cap)
      BY <1>a, <1>11, SameOwner, HostFacts
    <2> QED
      BY <1>6, <1>8, <1>11, <2>2 DEF Captured
  <1>13. PICK e \in Entries :
             /\ out' = Append(out, e) /\ e.tag = "END" /\ e.id = Top.id
             /\ e.text = cap /\ e.met = Top.met /\ e.late = \E i \in DOMAIN queue : queue[i] = Top.id
    <2>1. cap \in SUBSET LineIds /\ Top.met \in SUBSET LineIds /\ Top.id \in LineIds
      BY HostFacts DEF HostInv, Kinds, Frames
    <2>2. PICK b \in BOOLEAN : b = \E i \in DOMAIN queue : queue[i] = Top.id
      OBVIOUS
    <2>3. PICK e \in Entries : e = [tag |-> "END", id |-> Top.id, text |-> cap, met |-> Top.met, late |-> b]
      BY <2>1 DEF Entries
    <2>4. out' = Append(out, e)
      BY <2>2, <2>3 DEF End, WriteLine
    <2> QED
      BY <2>2, <2>3, <2>4, Zenon
  <1>14. /\ out' \in Seq(Entries) /\ out' # <<>>
         /\ Len(out') = Len(out) + 1 /\ Len(out) \in Nat
         /\ DOMAIN out = 1..Len(out) /\ DOMAIN out' = 1..(Len(out) + 1)
         /\ \A i \in DOMAIN out : i \in DOMAIN out' /\ out'[i] = out[i]
         /\ out'[Len(out) + 1] = e
         /\ \A i \in DOMAIN out' : i \in DOMAIN out \/ i = Len(out) + 1
    BY <1>13, Written
  <1>15. /\ Top.id = armed /\ Top.id # 0 /\ (Top.id \in RelayIds \/ Top.id \in Ctls)
         /\ armed \in RelayIds => /\ msg[Stdin].at = "running" /\ lines = armed
                                  /\ \A i \in DOMAIN stack : stack[i].id \in RelayIds => i = 1
    BY <1>2, CaptureOf
  <1>16. Clean'
    <2>1. SUFFICES ASSUME NEW i \in DOMAIN out', out'[i].id \in RelayIds
                   PROVE  /\ out'[i].id <= lines
                          /\ out'[i].tag = "END" /\ host.context =>
                                 /\ out'[i].text \subseteq {out'[i].id} \cup out'[i].met
                                 /\ out'[i].met = {} /\ ~out'[i].late => out'[i].text = {out'[i].id}
      BY <1>8 DEF Clean
    <2>2. CASE i \in DOMAIN out
      BY <1>14, <2>1, <2>2 DEF HostInv, Clean
    <2>3. CASE i = Len(out) + 1
      <3>1. out'[i] = e /\ e.id \in RelayIds /\ e.id <= lines
        BY <1>13, <1>14, <1>15, <2>1, <2>3, HostFacts
      <3>2. e.text \subseteq {e.id} \cup e.met
        BY <1>a, <1>13 DEF Fresh
      <3>3. host.context /\ e.met = {} /\ ~e.late => e.id \in e.text
        BY <1>a, <1>13, <3>1 DEF HoldsOwn
      <3>4. host.context /\ e.met = {} /\ ~e.late => e.text = {e.id}
        BY <3>2, <3>3
      <3> QED
        BY <3>1, <3>2, <3>4
    <2> QED
      BY <1>14, <2>2, <2>3
  <1>17. Acknowledged'
    BY <1>8, <1>13, <1>14 DEF HostInv, Acknowledged
  <1>18. Whole'
    <2>1. SUFFICES ASSUME ~CtlBlock' PROVE Blocks' /\ Awaited'
      BY DEF Whole
    <2>2. ~CtlBlock
      BY <1>14, <2>1 DEF CtlBlock
    <2>3. Blocks /\ Awaited
      BY <2>2 DEF HostInv, Whole
    <2>4. Top.id \in RelayIds
      BY <1>13, <1>14, <1>15, <2>1 DEF CtlBlock
    <2>5. LastIs("BEGIN", lines)
      BY <1>1, <1>15, <2>3, <2>4 DEF Awaited
    <2>6. Len(out) \in DOMAIN out /\ out[Len(out)].tag = "BEGIN" /\ Len(out) >= 1
      BY <1>14, <2>5 DEF LastIs
    <2>7. ASSUME NEW i \in DOMAIN out'
          PROVE  /\ out'[i].tag = "END" => i > 1 /\ out'[i - 1].tag = "BEGIN"
                 /\ out'[i].tag = "BEGIN" =>
                        /\ i > 1 /\ out'[i - 1].tag = "READY" /\ out'[i - 1].id = out'[i].id - 1
                        /\ i < Len(out') => out'[i + 1].tag = "END"
                        /\ i = Len(out') => run' = "up" /\ armed' \in RelayIds /\ Top'.script[1] = "end"
      <3>1. CASE i \in DOMAIN out
        <4>1. i > 1 => i - 1 \in DOMAIN out /\ out'[i - 1] = out[i - 1]
          BY <1>14, <3>1
        <4>2. i < Len(out) => i + 1 \in DOMAIN out /\ out'[i + 1] = out[i + 1]
          BY <1>14, <3>1
        <4>3. out'[i] = out[i] /\ (i < Len(out) \/ i = Len(out)) /\ i # Len(out')
          BY <1>14, <3>1
        <4>4. i = Len(out) => out'[i + 1].tag = "END"
          BY <1>13, <1>14
        <4> QED
          BY <2>3, <3>1, <4>1, <4>2, <4>3, <4>4 DEF Blocks
      <3>2. CASE i = Len(out) + 1
        <4>1. i > 1 /\ out'[i - 1] = out[Len(out)]
          BY <1>14, <2>6, <3>2
        <4>2. out'[i] = e
          BY <1>14, <3>2
        <4> QED
          BY <1>13, <2>6, <4>1, <4>2
      <3> QED
        BY <1>14, <3>1, <3>2
    <2>8. Blocks'
      BY <2>7 DEF Blocks
    <2>9. Awaited'
      <3>2. \A i \in DOMAIN stack' : stack'[i].id \in RelayIds => i = 1
        BY <1>11, <1>15, <2>4
      <3>3. /\ msg'[Stdin].at = "running" /\ armed' # 0 /\ s[1] \notin {"session", "read", "begin", "end"}
            /\ Top'.script = s
        BY <1>2, <1>6, <1>8, <1>11, <1>15, <2>4
      <3> QED
        BY <3>2, <3>3 DEF Awaited
    <2> QED
      BY <2>8, <2>9
  <1>19. n \in 1..4 /\ host'.context = host.context /\ out' \in Seq(Entries)
    BY <1>8, <1>14
  <1>in. StaysInside(s, n)
    BY <1>1, <1>2, <1>5, <1>6, <1>8, <1>9, <1>10, <1>12, <1>16, <1>17, <1>18, <1>19 DEF StaysInside
  <1> QED
    BY <1>in, CaptureStep

-----------------------------------------------------------------------------
\* The later script is the one that counts.
LEMMA WithWith ==
    ASSUME NEW f \in Frames, NEW t \in Seq(Ops), NEW u \in Seq(Ops)
    PROVE  With(With(f, t), u) = With(f, u)
  BY DEF With, Frames

\* Steps put before a script together are put there one by one.
LEMMA PutPair ==
    ASSUME NEW o \in Ops, NEW p \in Ops, NEW t \in Seq(Ops)
    PROVE  <<o, p>> \o t = <<o>> \o (<<p>> \o t)
  <1>1. <<o>> \in Seq(Ops) /\ <<p>> \in Seq(Ops) /\ <<o, p>> \in Seq(Ops)
    OBVIOUS
  <1>2. <<o, p>> = <<o>> \o <<p>>
    <2>1. Len(<<p>>) = 1 /\ <<p>>[1] = p /\ Len(<<o, p>>) = 2 /\ <<o, p>>[1] = o /\ <<o, p>>[2] = p
      OBVIOUS
    <2>2. PICK u \in Seq(Ops) : u = <<o>> \o <<p>>
      BY <1>1, PutFirst
    <2>3. Len(u) = 2 /\ u[1] = o /\ u[2] = p
      <3>1. /\ Len(u) = Len(<<p>>) + 1 /\ u[1] = o
            /\ \A k \in 1..Len(<<p>>) : u[k + 1] = <<p>>[k]
        BY <1>1, <2>2, PutFirst
      <3>2. u[1 + 1] = p
        BY <2>1, <3>1
      <3> QED
        BY <2>1, <3>1, <3>2
    <2>4. \A i \in 1..2 : i = 1 \/ i = 2
      OBVIOUS
    <2>5. \A i \in 1..2 : <<o, p>>[i] = u[i]
      BY <2>1, <2>3, <2>4
    <2> QED
      BY <1>1, <2>1, <2>2, <2>3, <2>5, SeqEqual
  <1> QED
    BY <1>1, <1>2, ConcatAssociative

\* Three of them.
LEMMA PutTriple ==
    ASSUME NEW o \in Ops, NEW p \in Ops, NEW r \in Ops, NEW t \in Seq(Ops),
           NEW x \in Seq(Ops), x = <<r>> \o t, NEW u \in Seq(Ops), u = <<p>> \o x, NEW s, s = <<o>> \o u
    PROVE  (<<o, p>> \o <<r>>) \o t = s
  <1>1. <<r>> \in Seq(Ops) /\ <<o, p>> \in Seq(Ops)
    OBVIOUS
  <1>2. (<<o, p>> \o <<r>>) \o t = <<o, p>> \o (<<r>> \o t)
    BY <1>1, ConcatAssociative
  <1>3. <<o, p>> \o x = <<o>> \o (<<p>> \o x)
    BY PutPair
  <1> QED
    BY <1>2, <1>3

\* The same frame, with one more step before the bracket's end.
LEMMA FrameFirst ==
    ASSUME NEW f \in Frames, NEW t \in Seq(Ops), NEW n \in 0..3, NEW m, NEW c, NEW q, NEW x, NEW a, NEW md,
           FrameOK(With(f, t), n, m, c, q, x, a, md),
           NEW o \in Ops \ {"arm", "thread", "context"}, f.id = 0 => md # "warm"
    PROVE  FrameOK(With(f, <<o>> \o t), n + 1, m, c, q, x, a, md)
  <1>1. With(f, t) \in Frames /\ With(f, t).id = f.id /\ With(f, t).script = t
    BY WithIs
  <1>2. FrameOK(With(With(f, t), <<o>> \o With(f, t).script), n + 1, m, c, q, x, a, md)
    BY <1>1, FrameBefore
  <1>3. <<o>> \o t \in Seq(Ops)
    BY PutFirst
  <1>4. With(With(f, t), <<o>> \o With(f, t).script) = With(f, <<o>> \o t)
    <2>1. With(With(f, t), <<o>> \o t) = With(f, <<o>> \o t)
      BY <1>3, WithWith
    <2> QED
      BY <1>1, <2>1
  <1> QED
    BY <1>2, <1>4

LEMMA TeardownStep == ASSUME HostInv, Teardown PROVE HostInv'
  <1>1. run = "up" /\ Top.script # <<>> /\ Top.script[1] = "teardown"
    BY Heading DEF Teardown
  <1>2. PICK n \in 1..4 : Inner(n)
    <2>1. armed = 0 => Inner(1)
      BY <1>1, SessionHere DEF Capturing
    <2>2. armed # 0 => \E n \in 1..4 : Inner(n)
      BY CaptureHere
    <2> QED
      BY <2>1, <2>2
  <1>3. Tears(Top.script, n)
    BY <1>1 DEF Tears
  <1>4. CASE guard = 0 /\ run' = "fault" /\ UNCHANGED stack
    <2>1. mode # "warm"
      BY <1>2, <1>3, <1>4 DEF Inner
    <2> QED
      BY <1>1, <1>4, <2>1, Ends DEF Teardown, textVars, ioVars
  <1>5. CASE Advance /\ UNCHANGED run
    <2>1. PICK s \in Seq(Ops) : s = Tail(Top.script) /\ \A k \in DOMAIN s : k + 1 \in DOMAIN Top.script /\ s[k] = Top.script[k + 1]
      BY <1>1, HostFacts, RestIs
    <2>2. stack' = <<[Top EXCEPT !.script = s]>> \o Tail(stack)
      BY <1>1, <1>5, <2>1, AdvanceIs
    <2>3. /\ UNCHANGED <<mode, run, host, comp, queue, cap, armed, msg, lines, out>> /\ guard' = 0
          /\ host' \in Globals /\ cap' \in SUBSET LineIds /\ guard' \in LineIds /\ out' \in Seq(Entries)
      BY <1>5, HostFacts DEF Teardown, textVars, ioVars, HostInv, Kinds, Globals
    <2>4. CASE armed = 0
      <3>1. Inner(1)
        BY <1>1, <2>4, SessionHere DEF Capturing
      <3>2. FrameOK(Top, 1, 1, comp, queue, host.context, msg[Stdin].at, mode)
        BY <2>4, <3>1 DEF Inner, FrameIs
      <3>3. FrameOK(With(Top, s), 1 - 1, 1, comp, queue, host.context, msg[Stdin].at, mode)
        BY <2>1, <3>2, FrameInside, HostFacts
      <3>4. FrameOK(With(Top, s), 0, 1, comp, queue, host.context, msg[Stdin].at, mode)
        BY <3>3
      <3>5. ~Tears(s, 0)
        BY DEF Tears
      <3>6. Arms(s) => Arms(Top.script)
        BY <2>1 DEF Arms
      <3>7. guard' = 0 /\ armed' = 0
        BY <2>3, <2>4
      <3>8. /\ run = "up" /\ UNCHANGED <<mode, run, comp, queue, msg, lines, out>>
            /\ host' \in Globals /\ host'.context = host.context
            /\ cap' \in SUBSET LineIds /\ guard' \in LineIds
        BY <1>1, <2>3
      <3>9. guard' = IF mode = "warm" /\ Tears(s, 0) THEN Top.id ELSE 0
        BY <3>5, <3>7
      <3>10. PICK z \in 0..1 : z = 0
        OBVIOUS
      <3> QED
        BY <2>2, <2>4, <3>4, <3>5, <3>6, <3>7, <3>8, <3>9, <3>10, QuietScript
    <2>5. CASE armed # 0
      <3>1. PICK k \in 1..3 :
               LET t == Tail(Top.script) IN
               /\ t \in Seq(Ops) /\ Inner(k + 1) /\ Captures(Top.script, k + 1)
               /\ FrameOK(With(Top, t), k, 0, comp, queue, host.context, msg[Stdin].at, mode)
               /\ Captures(t, k) /\ t # <<>> /\ k <= Len(t) /\ \A j \in 1..k : t[j] = Top.script[j + 1]
        BY <1>1, <2>5, CaptureLeft
      <3>2. k = 1 /\ s[1] = "disarm" /\ Captures(s, 1)
        BY <1>1, <2>1, <3>1 DEF Captures
      <3>3. ~Tears(s, 1)
        BY <3>2 DEF Tears
      <3>4. FrameOK(With(Top, s), 1, 0, comp, queue, host.context, msg[Stdin].at, mode)
        BY <2>1, <3>1, <3>2
      <3>5. Clean' /\ Acknowledged' /\ Whole'
        BY <1>1, <2>2, <2>3, <2>5, <3>2, CaptureOn
      <3>6. Captured'
        <4>1. Fresh(Top, cap)
          BY <2>5 DEF HostInv, Captured
        <4>2. Top' = With(Top, s) /\ Top'.script = s
          BY <2>2, ThenIs
        <4>3. Fresh(Top', cap)
          BY <4>1, <4>2, SameOwner, HostFacts
        <4> QED
          BY <2>3, <3>2, <4>2, <4>3 DEF Captured
      <3>in. StaysInside(s, 1)
        BY <1>1, <2>2, <2>3, <2>5, <3>2, <3>3, <3>4, <3>5, <3>6 DEF StaysInside
      <3> QED
        BY <3>in, CaptureStep
    <2> QED
      BY <2>4, <2>5
  <1> QED
    BY <1>4, <1>5 DEF Teardown

-----------------------------------------------------------------------------
LEMMA SearchStep == ASSUME HostInv, Search PROVE HostInv'
  <1>1. run = "up" /\ Top.script # <<>> /\ Top.script[1] = "search"
    BY Heading DEF Search
  <1>2. armed # 0
    BY <1>1, SessionHere DEF Capturing
  <1>3. CASE run' = "null" /\ UNCHANGED <<stack, cap>>
    BY <1>1, <1>3, Ends DEF Search, textVars, ioVars
  <1>4. PICK n \in 1..3 :
               LET t == Tail(Top.script) IN
               /\ t \in Seq(Ops) /\ Inner(n + 1) /\ Captures(Top.script, n + 1)
               /\ FrameOK(With(Top, t), n, 0, comp, queue, host.context, msg[Stdin].at, mode)
               /\ Captures(t, n) /\ t # <<>> /\ n <= Len(t) /\ \A k \in 1..n : t[k] = Top.script[k + 1]
    BY <1>1, <1>2, CaptureLeft
  <1>5. PICK t \in Seq(Ops) : t = Tail(Top.script)
    BY <1>4
  <1>6. n = 1 /\ t[1] = "disarm" /\ Captures(t, 1) /\ Len(t) \in Nat /\ Len(t) >= 1
    BY <1>1, <1>4, <1>5 DEF Captures
  <1>7. guard = 0
    BY <1>1, <1>4, <1>6, <1>5 DEF Inner, Tears
  <1>8. FrameOK(With(Top, t), 1, 0, comp, queue, host.context, msg[Stdin].at, mode)
    BY <1>4, <1>5, <1>6
  <1>9. Top.id = 0 => mode # "warm"
    BY <1>2, CaptureHere
  <1>10. armed \notin RelayIds /\ Top.id = armed
    BY <1>1, <1>2, CaptureOf DEF HostInv, Captured
  <1>11. CASE Advance /\ UNCHANGED <<run, cap>>
    <2>1. stack' = <<[Top EXCEPT !.script = t]>> \o Tail(stack)
      BY <1>1, <1>5, <1>11, AdvanceIs
    <2>2. /\ UNCHANGED <<mode, run, host, comp, queue, cap, armed, guard, msg, lines, out>>
          /\ host' \in Globals /\ cap' \in SUBSET LineIds /\ guard' \in LineIds /\ out' \in Seq(Entries)
      BY <1>11 DEF Search, textVars, ioVars, HostInv, Kinds, Globals
    <2>3. Clean' /\ Acknowledged' /\ Whole'
      BY <1>1, <1>2, <1>6, <2>1, <2>2, CaptureOn
    <2>4. Captured'
      <3>1. Fresh(Top, cap)
        BY <1>2 DEF HostInv, Captured
      <3>2. Top' = With(Top, t) /\ Top'.script = t
        BY <2>1, ThenIs
      <3>3. Fresh(Top', cap)
        BY <3>1, <3>2, SameOwner, HostFacts
      <3> QED
        BY <1>6, <2>2, <3>2, <3>3 DEF Captured
    <2>5. ~Tears(t, 1) /\ guard' = 0
      BY <1>6, <1>7, <2>2 DEF Tears
    <2>in. StaysInside(t, 1)
      BY <1>1, <1>2, <1>6, <1>8, <2>1, <2>2, <2>3, <2>4, <2>5 DEF StaysInside
    <2> QED
      BY <2>in, CaptureStep
  <1>12. CASE Then(Block) /\ cap' \in {{}, {Top.id}} /\ UNCHANGED run
    <2>1. PICK u \in Seq(Ops) : u = <<"end">> \o t
      BY <1>5, PutFirst DEF Ops
    <2>2. PICK s \in Seq(Ops) : s = <<"begin">> \o u
      BY <2>1, PutFirst DEF Ops
    <2>3. Block \o Tail(Top.script) = s
      BY <1>2, <1>5, <2>1, <2>2, PutPair DEF Block, Ops
    <2>4. stack' = <<[Top EXCEPT !.script = s]>> \o Tail(stack)
      BY <1>12, <2>3 DEF Then
    <2>a. "end" \in Ops \ {"arm", "thread", "context"} /\ "begin" \in Ops \ {"arm", "thread", "context"}
      BY DEF Ops
    <2>5. FrameOK(With(Top, u), 1 + 1, 0, comp, queue, host.context, msg[Stdin].at, mode)
      <3>1. 1 \in 0..3 /\ Top \in Frames
        BY HostFacts
      <3>2. FrameOK(With(Top, <<"end">> \o t), 1 + 1, 0, comp, queue, host.context, msg[Stdin].at, mode)
        BY <1>8, <1>9, <2>a, <3>1, FrameFirst
      <3> QED
        BY <2>1, <3>2
    <2>6. FrameOK(With(Top, u), 2, 0, comp, queue, host.context, msg[Stdin].at, mode)
      BY <2>5
    <2>7. FrameOK(With(Top, s), 2 + 1, 0, comp, queue, host.context, msg[Stdin].at, mode)
      <3>1. 2 \in 0..3 /\ Top \in Frames
        BY HostFacts
      <3>2. FrameOK(With(Top, <<"begin">> \o u), 2 + 1, 0, comp, queue, host.context, msg[Stdin].at, mode)
        BY <1>9, <2>6, <2>a, <3>1, FrameFirst
      <3> QED
        BY <2>2, <3>2
    <2>8. FrameOK(With(Top, s), 3, 0, comp, queue, host.context, msg[Stdin].at, mode)
      BY <2>7
    <2>9. /\ u[1] = "end" /\ Len(u) = Len(t) + 1 /\ u[1 + 1] = t[1]
          /\ s[1] = "begin" /\ Len(s) = Len(u) + 1 /\ s[1 + 1] = u[1] /\ (2 \in 1..Len(u) => s[2 + 1] = u[2])
      <3>1. "end" \in Ops /\ "begin" \in Ops /\ 1 \in 1..Len(t)
        BY <1>6 DEF Ops
      <3>2. /\ Len(u) = Len(t) + 1 /\ u[1] = "end"
            /\ \A k \in 1..Len(t) : u[k + 1] = t[k]
        BY <2>1, <3>1, PutFirst
      <3>3. /\ Len(s) = Len(u) + 1 /\ s[1] = "begin"
            /\ \A k \in 1..Len(u) : s[k + 1] = u[k]
        BY <2>2, <3>1, PutFirst
      <3>4. 1 \in 1..Len(u)
        BY <3>1, <3>2
      <3> QED
        BY <3>1, <3>2, <3>3, <3>4
    <2>10. s[1] = "begin" /\ s[2] = "end" /\ s[3] = "disarm" /\ Len(s) >= 3
      BY <1>6, <2>9
    <2>11. Captures(s, 3) /\ ~Tears(s, 3)
      BY <2>10 DEF Captures, Tears
    <2>12. /\ UNCHANGED <<mode, run, host, comp, queue, armed, guard, msg, lines, out>> /\ guard' = 0
           /\ host' \in Globals /\ cap' \in SUBSET LineIds /\ guard' \in LineIds /\ out' \in Seq(Entries)
      BY <1>7, <1>12, HostFacts DEF Search, textVars, ioVars, HostInv, Kinds, Globals
    <2>13. Clean' /\ Acknowledged' /\ Whole'
      BY <1>1, <1>2, <1>10, <2>4, <2>10, <2>12, CaptureOn
    <2>14. Captured'
      <3>1. Top' = With(Top, s) /\ Top'.script = s /\ Top'.id = Top.id
        BY <2>4, ThenIs
      <3>2. Fresh(Top', cap') /\ HoldsOwn(Top', cap', queue', host'.context)
        BY <1>10, <1>12, <3>1 DEF Fresh, HoldsOwn
      <3> QED
        BY <2>10, <2>12, <3>1, <3>2, <1>10 DEF Captured
    <2>15. host'.context = host.context /\ guard' = IF mode = "warm" /\ Tears(s, 3) THEN Top.id ELSE 0
      BY <2>11, <2>12
    <2>in. StaysInside(s, 3)
      BY <1>1, <1>2, <2>4, <2>8, <2>11, <2>12, <2>13, <2>14, <2>15 DEF StaysInside
    <2> QED
      BY <2>in, CaptureStep
  <1> QED
    BY <1>3, <1>11, <1>12 DEF Search

-----------------------------------------------------------------------------
\* A session that nobody captures.
LEMMA SessionAlone == ASSUME HostInv, Session, armed = 0 PROVE HostInv'
  <1>1. run = "up" /\ Top.script # <<>> /\ Top.script[1] = "session"
    BY Heading DEF Session
  <1>2. Plain
    BY <1>1, SessionHere DEF Capturing
  <1>3. PICK t \in Seq(Ops) : t = Tail(Top.script) /\ \A k \in DOMAIN t : k + 1 \in DOMAIN Top.script /\ t[k] = Top.script[k + 1]
    BY <1>1, HostFacts, RestIs
  <1>4. FrameOK(Top, 0, 1, comp, queue, host.context, msg[Stdin].at, mode)
    BY <1>2 DEF Plain, Inner, FrameIs
  <1>5. FrameOK(With(Top, t), 0, 1, comp, queue, host.context, msg[Stdin].at, mode)
    BY <1>1, <1>3, <1>4, FrameStep, HostFacts
  <1>6. Arms(t) => Arms(Top.script)
    BY <1>3 DEF Arms
  <1>7. Top.id = 0 => mode # "warm"
    BY <1>1, <1>4, HostFacts DEF FrameOK, MainOK, BootOps
  <1>8. /\ run = "up" /\ UNCHANGED <<mode, run, comp, queue, msg, lines, out>> /\ armed' = 0
    BY <1>1 DEF Session, textVars, ioVars
  <1>9. cap' \in SUBSET LineIds
    BY DEF Session, HostInv, Kinds
  <1>10. CASE Advance /\ UNCHANGED <<host, cap, guard>>
    <2>1. stack' = <<[Top EXCEPT !.script = t]>> \o Tail(stack)
      BY <1>1, <1>3, <1>10, AdvanceIs
    <2>2. /\ host' \in Globals /\ host'.context = host.context
          /\ guard' = 0 /\ guard' \in LineIds
      BY <1>2, <1>10, HostIs, HostFacts DEF Globals, Plain
    <2>3. ~Tears(t, 0)
      BY DEF Tears
    <2>4. PICK z \in 0..1 : z = 0
      OBVIOUS
    <2> QED
      BY <1>5, <1>6, <1>8, <1>9, <2>1, <2>2, <2>3, <2>4, QuietScript
  <1>11. CASE /\ guard' = IF mode = "warm" THEN Top.id ELSE guard
              /\ host' = [host EXCEPT !.veh = @ \/ mode = "warm"]
              /\ Then(<<"teardown">>) \/ Then(Block \o <<IF armed # 0 /\ mode # "warm" THEN "exit" ELSE "teardown">>)
    <2>1. PICK s \in Seq(Ops) : s = <<"teardown">> \o t
      BY <1>3, PutFirst DEF Ops
    <2>2. Block \o <<IF armed # 0 /\ mode # "warm" THEN "exit" ELSE "teardown">> = <<"teardown">>
      <3>1. Block = <<>> /\ (IF armed # 0 /\ mode # "warm" THEN "exit" ELSE "teardown") = "teardown"
        BY DEF Block
      <3>2. <<"teardown">> \in Seq({"teardown"})
        OBVIOUS
      <3>3. <<>> \o <<"teardown">> = <<"teardown">>
        BY <3>2, ConcatEmptySeq
      <3> QED
        BY <3>1, <3>3
    <2>3. stack' = <<[Top EXCEPT !.script = s]>> \o Tail(stack)
      BY <1>3, <1>11, <2>1, <2>2 DEF Then
    <2>4. host' \in Globals /\ host'.context = host.context
      <3>1. (host.veh \/ mode = "warm") \in BOOLEAN
        OBVIOUS
      <3>2. host' = [host EXCEPT !.veh = (host.veh \/ mode = "warm")]
        BY <1>11
      <3> QED
        BY <3>1, <3>2, HostIs DEF Globals
    <2>5. guard' = (IF mode = "warm" THEN Top.id ELSE 0) /\ guard' \in LineIds
      BY <1>2, <1>11, HostFacts DEF Plain
    <2>6. "teardown" \in Ops \ {"arm", "thread", "context"} /\ 0 \in 0..3 /\ Top \in Frames
      BY HostFacts DEF Ops
    <2>7. FrameOK(With(Top, <<"teardown">> \o t), 0 + 1, 1, comp, queue, host.context, msg[Stdin].at, mode)
      BY <1>5, <1>7, <2>6, FrameFirst
    <2>8. FrameOK(With(Top, s), 1, 1, comp, queue, host.context, msg[Stdin].at, mode)
      BY <2>1, <2>7
    <2>9. s # <<>> /\ s[1] = "teardown" /\ \A k \in DOMAIN s : k = 1 \/ (k - 1 \in DOMAIN t /\ s[k] = t[k - 1])
      <3>1. /\ s # <<>> /\ s[1] = "teardown" /\ Len(s) = Len(t) + 1
            /\ \A k \in 1..(Len(t) + 1) : k = 1 \/ (k - 1 \in 1..Len(t) /\ s[k] = t[k - 1])
        BY <2>1, <2>6, PutFirst
      <3> QED
        BY <3>1
    <2>10. Tears(s, 1)
      BY <2>9 DEF Tears
    <2>11. Arms(s) => Arms(Top.script)
      BY <1>6, <2>9 DEF Arms
    <2>12. PICK z \in 0..1 : z = 1
      OBVIOUS
    <2>13. /\ guard' = IF mode = "warm" /\ Tears(s, z) THEN Top.id ELSE 0
           /\ mode = "warm" /\ Tears(s, z) => Top.id # 0
      BY <1>7, <2>5, <2>10, <2>12
    <2> QED
      BY <1>8, <1>9, <2>3, <2>4, <2>5, <2>8, <2>9, <2>11, <2>12, <2>13, QuietScript
  <1> QED
    BY <1>10, <1>11 DEF Session

\* A session whose candidates are captured.
LEMMA SessionCaptured == ASSUME HostInv, Session, armed # 0 PROVE HostInv'
  <1>1. run = "up" /\ Top.script # <<>> /\ Top.script[1] = "session"
    BY Heading DEF Session
  <1>2. PICK n \in 1..3 :
               LET t == Tail(Top.script) IN
               /\ t \in Seq(Ops) /\ Inner(n + 1) /\ Captures(Top.script, n + 1)
               /\ FrameOK(With(Top, t), n, 0, comp, queue, host.context, msg[Stdin].at, mode)
               /\ Captures(t, n) /\ t # <<>> /\ n <= Len(t) /\ \A k \in 1..n : t[k] = Top.script[k + 1]
    BY <1>1, CaptureLeft
  <1>3. PICK t \in Seq(Ops) : t = Tail(Top.script)
    BY <1>2
  <1>4. n = 1 /\ t[1] = "disarm" /\ Captures(t, 1) /\ Len(t) \in Nat /\ Len(t) >= 1
    BY <1>1, <1>2, <1>3 DEF Captures
  <1>5. guard = 0
    BY <1>1, <1>2, <1>3, <1>4 DEF Inner, Tears
  <1>6. FrameOK(With(Top, t), 1, 0, comp, queue, host.context, msg[Stdin].at, mode)
    BY <1>2, <1>3, <1>4
  <1>7. Top.id = 0 => mode # "warm"
    BY CaptureHere
  <1>8. /\ run = "up" /\ UNCHANGED <<mode, run, comp, queue, msg, lines, out>> /\ armed' = armed
        /\ out' \in Seq(Entries)
    BY <1>1 DEF Session, textVars, ioVars, HostInv, Kinds
  <1>9. cap' \in SUBSET LineIds
    BY DEF Session, HostInv, Kinds
  <1>10. /\ Top \in Frames /\ 1 \in 0..3 /\ 2 \in 0..3 /\ 3 \in 0..3
         /\ \A o \in {"teardown", "exit", "begin", "end"} : o \in Ops \ {"arm", "thread", "context"}
    BY HostFacts DEF Ops
  <1>11. Fresh(Top, cap) /\ Fresh(Top, comp) /\ HoldsOwn(Top, comp, queue, host.context)
    BY <1>1 DEF HostInv, Captured
  <1>12. CASE Advance /\ UNCHANGED <<host, cap, guard>>
    <2>1. stack' = <<[Top EXCEPT !.script = t]>> \o Tail(stack)
      BY <1>1, <1>3, <1>12, AdvanceIs
    <2>2. /\ host' \in Globals /\ host'.context = host.context /\ cap' = cap
          /\ guard' = 0 /\ guard' \in LineIds
      BY <1>5, <1>12, HostIs, HostFacts DEF Globals
    <2>3. Clean' /\ Acknowledged' /\ Whole'
      BY <1>1, <1>4, <1>8, <2>1, <2>2, CaptureOn
    <2>4. Captured'
      <3>2. Top' = With(Top, t) /\ Top'.script = t
        BY <2>1, ThenIs
      <3>3. Fresh(Top', cap)
        BY <1>11, <3>2, SameOwner, HostFacts
      <3> QED
        BY <1>4, <2>2, <3>2, <3>3 DEF Captured
    <2>5. ~Tears(t, 1)
      BY <1>4 DEF Tears
    <2>in. StaysInside(t, 1)
      BY <1>4, <1>6, <1>8, <1>9, <2>1, <2>2, <2>3, <2>4, <2>5 DEF StaysInside
    <2> QED
      BY <2>in, CaptureStep
  <1>13. ASSUME /\ guard' = IF mode = "warm" THEN Top.id ELSE guard
                /\ host' = [host EXCEPT !.veh = @ \/ mode = "warm"]
         PROVE  /\ host' \in Globals /\ host'.context = host.context
                /\ guard' = (IF mode = "warm" THEN Top.id ELSE 0) /\ guard' \in LineIds
    <2>1. (host.veh \/ mode = "warm") \in BOOLEAN
      OBVIOUS
    <2>2. host' = [host EXCEPT !.veh = (host.veh \/ mode = "warm")]
      BY <1>13
    <2>3. host' \in Globals /\ host'.context = host.context
      BY <2>1, <2>2, HostIs DEF Globals
    <2> QED
      BY <1>5, <1>13, <2>3, HostFacts
  <1>14. CASE /\ guard' = IF mode = "warm" THEN Top.id ELSE guard
              /\ host' = [host EXCEPT !.veh = @ \/ mode = "warm"]
              /\ Then(<<"teardown">>) /\ UNCHANGED cap
    <2>1. PICK s \in Seq(Ops) : s = <<"teardown">> \o t
      BY <1>10, PutFirst
    <2>2. stack' = <<[Top EXCEPT !.script = s]>> \o Tail(stack)
      BY <1>3, <1>14, <2>1 DEF Then
    <2>3. FrameOK(With(Top, <<"teardown">> \o t), 1 + 1, 0, comp, queue, host.context, msg[Stdin].at, mode)
      BY <1>6, <1>7, <1>10, FrameFirst
    <2>4. FrameOK(With(Top, s), 2, 0, comp, queue, host.context, msg[Stdin].at, mode)
      BY <2>1, <2>3
    <2>5. s[1] = "teardown" /\ s[1 + 1] = t[1] /\ Len(s) = Len(t) + 1
      <3>1. 1 \in 1..Len(t)
        BY <1>4
      <3> QED
        BY <1>10, <2>1, <3>1, PutFirst
    <2>6. s[2] = "disarm" /\ Len(s) >= 2
      BY <1>4, <2>5
    <2>7. Captures(s, 2) /\ Tears(s, 2)
      BY <2>5, <2>6 DEF Captures, Tears
    <2>8. host' \in Globals /\ host'.context = host.context /\ guard' \in LineIds
          /\ guard' = IF mode = "warm" /\ Tears(s, 2) THEN Top.id ELSE 0
      BY <1>13, <1>14, <2>7
    <2>9. Clean' /\ Acknowledged' /\ Whole'
      BY <1>1, <1>8, <2>2, <2>5, <2>8, CaptureOn
    <2>10. Captured'
      <3>2. Top' = With(Top, s) /\ Top'.script = s
        BY <2>2, ThenIs
      <3>3. Fresh(Top', cap)
        BY <1>11, <3>2, SameOwner, HostFacts
      <3> QED
        BY <1>14, <2>5, <3>2, <3>3 DEF Captured
    <2>in. StaysInside(s, 2)
      BY <1>8, <1>9, <2>2, <2>4, <2>7, <2>8, <2>9, <2>10 DEF StaysInside
    <2> QED
      BY <2>in, CaptureStep
  <1>15. CASE /\ guard' = IF mode = "warm" THEN Top.id ELSE guard
              /\ host' = [host EXCEPT !.veh = @ \/ mode = "warm"]
              /\ cap' = comp /\ Then(Block \o <<IF mode # "warm" THEN "exit" ELSE "teardown">>)
    <2>1. PICK w \in {"teardown", "exit"} : w = IF mode # "warm" THEN "exit" ELSE "teardown"
      OBVIOUS
    <2>2. PICK r \in Seq(Ops) : r = <<w>> \o t
      BY <1>10, PutFirst
    <2>3. PICK u \in Seq(Ops) : u = <<"end">> \o r
      BY <1>10, PutFirst
    <2>4. PICK s \in Seq(Ops) : s = <<"begin">> \o u
      BY <1>10, PutFirst
    <2>5. (Block \o <<IF mode # "warm" THEN "exit" ELSE "teardown">>) \o Tail(Top.script) = s
      <3>1. Block = <<"begin", "end">>
        BY DEF Block
      <3>a. PICK o \in Ops, p \in Ops : o = "begin" /\ p = "end" /\ w \in Ops
        BY <1>10
      <3>b. u = <<p>> \o r /\ s = <<o>> \o u
        BY <2>3, <2>4, <3>a
      <3>2. (<<o, p>> \o <<w>>) \o t = s
        BY <2>2, <3>a, <3>b, PutTriple, SMTT(30)
      <3> QED
        BY <1>3, <2>1, <3>1, <3>2, <3>a
    <2>6. stack' = <<[Top EXCEPT !.script = s]>> \o Tail(stack)
      BY <1>15, <2>5 DEF Then
    <2>7. FrameOK(With(Top, <<w>> \o t), 1 + 1, 0, comp, queue, host.context, msg[Stdin].at, mode)
      BY <1>6, <1>7, <1>10, FrameFirst
    <2>8. FrameOK(With(Top, r), 2, 0, comp, queue, host.context, msg[Stdin].at, mode)
      BY <2>2, <2>7
    <2>9. FrameOK(With(Top, <<"end">> \o r), 2 + 1, 0, comp, queue, host.context, msg[Stdin].at, mode)
      BY <1>7, <1>10, <2>8, FrameFirst
    <2>10. FrameOK(With(Top, u), 3, 0, comp, queue, host.context, msg[Stdin].at, mode)
      BY <2>3, <2>9
    <2>11. FrameOK(With(Top, <<"begin">> \o u), 3 + 1, 0, comp, queue, host.context, msg[Stdin].at, mode)
      BY <1>7, <1>10, <2>10, FrameFirst
    <2>12. FrameOK(With(Top, s), 4, 0, comp, queue, host.context, msg[Stdin].at, mode)
      BY <2>4, <2>11
    <2>13. s[1] = "begin" /\ s[2] = "end" /\ s[3] = w /\ s[4] = "disarm" /\ Len(s) >= 4
      <3>1. 1 \in 1..Len(t)
        BY <1>4
      <3>2. r[1] = w /\ r[1 + 1] = t[1] /\ Len(r) = Len(t) + 1
        BY <1>10, <2>2, <3>1, PutFirst
      <3>3. 1 \in 1..Len(r) /\ 2 \in 1..Len(r)
        BY <1>4, <3>2
      <3>4. u[1] = "end" /\ u[1 + 1] = r[1] /\ u[2 + 1] = r[2] /\ Len(u) = Len(r) + 1
        BY <1>10, <2>3, <3>3, PutFirst
      <3>5. 1 \in 1..Len(u) /\ 2 \in 1..Len(u) /\ 3 \in 1..Len(u)
        BY <1>4, <3>2, <3>4
      <3>6. s[1] = "begin" /\ s[1 + 1] = u[1] /\ s[2 + 1] = u[2] /\ s[3 + 1] = u[3] /\ Len(s) = Len(u) + 1
        BY <1>10, <2>4, <3>5, PutFirst
      <3> QED
        BY <1>4, <3>2, <3>4, <3>6
    <2>14. Captures(s, 4)
      BY <2>13 DEF Captures
    <2>15. Tears(s, 4) <=> mode = "warm"
      BY <2>1, <2>13 DEF Tears
    <2>16. host' \in Globals /\ host'.context = host.context /\ guard' \in LineIds
          /\ guard' = IF mode = "warm" /\ Tears(s, 4) THEN Top.id ELSE 0
      BY <1>13, <1>15, <2>15
    <2>17. Clean' /\ Acknowledged' /\ Whole'
      BY <1>1, <1>8, <2>6, <2>13, <2>16, CaptureOn
    <2>18. Captured'
      <3>2. Top' = With(Top, s) /\ Top'.script = s
        BY <2>6, ThenIs
      <3>3. Fresh(Top', comp) /\ HoldsOwn(Top', comp, queue, host.context)
        BY <1>11, <3>2, SameOwner, HostFacts
      <3>4. cap' = comp /\ queue' = queue /\ host'.context = host.context
        BY <1>8, <1>15, <2>16
      <3> QED
        BY <2>13, <3>2, <3>3, <3>4 DEF Captured
    <2>in. StaysInside(s, 4)
      BY <1>8, <1>9, <2>6, <2>12, <2>14, <2>16, <2>17, <2>18 DEF StaysInside
    <2> QED
      BY <2>in, CaptureStep
  <1> QED
    BY <1>12, <1>14, <1>15 DEF Session

LEMMA SessionStep == ASSUME HostInv, Session PROVE HostInv'
  BY SessionAlone, SessionCaptured

LEMMA ArmStep == ASSUME HostInv, Arm PROVE HostInv'
  <1>1. run = "up" /\ Top.script # <<>> /\ Top.script[1] = "arm"
    BY Heading DEF Arm
  <1>2. Plain
    BY AtPlain DEF Arm, Capturing
  <1>3. FrameOK(Top, 0, 1, comp, queue, host.context, msg[Stdin].at, mode)
    BY <1>2 DEF Plain, Inner, FrameIs
  <1>4. PICK n \in {2, 4} :
               LET t == Tail(Top.script) IN
               /\ Captures(t, n)
               /\ FrameOK(With(Top, t), n, 0, comp, queue, host.context, msg[Stdin].at, mode)
               /\ t[1] \in {"session", "search", "read"}
               /\ t[1] # "search" => Fresh(Top, comp) /\ HoldsOwn(Top, comp, queue, host.context)
               /\ Top.id \in RelayIds => t[1] # "search"
    BY <1>1, <1>3, FrameArms, HostFacts
  <1>5. PICK s \in Seq(Ops) : s = Tail(Top.script) /\ \A k \in DOMAIN s : k + 1 \in DOMAIN Top.script /\ s[k] = Top.script[k + 1]
    BY <1>1, HostFacts, RestIs
  <1>6. stack' = <<[Top EXCEPT !.script = s]>> \o Tail(stack)
    BY <1>1, <1>5, AdvanceIs DEF Arm
  <1>7. /\ UNCHANGED <<mode, run, host, comp, queue, guard, msg, lines, out>> /\ armed' = Top.id /\ cap' = {}
        /\ armed' \in LineIds /\ guard' = 0
        /\ host' \in Globals /\ cap' \in SUBSET LineIds /\ guard' \in LineIds /\ out' \in Seq(Entries)
    BY <1>2, HostFacts DEF Arm, textVars, ioVars, HostInv, Kinds, Globals, Plain
  <1>8. Top.id # 0
    <2>1. 1 \in DOMAIN Top.script
      BY <1>1, HostFacts
    <2> QED
      BY <1>1, <1>3, <2>1 DEF FrameOK, MainOK
  <1>9. ~Tears(s, n)
    BY <1>4, <1>5 DEF Captures, Tears
  <1>10. /\ DOMAIN stack' = DOMAIN stack
         /\ Top' = With(Top, s) /\ Top'.script = s /\ Top'.id = Top.id /\ Top'.met = Top.met
         /\ \A i \in DOMAIN stack : i > 1 => stack'[i] = stack[i]
         /\ \A i \in DOMAIN stack : stack'[i].id = stack[i].id
    BY <1>6, ThenIs
  <1>11. Kinds' /\ Sent' /\ Nested' /\ Outer'
    BY <1>1, <1>6, <1>7, SameCompany
  <1>12. Entered'
    <2>1. FrameIs(Top, n, 0)'
      BY <1>4, <1>5, <1>7, <1>10 DEF FrameIs
    <2>2. Inner(n)'
      BY <1>4, <1>5, <1>7, <1>8, <1>9, <1>10, <2>1 DEF Inner
    <2> QED
      BY <2>2 DEF Entered
  <1>13. Captured'
    <2>1. s[1] # "search" => Fresh(Top', comp) /\ HoldsOwn(Top', comp, queue, host.context)
      BY <1>4, <1>5, <1>10, SameOwner, HostFacts
    <2>2. Fresh(Top', cap')
      BY <1>7 DEF Fresh
    <2>3. s[1] \notin {"begin", "end"} /\ (Top.id \in RelayIds => s[1] # "search")
      BY <1>4, <1>5
    <2> QED
      BY <1>7, <1>10, <2>1, <2>2, <2>3 DEF Captured
  <1>14. Clean' /\ Acknowledged'
    BY <1>7 DEF HostInv, Clean, Acknowledged
  <1>15. Unfaulted'
    BY <1>1, <1>7 DEF Unfaulted
  <1>16. Whole'
    <2>1. CtlBlock' <=> CtlBlock
      BY <1>7 DEF CtlBlock
    <2>2. Blocks => Blocks'
      <3>1. armed \notin RelayIds
        BY <1>2, HostFacts DEF Plain
      <3> QED
        BY <1>1, <1>7, <3>1 DEF Blocks
    <2>3. ASSUME Awaited PROVE Awaited'
      <3>1. /\ msg'[Stdin].at = "read" => LastIs("READY", lines)'
            /\ msg'[Stdin].at = "sent" => LastIs("READY", lines - 1)'
        BY <1>7, <2>3 DEF Awaited, LastIs
      <3>2. Top = stack[1] /\ 1 \in DOMAIN stack /\ Arms(Top.script)
        BY <1>1, HostFacts DEF Arms
      <3>3. armed' \in RelayIds => LastIs("READY", lines - 1)
        BY <1>2, <1>7, <2>3, <3>2 DEF Awaited, Plain
      <3>4. armed' \in RelayIds => LastIs("READY", lines - 1)'
        BY <1>7, <3>3 DEF LastIs
      <3>5. ASSUME NEW i \in DOMAIN stack',
                   stack'[i].id \in RelayIds /\ (i > 1 \/ armed' = 0) /\ Arms(stack'[i].script)
            PROVE  LastIs("READY", lines - 1)'
        <4>1. i \in DOMAIN stack /\ i > 1 /\ stack'[i] = stack[i]
          BY <1>7, <1>8, <1>10, <3>5
        <4>2. LastIs("READY", lines - 1)
          BY <2>3, <3>5, <4>1 DEF Awaited
        <4> QED
          BY <1>7, <4>2 DEF LastIs
      <3>6. Top'.script[1] # "end"
        BY <1>4, <1>5, <1>10
      <3> QED
        BY <3>1, <3>4, <3>5, <3>6, Zenon DEF Awaited
    <2> QED
      BY <2>1, <2>2, <2>3 DEF HostInv, Whole
  <1> QED
    BY <1>11, <1>12, <1>13, <1>14, <1>15, <1>16 DEF HostInv

-----------------------------------------------------------------------------
\* A command comes in: all on the stack meet it, and nothing else of them changes.
LEMMA MeetIs ==
    ASSUME HostInv, NEW id \in LineIds, NEW st, st = Meet(id, stack)
    PROVE  /\ st \in Seq(Frames) /\ Len(st) = Len(stack) /\ DOMAIN st = DOMAIN stack /\ st # <<>>
           /\ \A i \in DOMAIN stack :
                  /\ st[i] \in Frames
                  /\ st[i].id = stack[i].id /\ st[i].script = stack[i].script
                  /\ st[i].met = stack[i].met \cup ({id} \ {stack[i].id})
  <1>1. /\ Len(stack) \in Nat \ {0} /\ DOMAIN stack = 1..Len(stack)
        /\ \A i \in DOMAIN stack : stack[i] \in Frames
    BY HostFacts
  <1>2. st = [i \in 1..Len(stack) |-> [stack[i] EXCEPT !.met = @ \cup ({id} \ {stack[i].id})]]
    BY <1>1 DEF Meet
  <1>3. ASSUME NEW f \in Frames, NEW g, g = [f EXCEPT !.met = @ \cup ({id} \ {f.id})]
        PROVE  g \in Frames /\ g.id = f.id /\ g.script = f.script /\ g.met = f.met \cup ({id} \ {f.id})
    BY <1>3 DEF Frames
  <1>4. \A i \in DOMAIN stack :
                  /\ st[i] \in Frames
                  /\ st[i].id = stack[i].id /\ st[i].script = stack[i].script
                  /\ st[i].met = stack[i].met \cup ({id} \ {stack[i].id})
    BY <1>1, <1>2, <1>3
  <1>5. st \in [1..Len(stack) -> Frames]
    <2>1. \A i \in 1..Len(stack) : [stack[i] EXCEPT !.met = @ \cup ({id} \ {stack[i].id})] \in Frames
      BY <1>1, <1>3
    <2> HIDE DEF Frames
    <2> QED
      BY <1>2, <2>1
  <1>6. st \in Seq(Frames) /\ Len(st) = Len(stack) /\ DOMAIN st = DOMAIN stack
    <2> HIDE DEF Frames
    <2> QED
      BY <1>1, <1>5
  <1> QED
    BY <1>1, <1>4, <1>6

\* A command that meets the letters of another, or its own late ones.
LEMMA FrameMeets ==
    ASSUME NEW f \in Frames, NEW g \in Frames, NEW id,
           g.id = f.id, g.script = f.script, g.met = f.met \cup ({id} \ {f.id}),
           NEW n, NEW m, NEW c, NEW q, NEW x, NEW a, NEW md, NEW c2, NEW q2, NEW a2,
           FrameOK(f, n, m, c, q, x, a, md), c2 \subseteq c \cup {id}, c \subseteq c2,
           \A i \in DOMAIN q : q[i] = id \/ \E j \in DOMAIN q2 : q2[j] = q[i],
           x => id \in c2 \/ q2 = q, a = "none" => a2 = "none"
    PROVE  FrameOK(g, n, m, c2, q2, x, a2, md)
  <1>1. Fresh(f, c) => Fresh(g, c2)
    BY DEF Fresh
  <1>2. HoldsOwn(f, c, q, x) => HoldsOwn(g, c2, q2, x)
    <2>1. SUFFICES ASSUME HoldsOwn(f, c, q, x), f.id \in RelayIds, x, f.id \notin c2, g.met = {}
                   PROVE  \E j \in DOMAIN q2 : q2[j] = f.id
      BY DEF HoldsOwn
    <2>2. f.met = {} /\ f.id \notin c
      BY <2>1
    <2>3. PICK i \in DOMAIN q : q[i] = f.id
      BY <2>1, <2>2 DEF HoldsOwn
    <2>4. CASE q[i] = id
      BY <2>1, <2>3, <2>4
    <2>5. CASE \E j \in DOMAIN q2 : q2[j] = q[i]
      BY <2>3, <2>5
    <2> QED
      BY <2>4, <2>5
  <1> QED
    BY <1>1, <1>2, FrameGrows

LEMMA DispatchKeyStep == ASSUME HostInv, DispatchKey PROVE HostInv'
  <1>1. PICK op \in {"pump", "loop"} : At(op)
    BY DEF DispatchKey, Pumping
  <1>2. Plain /\ run = "up"
    BY <1>1, AtPlain DEF Capturing, At
  <1>3. /\ queue \in Seq(LineIds) /\ queue # <<>> /\ comp \in SUBSET LineIds
        /\ UNCHANGED <<mode, run, host, cap, armed, guard, msg, lines, out>>
        /\ queue' = Tail(queue) /\ comp' = Typed(Head(queue)) /\ stack' = Meet(Head(queue), stack)
    BY DEF DispatchKey, HostInv, Kinds, guardVars, ioVars
  <1>4. PICK id \in LineIds : id = Head(queue) /\ id = queue[1]
    BY <1>3
  <1>5. /\ queue' \in Seq(LineIds) /\ Len(queue') = Len(queue) - 1
        /\ \A i \in 1..Len(queue') : queue'[i] = queue[i + 1]
    BY <1>3, HeadTailProperties
  <1>6. \A i \in DOMAIN queue : queue[i] = id \/ \E j \in DOMAIN queue' : queue'[j] = queue[i]
    <2> SUFFICES ASSUME NEW i \in DOMAIN queue, i # 1 PROVE \E j \in DOMAIN queue' : queue'[j] = queue[i]
      BY <1>4
    <2>1. PICK j \in 1..Len(queue') : j = i - 1
      BY <1>3, <1>5
    <2>2. j + 1 = i /\ j \in DOMAIN queue'
      BY <1>3, <1>5, <2>1
    <2>3. queue'[j] = queue[i]
      BY <1>5, <2>2
    <2> QED
      BY <2>2, <2>3
  <1>7. /\ comp' \subseteq comp \cup {id} /\ comp \subseteq comp' /\ comp' \in SUBSET LineIds
        /\ host.context => id \in comp'
    BY <1>3, <1>4 DEF Typed
  <1>8. /\ stack' \in Seq(Frames) /\ Len(stack') = Len(stack) /\ DOMAIN stack' = DOMAIN stack /\ stack' # <<>>
        /\ \A i \in DOMAIN stack :
               /\ stack'[i] \in Frames
               /\ stack'[i].id = stack[i].id /\ stack'[i].script = stack[i].script
               /\ stack'[i].met = stack[i].met \cup ({id} \ {stack[i].id})
    <2>1. stack' = Meet(id, stack)
      BY <1>3, <1>4
    <2> QED
      BY <2>1, MeetIs
  <1>9. Kinds' /\ Sent'
    BY <1>3, <1>5, <1>7, <1>8 DEF HostInv, Kinds, Sent
  <1>10. Nested'
    <2>1. Nested
      BY DEF HostInv
    <2>2. \A i \in DOMAIN stack' :
           /\ stack'[i].id = 0 <=> i = Len(stack')
           /\ stack'[i].id \in RelayIds => stack'[i].id = lines' /\ msg'[Stdin].at = "running"
           /\ stack'[i].id \in Ctls /\ run' = "up" => msg'[stack'[i].id].at = "running"
      <3> SUFFICES ASSUME NEW i \in DOMAIN stack'
                   PROVE  /\ stack'[i].id = 0 <=> i = Len(stack')
                          /\ stack'[i].id \in RelayIds => stack'[i].id = lines' /\ msg'[Stdin].at = "running"
                          /\ stack'[i].id \in Ctls /\ run' = "up" => msg'[stack'[i].id].at = "running"
        OBVIOUS
      <3>1. i \in DOMAIN stack /\ stack'[i].id = stack[i].id /\ Len(stack') = Len(stack)
        BY <1>8
      <3>2. /\ stack[i].id = 0 <=> i = Len(stack)
            /\ stack[i].id \in RelayIds => stack[i].id = lines /\ msg[Stdin].at = "running"
            /\ stack[i].id \in Ctls /\ run = "up" => msg[stack[i].id].at = "running"
        BY <2>1, <3>1 DEF Nested
      <3> QED
        BY <1>3, <3>1, <3>2
    <2>3. \A i, j \in DOMAIN stack' : i < j => stack'[i].id # stack'[j].id /\ stack'[i].id \in stack'[j].met
      <3> TAKE i, j \in DOMAIN stack'
      <3> HAVE i < j
      <3>1. i \in DOMAIN stack /\ j \in DOMAIN stack
        BY <1>8
      <3>2. stack[i].id # stack[j].id /\ stack[i].id \in stack[j].met
        BY <2>1, <3>1 DEF Nested
      <3> QED
        BY <1>8, <3>1, <3>2
    <2> QED
      BY <2>2, <2>3, Zenon DEF Nested
  <1>11. ASSUME NEW i \in DOMAIN stack, FrameOK(stack[i], 0, 1, comp, queue, host.context, msg[Stdin].at, mode)
         PROVE  FrameOK(stack'[i], 0, 1, comp', queue', host'.context, msg'[Stdin].at, mode')
    <2>1. PICK f \in Frames : f = stack[i]
      BY HostFacts
    <2>2. PICK g \in Frames : g = stack'[i]
      BY <1>8
    <2>3. g.id = f.id /\ g.script = f.script /\ g.met = f.met \cup ({id} \ {f.id})
      BY <1>8, <2>1, <2>2
    <2>4. FrameOK(f, 0, 1, comp, queue, host.context, msg[Stdin].at, mode)
      BY <1>11, <2>1
    <2>5. host.context => id \in comp' \/ queue' = queue
      BY <1>7
    <2>6. FrameOK(g, 0, 1, comp', queue', host.context, msg[Stdin].at, mode)
      BY <1>6, <1>7, <2>3, <2>4, <2>5, FrameMeets
    <2> QED
      BY <1>3, <2>2, <2>6
  <1>12. Outer'
    BY <1>8, <1>11 DEF HostInv, Outer, FrameIs
  <1>13. Entered'
    <2>1. 1 \in DOMAIN stack /\ Top = stack[1] /\ Top' = stack'[1]
      BY <1>8, HostFacts DEF Top
    <2>2. FrameOK(stack[1], 0, 1, comp, queue, host.context, msg[Stdin].at, mode)
      BY <1>2, <2>1 DEF Plain, Inner, FrameIs
    <2>3. FrameIs(Top, 0, 1)'
      BY <1>11, <2>1, <2>2 DEF FrameIs
    <2>4. ~Tears(Top.script, 0)'
      BY DEF Tears
    <2>5. Inner(0)'
      BY <1>2, <1>3, <2>3, <2>4 DEF Inner, Plain
    <2> QED
      BY <2>5 DEF Entered
  <1>14. \A i \in DOMAIN stack : stack'[i].id = stack[i].id /\ (Arms(stack'[i].script) => Arms(stack[i].script))
    BY <1>8
  <1> QED
    BY <1>2, <1>3, <1>8, <1>9, <1>10, <1>12, <1>13, <1>14, QuietStep DEF Plain

-----------------------------------------------------------------------------
\* What a message does to the frames: nothing.
LEMMA FramesStay ==
    ASSUME HostInv, UNCHANGED <<mode, stack, host, comp, queue, cap, armed, guard>>,
           msg[Stdin].at = "none" => msg'[Stdin].at = "none"
    PROVE  Entered' /\ Outer' /\ Captured' /\ (run' = run => Unfaulted')
  <1>1. Top' = Top
    BY DEF Top
  <1>2. \A f, n, m : FrameOK(f, n, m, comp, queue, host.context, msg[Stdin].at, mode)
                         => FrameOK(f, n, m, comp', queue', host'.context, msg'[Stdin].at, mode')
    <2> TAKE f, n, m
    <2> HAVE FrameOK(f, n, m, comp, queue, host.context, msg[Stdin].at, mode)
    <2>1. FrameOK(f, n, m, comp, queue, host.context, msg'[Stdin].at, mode)
      BY FrameGrows
    <2> QED
      BY <2>1
  <1>3. Outer'
    BY <1>2 DEF HostInv, Outer, FrameIs
  <1>4. Entered'
    <2>1. PICK n \in 0..4 : Inner(n)
      BY DEF HostInv, Entered
    <2>2. FrameIs(Top, n, IF armed = 0 THEN 1 ELSE 0)'
      BY <1>1, <1>2, <2>1 DEF Inner, FrameIs
    <2>3. Inner(n)'
      BY <1>1, <2>1, <2>2 DEF Inner
    <2> QED
      BY <2>3 DEF Entered
  <1>5. Captured'
    BY <1>1 DEF HostInv, Captured
  <1>6. run' = run => Unfaulted'
    BY DEF HostInv, Unfaulted
  <1> QED
    BY <1>3, <1>4, <1>5, <1>6

\* Between two lines of the relay nothing of it is under way.
LEMMA Between ==
    ASSUME HostInv, msg[Stdin].at # "running"
    PROVE  /\ armed \notin RelayIds
           /\ \A i \in DOMAIN stack : stack[i].id \notin RelayIds
           /\ ~CtlBlock => \A i \in DOMAIN out : out[i].tag = "BEGIN" => i < Len(out)
  <1>1. \A i \in DOMAIN stack : stack[i].id \notin RelayIds
    BY DEF HostInv, Nested
  <1>2. armed \notin RelayIds
    BY CaptureOf, HostFacts
  <1>3. out \in Seq(Entries)
    BY DEF HostInv, Kinds
  <1>4. ASSUME ~CtlBlock, NEW i \in DOMAIN out, out[i].tag = "BEGIN" PROVE i < Len(out)
    <2>1. Blocks
      BY <1>4 DEF HostInv, Whole
    <2>2. i # Len(out)
      BY <1>2, <1>4, <2>1 DEF Blocks
    <2>3. i <= Len(out) /\ i \in Nat /\ Len(out) \in Nat
      BY <1>3
    <2> QED
      BY <2>2, <2>3
  <1> QED
    BY <1>1, <1>2, <1>4

\* One sender moves on.
LEMMA MessageIs ==
    ASSUME NEW s \in Senders, NEW m \in Messages, msg \in [Senders -> Messages], msg' = [msg EXCEPT ![s] = m]
    PROVE  /\ msg' \in [Senders -> Messages] /\ msg'[s] = m
           /\ \A t \in Senders : t # s => msg'[t] = msg[t]
  <1> HIDE DEF Messages
  <1> QED
    OBVIOUS

LEMMA StdinReadyStep == ASSUME HostInv, StdinReady PROVE HostInv'
  <1>1. /\ run = "up" /\ msg[Stdin].at \in {"ready", "done"}
        /\ msg' = [msg EXCEPT ![Stdin].at = "read"]
        /\ out' = Append(out, [tag |-> "READY", id |-> lines, text |-> {}, met |-> {}, late |-> FALSE])
        /\ UNCHANGED <<mode, run, stack, host, comp, queue, cap, armed, guard, lines>>
    BY DEF StdinReady, textVars, guardVars
  <1>2. PICK m \in Messages : m = [msg[Stdin] EXCEPT !.at = "read"]
    <2>1. msg[Stdin] \in Messages
      BY HostFacts
    <2> QED
      BY <2>1 DEF Messages
  <1>3. /\ msg' \in [Senders -> Messages] /\ msg'[Stdin] = m /\ m.at = "read"
        /\ \A t \in Senders : t # Stdin => msg'[t] = msg[t]
    <2>1. m.at = "read"
      <3>1. msg[Stdin] \in Messages
        BY HostFacts
      <3> QED
        BY <1>2, <3>1 DEF Messages
    <2>2. msg' = [msg EXCEPT ![Stdin] = m]
      BY <1>1, <1>2
    <2> QED
      BY <2>1, <2>2, HostFacts, MessageIs
  <1>4. PICK e \in Entries : e = [tag |-> "READY", id |-> lines, text |-> {}, met |-> {}, late |-> FALSE]
    BY HostFacts DEF Entries
  <1>5. /\ out' \in Seq(Entries) /\ out' # <<>>
        /\ Len(out') = Len(out) + 1 /\ Len(out) \in Nat
        /\ DOMAIN out = 1..Len(out) /\ DOMAIN out' = 1..(Len(out) + 1)
        /\ \A i \in DOMAIN out : i \in DOMAIN out' /\ out'[i] = out[i]
        /\ out'[Len(out) + 1] = e
        /\ \A i \in DOMAIN out' : i \in DOMAIN out \/ i = Len(out) + 1
    <2>1. out' = Append(out, e)
      BY <1>1, <1>4
    <2> QED
      BY <2>1, Written
  <1>6. e.tag = "READY" /\ e.id = lines
    BY <1>4
  <1>7. Entered' /\ Outer' /\ Captured' /\ Unfaulted'
    BY <1>1, FramesStay
  <1>8. /\ armed \notin RelayIds
        /\ \A i \in DOMAIN stack : stack[i].id \notin RelayIds
        /\ ~CtlBlock => \A i \in DOMAIN out : out[i].tag = "BEGIN" => i < Len(out)
    BY <1>1, Between
  <1>9. Kinds' /\ Sent'
    BY <1>1, <1>3, <1>5 DEF HostInv, Kinds, Sent
  <1>10. Nested'
    <2>1. \A c \in Ctls : msg'[c] = msg[c]
      BY <1>3, HostFacts
    <2> QED
      BY <1>1, <1>8, <2>1 DEF HostInv, Nested
  <1>11. Clean'
    BY <1>1, <1>5, <1>6, HostFacts DEF HostInv, Clean
  <1>12. Acknowledged'
    <2>1. ASSUME NEW i \in DOMAIN out', out'[i].tag = "READY" PROVE out'[i].id <= lines
      <3>1. CASE i \in DOMAIN out
        BY <1>5, <2>1, <3>1 DEF HostInv, Acknowledged
      <3>2. CASE i = Len(out) + 1
        BY <1>5, <1>6, <3>2, HostFacts
      <3> QED
        BY <1>5, <3>1, <3>2
    <2> QED
      BY <1>1, <1>3, <2>1 DEF Acknowledged
  <1>13. Whole'
    <2>1. SUFFICES ASSUME ~CtlBlock' PROVE Blocks' /\ Awaited'
      BY DEF Whole
    <2>2. ~CtlBlock
      BY <1>5, <2>1 DEF CtlBlock
    <2>3. Blocks
      BY <2>2 DEF HostInv, Whole
    <2>4. Blocks'
      <3>1. SUFFICES ASSUME NEW i \in DOMAIN out'
                     PROVE  /\ out'[i].tag = "END" => i > 1 /\ out'[i - 1].tag = "BEGIN"
                            /\ out'[i].tag = "BEGIN" =>
                                  /\ i > 1 /\ out'[i - 1].tag = "READY" /\ out'[i - 1].id = out'[i].id - 1
                                  /\ i < Len(out') => out'[i + 1].tag = "END"
                                  /\ i = Len(out') => run' = "up" /\ armed' \in RelayIds /\ Top'.script[1] = "end"
        BY DEF Blocks
      <3>2. CASE i \in DOMAIN out
        <4>1. i > 1 => i - 1 \in DOMAIN out /\ out'[i - 1] = out[i - 1]
          BY <1>5, <3>2
        <4>2. i < Len(out) => i + 1 \in DOMAIN out /\ out'[i + 1] = out[i + 1]
          BY <1>5, <3>2
        <4>3. out'[i] = out[i] /\ i # Len(out')
          BY <1>5, <3>2
        <4> QED
          BY <1>8, <2>2, <2>3, <3>2, <4>1, <4>2, <4>3 DEF Blocks
      <3>3. CASE i = Len(out) + 1
        BY <1>5, <1>6, <3>3
      <3> QED
        BY <1>5, <3>2, <3>3
    <2>5. Awaited'
      <3>1. LastIs("READY", lines)'
        BY <1>1, <1>5, <1>6 DEF LastIs
      <3> QED
        BY <1>1, <1>3, <1>8, <3>1 DEF Awaited
    <2> QED
      BY <2>4, <2>5
  <1> QED
    BY <1>7, <1>9, <1>10, <1>11, <1>12, <1>13 DEF HostInv

LEMMA StdinEndStep == ASSUME HostInv, StdinEnd PROVE HostInv'
  <1>1. /\ run = "up" /\ msg[Stdin].at = "read"
        /\ msg' = [msg EXCEPT ![Stdin].at = "gone"]
        /\ UNCHANGED <<mode, run, stack, host, comp, queue, cap, armed, guard, lines, out>>
    BY DEF StdinEnd, textVars, guardVars
  <1>2. PICK m \in Messages : m = [msg[Stdin] EXCEPT !.at = "gone"] /\ m.at = "gone"
    <2>1. msg[Stdin] \in Messages
      BY HostFacts
    <2>2. [msg[Stdin] EXCEPT !.at = "gone"] \in Messages /\ [msg[Stdin] EXCEPT !.at = "gone"].at = "gone"
      BY <2>1 DEF Messages
    <2> QED
      BY <2>2, Zenon
  <1>3. /\ msg' \in [Senders -> Messages] /\ msg'[Stdin] = m
        /\ \A t \in Senders : t # Stdin => msg'[t] = msg[t]
    <2>2. msg' = [msg EXCEPT ![Stdin] = m]
      BY <1>1, <1>2
    <2> QED
      BY <2>2, HostFacts, MessageIs
  <1>7. Entered' /\ Outer' /\ Captured' /\ Unfaulted'
    BY <1>1, FramesStay
  <1>8. /\ armed \notin RelayIds
        /\ \A i \in DOMAIN stack : stack[i].id \notin RelayIds
    BY <1>1, Between
  <1>9. Kinds' /\ Sent'
    BY <1>1, <1>2, <1>3 DEF HostInv, Kinds, Sent
  <1>10. Nested'
    <2>1. \A c \in Ctls : msg'[c] = msg[c]
      BY <1>3, HostFacts
    <2> QED
      BY <1>1, <1>8, <2>1 DEF HostInv, Nested
  <1>11. Clean'
    BY <1>1 DEF HostInv, Clean
  <1>12. Acknowledged'
    BY <1>1, <1>2, <1>3 DEF HostInv, Acknowledged
  <1>13. Whole'
    <2>1. Top' = Top
      BY <1>1 DEF Top
    <2> QED
      BY <1>1, <1>2, <1>3, <1>8, <2>1 DEF HostInv, Whole, CtlBlock, Blocks, Awaited
  <1> QED
    BY <1>7, <1>9, <1>10, <1>11, <1>12, <1>13 DEF HostInv

LEMMA StdinReadStep == ASSUME HostInv, NEW l \in Lines, StdinRead(l) PROVE HostInv'
  <1>1. /\ run = "up" /\ msg[Stdin].at = "read" /\ lines < MaxLines /\ lines' = lines + 1
        /\ msg' = [msg EXCEPT ![Stdin] = [at |-> "sent", line |-> l]]
        /\ UNCHANGED <<mode, run, stack, host, comp, queue, cap, armed, guard, out>>
    BY DEF StdinRead, textVars, guardVars
  <1>2. PICK m \in Messages : m = [at |-> "sent", line |-> l]
    BY DEF Messages
  <1>a. m.at = "sent" /\ m.line = l
    BY <1>2
  <1>3. /\ msg' \in [Senders -> Messages] /\ msg'[Stdin] = m
        /\ \A t \in Senders : t # Stdin => msg'[t] = msg[t]
    <2>2. msg' = [msg EXCEPT ![Stdin] = m]
      BY <1>1, <1>2
    <2> QED
      BY <2>2, HostFacts, MessageIs
  <1>4. lines' \in 0..MaxLines /\ lines' > 0 /\ lines' - 1 = lines /\ lines \in Nat
    BY <1>1, HostFacts
  <1>7. Entered' /\ Outer' /\ Captured' /\ Unfaulted'
    BY <1>1, FramesStay
  <1>8. /\ armed \notin RelayIds
        /\ \A i \in DOMAIN stack : stack[i].id \notin RelayIds
    BY <1>1, Between
  <1>9. Kinds' /\ Sent'
    BY <1>1, <1>a, <1>3, <1>4 DEF HostInv, Kinds, Sent
  <1>10. Nested'
    <2>1. \A c \in Ctls : msg'[c] = msg[c]
      BY <1>3, HostFacts
    <2> QED
      BY <1>1, <1>8, <2>1 DEF HostInv, Nested
  <1>11. Clean'
    <2>1. \A i \in RelayIds : i <= lines => i <= lines'
      BY <1>1, <1>4, HostFacts
    <2> QED
      BY <1>1, <2>1 DEF HostInv, Clean
  <1>12. Acknowledged'
    <2>1. \A i \in DOMAIN out : out[i].id \in LineIds /\ out[i].id \in Nat
      <3>1. \A i \in DOMAIN out : out[i] \in Entries
        BY DEF HostInv, Kinds
      <3> QED
        BY <3>1, HostFacts DEF Entries
    <2>2. \A i \in DOMAIN out : out[i].tag = "READY" => out[i].id <= lines
      BY DEF HostInv, Acknowledged
    <2>3. \A i \in DOMAIN out : out[i].tag = "READY" => out[i].id <= lines' /\ out[i].id # lines'
      BY <1>1, <1>4, <2>1, <2>2
    <2> QED
      BY <1>1, <2>3 DEF Acknowledged
  <1>13. Whole'
    <2>1. Top' = Top
      BY <1>1 DEF Top
    <2>2. CtlBlock' <=> CtlBlock
      BY <1>1 DEF CtlBlock
    <2>3. Blocks => Blocks'
      BY <1>1, <2>1 DEF Blocks
    <2>4. ASSUME Awaited PROVE Awaited'
      <3>1. LastIs("READY", lines)
        BY <1>1, <2>4 DEF Awaited
      <3>2. LastIs("READY", lines - 1)'
        BY <1>1, <1>4, <3>1 DEF LastIs
      <3> QED
        BY <1>1, <1>a, <1>3, <1>8, <3>2 DEF Awaited
    <2> QED
      BY <2>2, <2>3, <2>4 DEF HostInv, Whole
  <1> QED
    BY <1>7, <1>9, <1>10, <1>11, <1>12, <1>13 DEF HostInv

\* AtCtl's messages: the relay's is as it was.
LEMMA CtlMessage ==
    ASSUME HostInv, NEW c \in Ctls, NEW m \in Messages, msg' = [msg EXCEPT ![c] = m],
           UNCHANGED <<mode, run, stack, host, comp, queue, cap, armed, guard, lines, out>>,
           run # "up" \/ msg[c].at # "running"
    PROVE  HostInv'
  <1>1. c # Stdin /\ c \in Senders
    BY HostFacts
  <1>2. /\ msg' \in [Senders -> Messages] /\ msg'[Stdin] = msg[Stdin]
        /\ \A t \in Senders : t # c => msg'[t] = msg[t]
    BY <1>1, HostFacts, MessageIs
  <1>3. Entered' /\ Outer' /\ Captured' /\ Unfaulted'
    BY <1>2, FramesStay
  <1>4. Kinds' /\ Sent' /\ Clean' /\ Acknowledged'
    BY <1>2 DEF HostInv, Kinds, Sent, Clean, Acknowledged
  <1>5. Nested'
    <2>1. \A i \in DOMAIN stack : stack[i].id \in Ctls /\ run = "up" => msg'[stack[i].id].at = "running"
      BY <1>2, HostFacts DEF HostInv, Nested
    <2> QED
      BY <1>2, <2>1 DEF HostInv, Nested
  <1>6. Whole'
    <2>1. Top' = Top
      BY DEF Top
    <2> QED
      BY <1>2, <2>1 DEF HostInv, Whole, CtlBlock, Blocks, Awaited, LastIs
  <1> QED
    BY <1>3, <1>4, <1>5, <1>6 DEF HostInv

LEMMA CtlSendStep == ASSUME HostInv, NEW c \in Ctls, NEW l \in CtlLines, CtlSend(c, l) PROVE HostInv'
  <1>1. /\ msg[c].at = "idle"
        /\ msg' = [msg EXCEPT ![c] = [at |-> IF WindowFound THEN "sent" ELSE "done", line |-> l]]
        /\ UNCHANGED <<mode, run, stack, host, comp, queue, cap, armed, guard, lines, out>>
    BY DEF CtlSend, textVars, guardVars
  <1>2. PICK m \in Messages : m = [at |-> IF WindowFound THEN "sent" ELSE "done", line |-> l]
    <2>1. PICK a \in {"sent", "done"} : a = IF WindowFound THEN "sent" ELSE "done"
      OBVIOUS
    <2>2. PICK m \in Messages : m = [at |-> a, line |-> l]
      BY DEF Messages
    <2> QED
      BY <2>1, <2>2
  <1>3. msg' = [msg EXCEPT ![c] = m] /\ msg[c].at # "running"
    BY <1>1, <1>2
  <1> QED
    BY <1>1, <1>3, CtlMessage

LEMMA CtlReturnStep == ASSUME HostInv, NEW c \in Ctls, CtlReturn(c) PROVE HostInv'
  <1>1. /\ run # "up" /\ msg' = [msg EXCEPT ![c].at = "done"]
        /\ UNCHANGED <<mode, run, stack, host, comp, queue, cap, armed, guard, lines, out>>
    BY DEF CtlReturn, textVars, guardVars
  <1>2. PICK m \in Messages : m = [msg[c] EXCEPT !.at = "done"]
    <2>1. msg[c] \in Messages
      BY HostFacts
    <2>2. [msg[c] EXCEPT !.at = "done"] \in Messages
      BY <2>1 DEF Messages
    <2> QED
      BY <2>2
  <1>3. msg' = [msg EXCEPT ![c] = m]
    BY <1>1, <1>2
  <1> QED
    BY <1>1, <1>3, CtlMessage

-----------------------------------------------------------------------------
LEMMA DispatchMessageStep == ASSUME HostInv, NEW s \in Senders, DispatchMessage(s) PROVE HostInv'
  <1>1. PICK op \in {"pump", "loop"} : At(op)
    BY DEF DispatchMessage, Pumping
  <1>2. Plain /\ run = "up"
    BY <1>1, AtPlain DEF Capturing, At
  <1>3. /\ msg[s].at = "sent" /\ armed = 0 /\ guard = 0
        /\ UNCHANGED <<mode, run, host, comp, queue, cap, armed, guard, lines, out>>
    BY <1>2 DEF DispatchMessage, textVars, guardVars, Plain
  <1>4. ASSUME NEW a \in {"running", "done"}, msg' = [msg EXCEPT ![s].at = a]
        PROVE  /\ msg' \in [Senders -> Messages] /\ msg'[s].at = a /\ (msg[s].at = "sent" => msg'[s].line = msg[s].line)
               /\ \A t \in Senders : t # s => msg'[t] = msg[t]
    <2>1. msg[s] \in Messages
      BY HostFacts
    <2>2. PICK m \in Messages : m = [msg[s] EXCEPT !.at = a] /\ m.at = a /\ m.line = msg[s].line
      <3>1. /\ [msg[s] EXCEPT !.at = a] \in Messages /\ [msg[s] EXCEPT !.at = a].at = a
            /\ [msg[s] EXCEPT !.at = a].line = msg[s].line
        BY <2>1 DEF Messages
      <3> QED
        BY <3>1, Zenon
    <2>3. msg' = [msg EXCEPT ![s] = m]
      BY <1>4, <2>2
    <2> QED
      BY <2>2, <2>3, HostFacts, MessageIs
  <1>5. CASE mode = "drive" /\ msg' = [msg EXCEPT ![s].at = "done"] /\ UNCHANGED stack
    <2>1. /\ msg' \in [Senders -> Messages] /\ msg'[s].at = "done"
          /\ \A t \in Senders : t # s => msg'[t] = msg[t]
      BY <1>4, <1>5
    <2>2. \A i \in DOMAIN stack : stack[i].id \notin Ctls \/ stack[i].id # s
      BY <1>2, <1>3 DEF HostInv, Nested
    <2>3. s = Stdin => \A i \in DOMAIN stack : stack[i].id \notin RelayIds
      BY <1>3 DEF HostInv, Nested
    <2>4. Entered' /\ Outer'
      <3>1. msg[Stdin].at = "none" => msg'[Stdin].at = "none"
        BY <1>3, <2>1, HostFacts
      <3> QED
        BY <1>3, <1>5, <3>1, FramesStay
    <2>5. Kinds' /\ Sent'
      <3>1. Kinds'
        BY <1>3, <1>5, <2>1 DEF HostInv, Kinds
      <3>2. Sent'
        <4>1. CASE s = Stdin
          BY <1>3, <2>1, <4>1 DEF HostInv, Sent
        <4>2. CASE s # Stdin
          BY <1>3, <2>1, <4>2, HostFacts DEF HostInv, Sent
        <4> QED
          BY <4>1, <4>2
      <3> QED
        BY <3>1, <3>2
    <2>6. Nested'
      <3>1. \A i \in DOMAIN stack : stack[i].id \in Ctls => msg'[stack[i].id] = msg[stack[i].id]
        BY <2>1, <2>2, HostFacts
      <3>2. \A i \in DOMAIN stack : stack[i].id \in RelayIds => msg'[Stdin] = msg[Stdin]
        BY <2>1, <2>3, HostFacts
      <3> QED
        BY <1>3, <1>5, <3>1, <3>2 DEF HostInv, Nested
    <2>7. msg'[Stdin].at = msg[Stdin].at \/ msg'[Stdin].at \in {"none", "ready", "done"}
      BY <2>1, HostFacts
    <2> QED
      BY <1>2, <1>3, <1>5, <2>4, <2>5, <2>6, <2>7, QuietStep
  <1>6. CASE /\ msg' = [msg EXCEPT ![s].at = "running"]
             /\ \E script \in LineScripts(msg[s].line) :
                   LET id == IF s = Stdin THEN lines ELSE s
                   IN  stack' = <<Frame(id, script)>> \o Meet(id, stack)
    <2>1. PICK script \in LineScripts(msg[s].line) :
              LET id == IF s = Stdin THEN lines ELSE s
              IN  stack' = <<Frame(id, script)>> \o Meet(id, stack)
      BY <1>6
    <2>2. PICK id \in LineIds : id = IF s = Stdin THEN lines ELSE s
      BY HostFacts
    <2>3. stack' = <<Frame(id, script)>> \o Meet(id, stack)
      BY <2>1, <2>2
    <2>4. /\ msg' \in [Senders -> Messages] /\ msg'[s].at = "running"
          /\ \A t \in Senders : t # s => msg'[t] = msg[t]
      BY <1>4, <1>6
    <2>5. /\ s = Stdin => id = lines /\ id \in RelayIds /\ msg[s].line \in Lines
          /\ s # Stdin => id = s /\ id \in Ctls
          /\ id # 0
      <3>1. s = Stdin => lines > 0 /\ lines \in RelayIds /\ msg[s].line \in Lines
        BY <1>3, HostFacts DEF HostInv, Sent, RelayIds
      <3> QED
        BY <2>2, <3>1, HostFacts
    <2>6. /\ Fine(script)
          /\ msg[s].line \in Lines => Asks(script, 0, 1)
      BY LinesFine
    <2>7. script \in Seq(Ops)
      BY <2>6 DEF Fine, Sound
    <2>8. PICK f \in Frames : f = Frame(id, script) /\ f.id = id /\ f.script = script /\ f.met = {}
      <3>1. /\ Frame(id, script) \in Frames /\ Frame(id, script).id = id
            /\ Frame(id, script).script = script /\ Frame(id, script).met = {}
        BY <2>7 DEF Frame, Frames
      <3> QED
        BY <3>1, Zenon
    <2>9. PICK st : st = Meet(id, stack)
      OBVIOUS
    <2>10. /\ st \in Seq(Frames) /\ Len(st) = Len(stack) /\ DOMAIN st = DOMAIN stack
           /\ \A i \in DOMAIN stack :
                  /\ st[i] \in Frames
                  /\ st[i].id = stack[i].id /\ st[i].script = stack[i].script
                  /\ st[i].met = stack[i].met \cup ({id} \ {stack[i].id})
      BY <2>9, MeetIs
    <2>11. PICK u : u = <<f>> \o st
      OBVIOUS
    <2>12. /\ u \in Seq(Frames) /\ Len(u) = Len(st) + 1 /\ u # <<>> /\ u[1] = f
           /\ DOMAIN st = 1..Len(st) /\ DOMAIN u = 1..(Len(st) + 1) /\ Len(st) \in Nat
           /\ \A i \in 1..Len(st) : u[i + 1] = st[i]
           /\ \A i \in 1..(Len(st) + 1) : i = 1 \/ (i > 1 /\ i - 1 \in 1..Len(st) /\ u[i] = st[i - 1])
      BY <2>10, <2>11, PushIs
    <2>13. /\ stack' \in Seq(Frames) /\ stack' # <<>> /\ stack'[1] = f /\ Top' = f
           /\ Len(stack') = Len(stack) + 1 /\ Len(stack) \in Nat \ {0} /\ DOMAIN stack = 1..Len(stack)
           /\ DOMAIN stack' = 1..(Len(stack) + 1)
           /\ \A i \in DOMAIN stack' : i = 1 \/ (i > 1 /\ i - 1 \in DOMAIN stack /\ stack'[i] = st[i - 1])
      <3>1. stack' = u
        BY <2>3, <2>8, <2>9, <2>11
      <3> QED
        BY <2>10, <2>12, <3>1, HostFacts DEF Top
    <2>14. /\ \A i \in DOMAIN stack : stack[i].id # id
           /\ s = Stdin => \A i \in DOMAIN stack : stack[i].id \notin RelayIds
      <3>1. s = Stdin => \A i \in DOMAIN stack : stack[i].id \notin RelayIds
        BY <1>3 DEF HostInv, Nested
      <3>2. s # Stdin => \A i \in DOMAIN stack : stack[i].id # id
        BY <1>2, <1>3, <2>5 DEF HostInv, Nested
      <3> QED
        BY <2>5, <3>1, <3>2
    <2>15. Kinds' /\ Sent'
      <3>1. Kinds'
        BY <1>3, <2>4, <2>13 DEF HostInv, Kinds
      <3>2. Sent'
        <4>1. CASE s = Stdin
          BY <1>3, <2>4, <4>1 DEF HostInv, Sent
        <4>2. CASE s # Stdin
          BY <1>3, <2>4, <4>2, HostFacts DEF HostInv, Sent
        <4> QED
          BY <4>1, <4>2
      <3> QED
        BY <3>1, <3>2
    <2>16. Nested'
      <3>1. \A i \in DOMAIN stack :
                /\ stack[i].id = 0 <=> i = Len(stack)
                /\ stack[i].id \in RelayIds => stack[i].id = lines /\ msg'[Stdin].at = "running"
                /\ stack[i].id \in Ctls => msg'[stack[i].id].at = "running"
        <4> TAKE i \in DOMAIN stack
        <4>1. /\ stack[i].id = 0 <=> i = Len(stack)
              /\ stack[i].id \in RelayIds => stack[i].id = lines /\ msg[Stdin].at = "running"
              /\ stack[i].id \in Ctls => msg[stack[i].id].at = "running"
          BY <1>2 DEF HostInv, Nested
        <4>2. stack[i].id \in RelayIds => msg'[Stdin] = msg[Stdin]
          BY <2>4, <2>14, HostFacts
        <4>3. stack[i].id \in Ctls => msg'[stack[i].id] = msg[stack[i].id] \/ msg'[stack[i].id].at = "running"
          BY <2>4, HostFacts
        <4> QED
          BY <4>1, <4>2, <4>3
      <3>2. \A i \in DOMAIN stack' :
                /\ stack'[i].id = 0 <=> i = Len(stack')
                /\ stack'[i].id \in RelayIds => stack'[i].id = lines' /\ msg'[Stdin].at = "running"
                /\ stack'[i].id \in Ctls /\ run' = "up" => msg'[stack'[i].id].at = "running"
        <4> TAKE i \in DOMAIN stack'
        <4>1. CASE i = 1
          <5>1. stack'[i].id = id /\ id # 0 /\ i # Len(stack')
            BY <2>5, <2>8, <2>13, <4>1
          <5>2. id \in RelayIds => s = Stdin
            BY <2>5, HostFacts
          <5>3. id \in Ctls => s = id
            BY <2>5, HostFacts
          <5> QED
            BY <1>3, <2>4, <2>5, <5>1, <5>2, <5>3
        <4>2. CASE i > 1 /\ i - 1 \in DOMAIN stack /\ stack'[i] = st[i - 1]
          <5>1. PICK j \in DOMAIN stack : j = i - 1
            BY <4>2
          <5>2. stack'[i].id = stack[j].id
            BY <2>10, <4>2, <5>1
          <5>3. i = Len(stack') <=> j = Len(stack)
            BY <2>13, <5>1
          <5> QED
            BY <1>3, <3>1, <5>2, <5>3
        <4> QED
          BY <2>13, <4>1, <4>2
      <3>3. \A i, j \in DOMAIN stack' : i < j => stack'[i].id # stack'[j].id /\ stack'[i].id \in stack'[j].met
        <4> TAKE i, j \in DOMAIN stack'
        <4> HAVE i < j
        <4>1. PICK b \in DOMAIN stack : b = j - 1 /\ stack'[j] = st[b]
          BY <2>13
        <4>2. stack'[j].id = stack[b].id /\ stack'[j].met = stack[b].met \cup ({id} \ {stack[b].id})
          BY <2>10, <4>1
        <4>3. CASE i = 1
          BY <2>8, <2>13, <2>14, <4>2, <4>3
        <4>4. CASE i > 1
          <5>1. PICK a \in DOMAIN stack : a = i - 1 /\ stack'[i] = st[a]
            BY <2>13, <4>4
          <5>2. stack'[i].id = stack[a].id /\ a < b
            BY <2>10, <2>13, <4>1, <5>1
          <5>3. stack[a].id # stack[b].id /\ stack[a].id \in stack[b].met
            BY <5>2 DEF HostInv, Nested
          <5> QED
            BY <4>2, <5>2, <5>3
        <4> QED
          BY <2>13, <4>3, <4>4
      <3> QED
        BY <3>2, <3>3, Zenon DEF Nested
    <2>17. FrameOK(f, 0, 1, comp', queue', host'.context, msg'[Stdin].at, mode')
      <3>1. /\ Sound(script, 0) /\ Clears(script, 0) /\ Types(script, 0)
            /\ \A k \in DOMAIN script : script[k] \notin {"thread", "context"}
        BY <2>6, <2>7 DEF Fine
      <3>2. id \in RelayIds => Asks(script, 0, 1)
        BY <2>5, <2>6, HostFacts
      <3> QED
        BY <2>5, <2>8, <3>1, <3>2 DEF FrameOK
    <2>18. ASSUME NEW i \in DOMAIN stack, FrameOK(stack[i], 0, 1, comp, queue, host.context, msg[Stdin].at, mode)
           PROVE  FrameOK(st[i], 0, 1, comp', queue', host'.context, msg'[Stdin].at, mode')
      <3>1. PICK e \in Frames : e = stack[i]
        BY HostFacts
      <3>2. PICK g \in Frames : g = st[i]
        BY <2>10
      <3>3. g.id = e.id /\ g.script = e.script /\ g.met = e.met \cup ({id} \ {e.id})
        BY <2>10, <3>1, <3>2
      <3>4. Fresh(e, comp) => Fresh(g, comp)
        BY <3>3 DEF Fresh
      <3>5. HoldsOwn(e, comp, queue, host.context) => HoldsOwn(g, comp, queue, host.context)
        BY <3>3 DEF HoldsOwn
      <3>6. msg[Stdin].at = "none" => msg'[Stdin].at = "none"
        BY <1>3, <2>4, HostFacts
      <3>7. FrameOK(e, 0, 1, comp, queue, host.context, msg[Stdin].at, mode)
        BY <2>18, <3>1
      <3>8. FrameOK(g, 0, 1, comp, queue, host.context, msg'[Stdin].at, mode)
        BY <3>3, <3>4, <3>5, <3>6, <3>7, FrameGrows
      <3> QED
        BY <1>3, <3>2, <3>8
    <2>19. Outer'
      <3>1. SUFFICES ASSUME NEW i \in DOMAIN stack', i > 1
                     PROVE  FrameOK(stack'[i], 0, 1, comp', queue', host'.context, msg'[Stdin].at, mode')
        BY DEF Outer, FrameIs
      <3>2. PICK j \in DOMAIN stack : j = i - 1 /\ stack'[i] = st[j]
        BY <2>13, <3>1
      <3>3. FrameOK(stack[j], 0, 1, comp, queue, host.context, msg[Stdin].at, mode)
        <4>1. CASE j = 1
          BY <1>2, <4>1, HostFacts DEF Plain, Inner, FrameIs
        <4>2. CASE j > 1
          BY <4>2 DEF HostInv, Outer, FrameIs
        <4> QED
          BY <2>13, <4>1, <4>2
      <3> QED
        BY <2>18, <3>2, <3>3
    <2>20. Entered'
      <3>1. FrameIs(Top, 0, 1)'
        BY <2>13, <2>17 DEF FrameIs
      <3>2. ~Tears(Top.script, 0)'
        BY DEF Tears
      <3>3. Inner(0)'
        BY <1>3, <3>1, <3>2 DEF Inner
      <3> QED
        BY <3>3 DEF Entered
    <2>21. Captured' /\ Clean' /\ Unfaulted'
      BY <1>2, <1>3 DEF HostInv, Captured, Clean, Unfaulted
    <2>22. Acknowledged'
      <3>1. s = Stdin => msg[Stdin].at = "sent"
        BY <1>3
      <3>2. s # Stdin => msg'[Stdin] = msg[Stdin]
        BY <2>4, HostFacts
      <3> QED
        BY <1>3, <3>1, <3>2 DEF HostInv, Acknowledged
    <2>23. Whole'
      <3>1. CtlBlock' <=> CtlBlock
        BY <1>3 DEF CtlBlock
      <3>2. 0 \notin RelayIds
        BY HostFacts
      <3>3. Blocks => Blocks'
        BY <1>3, <3>2 DEF Blocks
      <3>4. ASSUME Awaited PROVE Awaited'
        <4>1. s # Stdin => msg'[Stdin] = msg[Stdin]
          BY <2>4, HostFacts
        <4>2. /\ msg'[Stdin].at = "read" => LastIs("READY", lines)'
              /\ msg'[Stdin].at = "sent" => LastIs("READY", lines - 1)'
          BY <1>3, <2>4, <3>4, <4>1 DEF Awaited, LastIs
        <4>3. ASSUME NEW i \in DOMAIN stack', stack'[i].id \in RelayIds, Arms(stack'[i].script)
              PROVE  LastIs("READY", lines - 1)
          <5>1. CASE i = 1
            <6>1. s = Stdin
              BY <2>5, <2>8, <2>13, <4>3, <5>1, HostFacts
            <6> QED
              BY <1>3, <3>4, <6>1 DEF Awaited
          <5>2. CASE i > 1
            <6>1. PICK j \in DOMAIN stack : j = i - 1 /\ stack'[i] = st[j]
              BY <2>13, <5>2
            <6>2. stack[j].id \in RelayIds /\ Arms(stack[j].script)
              BY <2>10, <4>3, <6>1
            <6> QED
              BY <1>3, <3>4, <6>2 DEF Awaited
          <5> QED
            BY <2>13, <5>1, <5>2
        <4>4. \A i \in DOMAIN stack' : stack'[i].id \in RelayIds /\ Arms(stack'[i].script) => LastIs("READY", lines - 1)'
          BY <1>3, <4>3 DEF LastIs
        <4>5. armed' \notin RelayIds
          BY <1>3, <3>2
        <4> QED
          BY <4>2, <4>4, <4>5 DEF Awaited
      <3> QED
        BY <3>1, <3>3, <3>4 DEF HostInv, Whole
    <2> QED
      BY <2>15, <2>16, <2>19, <2>20, <2>21, <2>22, <2>23 DEF HostInv
  <1> QED
    BY <1>5, <1>6 DEF DispatchMessage

LEMMA ReturnStep == ASSUME HostInv, Return PROVE HostInv'
  <1>1. Plain
    BY PlainHere DEF Return
  <1>2. /\ run = "up" /\ Top.id # 0 /\ stack' = Tail(stack)
        /\ msg' = [msg EXCEPT ![IF Top.id \in Ctls THEN Top.id ELSE Stdin].at = "done"]
        /\ UNCHANGED <<mode, run, host, comp, queue, cap, armed, guard, lines, out>>
        /\ armed = 0 /\ guard = 0
    BY <1>1 DEF Return, textVars, guardVars, Plain
  <1>3. PICK s \in Senders : s = IF Top.id \in Ctls THEN Top.id ELSE Stdin
    BY HostFacts
  <1>4. PICK m \in Messages : m = [msg[s] EXCEPT !.at = "done"] /\ m.at = "done"
    <2>1. msg[s] \in Messages
      BY HostFacts
    <2>2. [msg[s] EXCEPT !.at = "done"] \in Messages /\ [msg[s] EXCEPT !.at = "done"].at = "done"
      BY <2>1 DEF Messages
    <2> QED
      BY <2>2, Zenon
  <1>5. /\ msg' \in [Senders -> Messages] /\ msg'[s].at = "done"
        /\ \A t \in Senders : t # s => msg'[t] = msg[t]
    <2>1. msg' = [msg EXCEPT ![s] = m]
      BY <1>2, <1>3, <1>4
    <2> QED
      BY <1>4, <2>1, HostFacts, MessageIs
  <1>6. /\ Top = stack[1] /\ Len(stack) \in Nat /\ Len(stack) > 1 /\ DOMAIN stack = 1..Len(stack)
        /\ Top.id \in RelayIds \/ Top.id \in Ctls
    <2>1. Top = stack[1] /\ Len(stack) \in Nat \ {0} /\ DOMAIN stack = 1..Len(stack) /\ 1 \in DOMAIN stack
      BY HostFacts
    <2>2. Len(stack) # 1
      BY <1>2, <2>1 DEF HostInv, Nested
    <2> QED
      BY <1>2, <2>1, <2>2, HostFacts
  <1>7. /\ stack' \in Seq(Frames) /\ Len(stack') = Len(stack) - 1 /\ stack' # <<>>
        /\ DOMAIN stack' = 1..(Len(stack) - 1)
        /\ \A i \in DOMAIN stack' : i + 1 \in DOMAIN stack /\ i + 1 > 1 /\ stack'[i] = stack[i + 1]
        /\ Top' = stack'[1] /\ 1 \in DOMAIN stack'
    <2>1. /\ stack' \in Seq(Frames) /\ Len(stack') = Len(stack) - 1
          /\ \A i \in 1..Len(stack') : stack'[i] = stack[i + 1]
      <3>1. stack \in Seq(Frames) /\ stack # <<>>
        BY DEF HostInv, Kinds
      <3>2. PICK u : u = Tail(stack)
        OBVIOUS
      <3>3. /\ u \in Seq(Frames) /\ Len(u) = Len(stack) - 1
            /\ \A i \in 1..Len(u) : u[i] = stack[i + 1]
        BY <3>1, <3>2, HeadTailProperties
      <3> QED
        BY <1>2, <3>2, <3>3
    <2>2. stack' # <<>> /\ DOMAIN stack' = 1..(Len(stack) - 1) /\ 1 \in DOMAIN stack'
      BY <1>6, <2>1
    <2> QED
      BY <1>6, <2>1, <2>2 DEF Top
  <1>8. \A i \in DOMAIN stack : i > 1 =>
            /\ stack[i].id # Top.id
            /\ s = Stdin => stack[i].id \notin RelayIds
    <2> TAKE i \in DOMAIN stack
    <2> HAVE i > 1
    <2>1. stack[1].id # stack[i].id /\ 1 \in DOMAIN stack
      BY <1>6 DEF HostInv, Nested
    <2>2. s = Stdin => Top.id \in RelayIds
      BY <1>3, <1>6, HostFacts
    <2>3. Top.id \in RelayIds /\ stack[i].id \in RelayIds => stack[i].id = Top.id
      BY <1>6, <2>1 DEF HostInv, Nested
    <2> QED
      BY <1>6, <2>1, <2>2, <2>3
  <1>9. s = Stdin => msg[Stdin].at = "running"
    <2>1. s = Stdin => Top.id \in RelayIds
      BY <1>3, <1>6, HostFacts
    <2> QED
      BY <1>6, <2>1 DEF HostInv, Nested
  <1>10. Kinds' /\ Sent'
    <2>1. Kinds'
      BY <1>2, <1>5, <1>7 DEF HostInv, Kinds
    <2>2. s # Stdin => msg'[Stdin] = msg[Stdin]
      BY <1>5, HostFacts
    <2>3. Sent'
      BY <1>2, <1>5, <1>9, <2>2 DEF HostInv, Sent
    <2> QED
      BY <2>1, <2>3
  <1>11. Nested'
    <2>1. ASSUME NEW i \in DOMAIN stack, i > 1
          PROVE  /\ stack[i].id = 0 <=> i = Len(stack)
                 /\ stack[i].id \in RelayIds => stack[i].id = lines /\ msg'[Stdin].at = "running"
                 /\ stack[i].id \in Ctls => msg'[stack[i].id].at = "running"
      <3>1. /\ stack[i].id = 0 <=> i = Len(stack)
            /\ stack[i].id \in RelayIds => stack[i].id = lines /\ msg[Stdin].at = "running"
            /\ stack[i].id \in Ctls => msg[stack[i].id].at = "running"
        BY <1>2, <2>1 DEF HostInv, Nested
      <3>2. stack[i].id \in RelayIds => msg'[Stdin] = msg[Stdin]
        BY <1>5, <1>8, <2>1, HostFacts
      <3>3. stack[i].id \in Ctls => msg'[stack[i].id] = msg[stack[i].id]
        <4>1. s \in Ctls => s = Top.id
          BY <1>3, HostFacts
        <4>2. stack[i].id \in Ctls => stack[i].id # s
          BY <1>3, <1>8, <2>1, <4>1, HostFacts
        <4> QED
          BY <1>5, <4>2, HostFacts
      <3> QED
        BY <3>1, <3>2, <3>3
    <2>2. \A i \in DOMAIN stack' :
              /\ stack'[i].id = 0 <=> i = Len(stack')
              /\ stack'[i].id \in RelayIds => stack'[i].id = lines' /\ msg'[Stdin].at = "running"
              /\ stack'[i].id \in Ctls /\ run' = "up" => msg'[stack'[i].id].at = "running"
      <3> TAKE i \in DOMAIN stack'
      <3>1. PICK j \in DOMAIN stack : j = i + 1 /\ j > 1 /\ stack'[i] = stack[j]
        BY <1>7
      <3>2. j = Len(stack) <=> i = Len(stack')
        BY <1>6, <1>7, <3>1
      <3> QED
        BY <1>2, <2>1, <3>1, <3>2
    <2>3. \A i, j \in DOMAIN stack' : i < j => stack'[i].id # stack'[j].id /\ stack'[i].id \in stack'[j].met
      <3> TAKE i, j \in DOMAIN stack'
      <3> HAVE i < j
      <3>1. PICK a \in DOMAIN stack : a = i + 1 /\ stack'[i] = stack[a]
        BY <1>7
      <3>2. PICK b \in DOMAIN stack : b = j + 1 /\ stack'[j] = stack[b]
        BY <1>7
      <3>3. a < b
        BY <1>7, <3>1, <3>2
      <3> QED
        BY <3>1, <3>2, <3>3 DEF HostInv, Nested
    <2> QED
      BY <2>2, <2>3, Zenon DEF Nested
  <1>12. ASSUME NEW i \in DOMAIN stack'
         PROVE  FrameOK(stack'[i], 0, 1, comp', queue', host'.context, msg'[Stdin].at, mode')
    <2>1. PICK j \in DOMAIN stack : j = i + 1 /\ j > 1 /\ stack'[i] = stack[j]
      BY <1>7
    <2>2. FrameOK(stack[j], 0, 1, comp, queue, host.context, msg[Stdin].at, mode)
      BY <2>1 DEF HostInv, Outer, FrameIs
    <2>3. msg[Stdin].at = "none" => msg'[Stdin].at = "none"
      BY <1>5, <1>9, HostFacts
    <2>4. FrameOK(stack[j], 0, 1, comp, queue, host.context, msg'[Stdin].at, mode)
      BY <2>2, <2>3, FrameGrows
    <2> QED
      BY <1>2, <2>1, <2>4
  <1>13. Outer'
    BY <1>12 DEF Outer, FrameIs
  <1>14. Entered'
    <2>1. FrameIs(Top, 0, 1)'
      BY <1>7, <1>12 DEF FrameIs
    <2>2. ~Tears(Top.script, 0)'
      BY DEF Tears
    <2>3. Inner(0)'
      BY <1>2, <2>1, <2>2 DEF Inner
    <2> QED
      BY <2>3 DEF Entered
  <1>15. Captured' /\ Clean' /\ Unfaulted'
    BY <1>2 DEF HostInv, Captured, Clean, Unfaulted
  <1>a. s # Stdin => msg'[Stdin] = msg[Stdin]
    BY <1>5, HostFacts
  <1>16. Acknowledged'
    BY <1>2, <1>5, <1>a DEF HostInv, Acknowledged
  <1>17. Whole'
    <2>1. CtlBlock' <=> CtlBlock
      BY <1>2 DEF CtlBlock
    <2>2. 0 \notin RelayIds
      BY HostFacts
    <2>3. Blocks => Blocks'
      BY <1>2, <2>2 DEF Blocks
    <2>4. ASSUME Awaited PROVE Awaited'
      <3>1. /\ msg'[Stdin].at = "read" => LastIs("READY", lines)'
            /\ msg'[Stdin].at = "sent" => LastIs("READY", lines - 1)'
        BY <1>2, <1>5, <1>a, <2>4 DEF Awaited, LastIs
      <3>2. ASSUME NEW i \in DOMAIN stack', stack'[i].id \in RelayIds, Arms(stack'[i].script)
            PROVE  LastIs("READY", lines - 1)'
        <4>1. PICK j \in DOMAIN stack : j = i + 1 /\ stack'[i] = stack[j]
          BY <1>7
        <4>2. LastIs("READY", lines - 1)
          BY <1>2, <2>4, <3>2, <4>1 DEF Awaited
        <4> QED
          BY <1>2, <4>2 DEF LastIs
      <3>3. armed' \notin RelayIds
        BY <1>2, <2>2
      <3> QED
        BY <3>1, <3>2, <3>3 DEF Awaited
    <2> QED
      BY <2>1, <2>3, <2>4 DEF HostInv, Whole
  <1> QED
    BY <1>10, <1>11, <1>13, <1>14, <1>15, <1>16, <1>17 DEF HostInv
-----------------------------------------------------------------------------
\* Before main's first step.
LEMMA HostInits == HostInit => HostInv
  <1> SUFFICES ASSUME HostInit PROVE HostInv
    OBVIOUS
  <1>1. PICK s \in MainScripts(mode) : stack = <<Frame(0, s)>>
    BY DEF HostInit
  <1>2. Sound(s, 0) /\ Clears(s, 0) /\ Types(s, 0) /\ MainOK(s, mode)
    BY <1>1, MainFine
  <1>3. s \in Seq(Ops)
    BY <1>2 DEF Sound
  <1>4. MaxLines \in Nat /\ Ctls \subseteq Nat \ (0..MaxLines)
    BY TipHostAssumption
  <1>5. 0 \in LineIds /\ 0 \notin RelayIds /\ 0 \notin Ctls /\ Stdin \in Senders
    BY <1>4 DEF LineIds, RelayIds, Senders, Stdin
  <1>6. PICK f \in Frames : f = Frame(0, s) /\ f.id = 0 /\ f.script = s
    <2>1. Frame(0, s) \in Frames /\ Frame(0, s).id = 0 /\ Frame(0, s).script = s
      BY <1>3, <1>5 DEF Frame, Frames
    <2> QED
      BY <2>1, Zenon
  <1>7. /\ stack \in Seq(Frames) /\ Len(stack) = 1 /\ stack # <<>> /\ stack[1] = f /\ DOMAIN stack = {1} /\ Top = f
    BY <1>1, <1>6 DEF Top
  <1>8. \A t \in Senders : msg[t] = [at |-> IF t = Stdin THEN "none" ELSE "idle", line |-> <<>>]
    BY DEF HostInit
  <1>9. msg \in [Senders -> Messages] /\ msg[Stdin].at = "none"
    <2>1. \A t \in Senders : [at |-> IF t = Stdin THEN "none" ELSE "idle", line |-> <<>>] \in Messages
      <3> TAKE t \in Senders
      <3>1. PICK a \in {"none", "idle"} : a = IF t = Stdin THEN "none" ELSE "idle"
        OBVIOUS
      <3>2. [at |-> a, line |-> <<>>] \in Messages
        BY DEF Messages
      <3> QED
        BY <3>1, <3>2
    <2>2. msg[Stdin].at = "none"
      <3>1. PICK a \in {"none", "idle"} : a = IF Stdin = Stdin THEN "none" ELSE "idle"
        OBVIOUS
      <3>2. msg[Stdin] = [at |-> IF Stdin = Stdin THEN "none" ELSE "idle", line |-> <<>>]
        BY <1>5, <1>8, Zenon
      <3>3. msg[Stdin] = [at |-> a, line |-> <<>>] /\ a = "none"
        BY <3>1, <3>2
      <3> QED
        BY <3>3
    <2>3. msg = [t \in Senders |-> [at |-> IF t = Stdin THEN "none" ELSE "idle", line |-> <<>>]]
      BY DEF HostInit
    <2> QED
      BY <2>1, <2>2, <2>3
  <1>10. /\ mode \in Modes /\ run = "up" /\ comp = {} /\ queue = <<>> /\ cap = {} /\ armed = 0 /\ guard = 0
         /\ lines = 0 /\ out = <<>>
         /\ host \in Globals
    BY DEF HostInit, Globals
  <1>11. Kinds
    BY <1>4, <1>5, <1>7, <1>9, <1>10 DEF Kinds, Globals
  <1>12. Sent
    BY <1>9, <1>10 DEF Sent
  <1>13. Nested
    BY <1>5, <1>6, <1>7 DEF Nested
  <1>14. FrameOK(f, 0, 1, comp, queue, host.context, msg[Stdin].at, mode)
    BY <1>2, <1>5, <1>6, <1>9 DEF FrameOK
  <1>15. Entered
    <2>1. ~Tears(Top.script, 0)
      BY DEF Tears
    <2>2. Inner(0)
      BY <1>7, <1>10, <1>14, <2>1 DEF Inner, FrameIs
    <2> QED
      BY <2>2 DEF Entered
  <1>16. Outer
    BY <1>7 DEF Outer
  <1>17. Captured /\ Clean /\ Acknowledged /\ Unfaulted
    BY <1>10 DEF Captured, Clean, Acknowledged, Unfaulted
  <1>18. Whole
    BY <1>5, <1>6, <1>7, <1>9, <1>10 DEF Whole, Blocks, Awaited
  <1> QED
    BY <1>11, <1>12, <1>13, <1>15, <1>16, <1>17, <1>18 DEF HostInv

\* One step of the host, of the thread that reads, or of AtCtl.
LEMMA HostSteps == HostInv /\ [HostNext]_hostVars => HostInv'
  <1> SUFFICES ASSUME HostInv, [HostNext]_hostVars PROVE HostInv'
    OBVIOUS
  <1>1. CASE Main
    BY <1>1, ResetStep, LetterStep, KeyStep, PumpEndsStep, DispatchKeyStep, DispatchMessageStep, ReturnStep, QuitStep,
       ArmStep, DisarmStep, ReadTextStep, BeginStep, EndStep, SearchStep, SessionStep, ProbeStep, SearchProbeStep,
       TeardownStep, ExitStep, WindowStep, ThreadMgrStep, ContextStep, TipStep, ManualTipStep, ThreadStep, ReleaseStep
       DEF Main
  <1>2. CASE StdinReady
    BY <1>2, StdinReadyStep
  <1>3. CASE StdinEnd
    BY <1>3, StdinEndStep
  <1>4. CASE \E l \in Lines : StdinRead(l)
    BY <1>4, StdinReadStep
  <1>5. CASE \E c \in Ctls : CtlReturn(c) \/ \E l \in CtlLines : CtlSend(c, l)
    BY <1>5, CtlReturnStep, CtlSendStep
  <1>6. CASE UNCHANGED hostVars
    <2>1. Top' = Top
      BY <1>6 DEF hostVars, Top
    <2>2. msg[Stdin].at = "none" => msg'[Stdin].at = "none"
      BY <1>6 DEF hostVars
    <2>3. Entered' /\ Outer' /\ Captured' /\ Unfaulted'
      BY <1>6, <2>2, FramesStay DEF hostVars
    <2> QED
      BY <1>6, <2>1, <2>3 DEF hostVars, HostInv, Kinds, Sent, Nested, Clean, Acknowledged, Whole, CtlBlock, Blocks,
         Awaited, LastIs
  <1> QED
    BY <1>1, <1>2, <1>3, <1>4, <1>5, <1>6 DEF HostNext

\* The invariant holds in every state.
LEMMA HostAlways == HostSpec => []HostInv
  BY HostInits, HostSteps, PTL DEF HostSpec
-----------------------------------------------------------------------------
\* What the invariant says of the properties.
LEMMA HostProperties == HostInv => HostConsistent /\ NoResidue /\ SurvivesTeardown /\ Stream
  <1> SUFFICES ASSUME HostInv PROVE HostConsistent /\ NoResidue /\ SurvivesTeardown /\ Stream
    OBVIOUS
  <1>1. HostTypeOK
    <2>1. \A i, j \in DOMAIN stack : i # j => stack[i].id # stack[j].id
      <3> TAKE i, j \in DOMAIN stack
      <3>1. i \in Nat /\ j \in Nat
        BY HostFacts
      <3> QED
        BY <3>1 DEF HostInv, Nested
    <2>2. stack # <<>> /\ stack[Len(stack)].id = 0
      BY HostFacts DEF HostInv, Nested
    <2>3. \A s \in Senders : msg[s].at \in {"none", "idle", "ready", "read", "sent", "running", "done", "gone"}
      BY HostFacts DEF Messages
    <2>4. /\ mode \in Modes /\ run \in {"up", "exit", "fault", "null"}
          /\ comp \cup cap \cup {armed, guard} \subseteq LineIds
      BY DEF HostInv, Kinds
    <2> QED
      BY <2>1, <2>2, <2>3, <2>4 DEF HostTypeOK
  <1>2. PICK n \in 0..4 : Inner(n)
    BY DEF HostInv, Entered
  <1>3. ArmedAlone
    BY <1>2 DEF Inner, ArmedAlone
  <1>4. GuardOwned
    <2>1. SUFFICES ASSUME guard # 0 PROVE Top.id = guard /\ \E i \in DOMAIN Top.script : Top.script[i] = "teardown"
      BY DEF GuardOwned
    <2>2. guard = Top.id /\ Tears(Top.script, n)
      BY <1>2, <2>1 DEF Inner
    <2>3. n <= Len(Top.script)
      BY <1>2 DEF Inner, FrameIs, FrameOK, Sound
    <2> QED
      BY <2>2, <2>3, HostFacts DEF Tears
  <1>5. NoResidue
    BY DEF HostInv, Clean, NoResidue, RelayIds
  <1>6. SurvivesTeardown
    BY DEF HostInv, Unfaulted, SurvivesTeardown
  <1>7. ASSUME NEW i \in DOMAIN out, out[i].tag = "READY"
        PROVE  /\ \A j \in DOMAIN stack : stack[j].id \notin 1..out[i].id
               /\ ~(msg[Stdin].at \in {"sent", "running"} /\ lines = out[i].id)
    <2>1. out[i].id <= lines /\ (out[i].id = lines => msg[Stdin].at \notin {"sent", "running"})
      BY <1>7 DEF HostInv, Acknowledged
    <2>2. out[i].id \in Nat
      <3>1. out[i] \in Entries
        BY DEF HostInv, Kinds
      <3> QED
        BY <3>1, HostFacts DEF Entries
    <2>3. ASSUME NEW j \in DOMAIN stack, stack[j].id \in 1..out[i].id PROVE FALSE
      <3>1. stack[j].id \in RelayIds
        BY <2>1, <2>2, <2>3, HostFacts DEF RelayIds
      <3>2. stack[j].id = lines /\ msg[Stdin].at = "running"
        BY <3>1 DEF HostInv, Nested
      <3>3. out[i].id = lines
        BY <2>1, <2>2, <2>3, <3>2, HostFacts
      <3> QED
        BY <2>1, <3>2, <3>3
    <2> QED
      BY <2>1, <2>3
  <1>8. ASSUME ~CtlBlock, NEW i \in DOMAIN out
        PROVE  /\ out[i].tag = "END" => i > 1 /\ out[i - 1].tag = "BEGIN"
               /\ out[i].tag = "BEGIN" =>
                      /\ i > 1 /\ out[i - 1].tag = "READY" /\ out[i - 1].id = out[i].id - 1
                      /\ i < Len(out) => out[i + 1].tag = "END"
                      /\ i = Len(out) => run = "up"
    BY <1>8 DEF HostInv, Whole, Blocks
  <1>9. Stream
    BY <1>7, <1>8 DEF Stream
  <1> QED
    BY <1>1, <1>3, <1>4, <1>5, <1>6, <1>9 DEF HostConsistent

\* Commands nest as the code relies on (AtTipLoad.c: g_daemon_cap_active and the teardown guard
\* are globals without a stack): whoever sends, whatever nests in whatever pumps, the capture and
\* the guard belong to the innermost command.
THEOREM CommandsNest == HostSpec => []HostConsistent
  BY HostAlways, HostProperties, PTL

\* A block of the relay holds its own line's letters, and of others only those that came in between.
THEOREM NothingIsLeftOver == HostSpec => []NoResidue
  BY HostAlways, HostProperties, PTL

\* In the mode that is kept alive no fault of a teardown ends the process (candidates.c: teardown_filter).
THEOREM TeardownIsSurvived == HostSpec => []SurvivesTeardown
  BY HostAlways, HostProperties, PTL

\* What the relay reads is whole, in order, and acknowledged when done (AtTipLoad.c: runtime_stdin_thread).
THEOREM StreamIsInOrder == HostSpec => []Stream
  BY HostAlways, HostProperties, PTL
=============================================================================
