------------------------- MODULE SessionEngineProofs -------------------------
(***************************************************************************)
(* Proofs about SessionEngine: for any keys, texts, effects and patience,  *)
(* the engine, its worker and the client agree between two requests, and   *)
(* what the client sees is the composition of docs/protocol.md.            *)
(***************************************************************************)
EXTENDS SessionEngine, HarnessProcessProofs

\* The worker has the command, and its reply is awaited.
Answering == pc = "read" /\ stdin = <<>>

\* The reply to the command, computed from what the client was last shown.
Expected == IF cmd = "scommit" THEN [kind |-> "COMMIT", text |-> view.text]
            ELSE [kind |-> "PRE", text |-> Effect[cmd][view.text]]

Quiet(s) == Only(s, {Ready})

\* The command is that of the request; without a composition it is one that ends with none.
Serving ==
    /\ pc = "read" => running
    /\ pc \in {"enter", "write", "read"} => request # "start"
    /\ pc \in {"warm", "write", "read"} /\ request # "start" =>
           /\ \/ cmd = Client!CommandOf(request)
              \/ request \in Keys /\ cmd = "sreset" /\ active = "no"
           /\ active = "no" => cmd \in {"sreset", "scancel"}

\* active_ is what the client was told, until the second command of a key has run.
Told ==
    /\ view.open = "no" => view.text = NoText
    /\ \/ active = view.open
       \/ request \in Keys /\ cmd = request /\ active = "yes" /\ pc \in {"write", "read"}
    /\ pc = "warm" => active = "no"

OneCommand == stdin = <<>> \/ (pc = "read" /\ stdin = <<cmd>>)

\* The worker holds the text the client was shown, or has applied the command to it.
InStep ==
    /\ active = "yes" /\ ~Answering => comp = view.text
    /\ Answering => comp = Effect[cmd][view.text]

\* One reply at most is on its way, the expected one, and only while it is awaited.
Replies ==
    IF Answering THEN Only(Stream, {Ready, Expected}) /\ Last(Stream, {Expected}, {Ready})
                 ELSE Quiet(Stream)

IInv == TypeOK /\ ActiveOnWorker /\ Serving /\ Told /\ OneCommand /\ InStep /\ Replies

-----------------------------------------------------------------------------
(***************************************************************************)
(* Types, and the lines on their way.                                      *)
(***************************************************************************)
LEMMA TypesOfLines ==
    ASSUME TypeOK
    PROVE  Typed(AllLines) /\ worker \in Workers(AllLines)
  BY DEF TypeOK, Typed, Workers

LEMMA EffectTyped ==
    ASSUME NEW c \in Commands, NEW t \in Texts
    PROVE  /\ Effect[c][t] \in Texts
           /\ c \in {"sreset", "scancel", "scommit"} => Effect[c][t] = NoText
           /\ c = "spre" => Effect[c][t] = t
  BY EffectAssumption

LEMMA ExpectedTyped ==
    ASSUME TypeOK
    PROVE  Expected \in AllLines /\ Expected # Ready /\ Ready \in AllLines
  <1>1. view.text \in Texts /\ cmd \in Commands
    BY DEF TypeOK
  <1>2. Effect[cmd][view.text] \in Texts
    BY <1>1, EffectTyped
  <1>3. Expected \in [kind : {"PRE", "COMMIT"}, text : Texts]
    BY <1>1, <1>2 DEF Expected
  <1> QED BY <1>3, ReadyAssumption DEF AllLines

\* A request runs the command that docs/protocol.md gives it.
LEMMA CommandTyped ==
    ASSUME NEW q \in Requests
    PROVE  /\ q # "start" /\ q # "idle" /\ Client!CommandOf(q) \in Commands
           /\ q \in Keys => Client!CommandOf(q) = q /\ q \notin PlainRequests /\ q \notin PlainCommands
  <1>1. CASE q \in PlainRequests
    BY <1>1, KeyAssumption DEF PlainRequests, PlainCommands, Commands, Client!CommandOf
  <1>2. CASE q \in Keys
    BY <1>2, KeyAssumption DEF PlainRequests, PlainCommands, Commands, Client!CommandOf
  <1> QED BY <1>1, <1>2 DEF Requests

\* A new worker.
LEMMA SpawnQuiet ==
    ASSUME BeginWarm
    PROVE  /\ Quiet(Stream') /\ stdin' = <<>>
           /\ worker' \in Workers(AllLines) /\ Typed(AllLines)'
  <1>1. Ready \in AllLines
    BY DEF AllLines
  <1>2. Stream' = <<Ready>> /\ Typed(AllLines)' /\ stdin' = <<>>
    BY <1>1, SpawnStream DEF BeginWarm
  <1>3. Quiet(<<Ready>>)
    BY OnlyOne DEF Quiet
  <1> QED BY <1>2, <1>3 DEF BeginWarm, spawn, Workers, Typed

\* The worker is dropped.
LEMMA TerminateQuiet ==
    ASSUME TypeOK, terminate, UNCHANGED rbuf, Quiet(rbuf)
    PROVE  /\ Quiet(Stream') /\ stdin' = <<>> /\ proc' = "none"
           /\ worker' \in Workers(AllLines) /\ Typed(AllLines)'
  <1>1. Stream' = rbuf /\ Typed(AllLines)' /\ stdin' = <<>>
    BY TypesOfLines, TerminateStream
  <1> QED BY <1>1 DEF terminate, NoWorker, Workers, Typed

\* Outside the reading of a reply none has been read and not examined.
LEMMA QuietBuffer ==
    ASSUME IInv, ~Answering
    PROVE  Quiet(Stream) /\ Quiet(rbuf)
  <1>1. Quiet(Stream) /\ TypeOK
    BY DEF IInv, Replies
  <1>2. /\ rbuf \in Seq(AllLines) /\ stdout \o worker.todo \in Seq(AllLines)
        /\ Stream = rbuf \o (stdout \o worker.todo)
    BY <1>1, TypesOfLines, StreamTyped DEF Typed
  <1> QED BY <1>1, <1>2, OnlyConcat DEF Quiet

-----------------------------------------------------------------------------
(***************************************************************************)
(* The invariant.                                                          *)
(***************************************************************************)
LEMMA InitIInv == Init => IInv
  <1> SUFFICES ASSUME Init PROVE IInv
    OBVIOUS
  <1>1. /\ proc = "none" /\ worker = NoWorker /\ stdin = <<>> /\ stdout = <<>> /\ rbuf = <<>>
        /\ waited = 0 /\ pc = "idle" /\ request = "start" /\ cmd = "sreset" /\ active = "no"
        /\ comp = NoText /\ reply = None /\ view = Closed
    BY DEF Init, ProcessInit
  <1>2. <<>> \in Seq(AllLines) /\ <<>> \in Seq(Commands) /\ NoText \in Texts
    BY EmptySeq, EffectAssumption
  <1>3. TypeOK
    BY <1>1, <1>2, SessionPatience DEF TypeOK, NoWorker, Commands, PlainCommands, Closed
  <1>4. (<<>> \o <<>>) \o <<>> = <<>>
    BY <1>2, ConcatEmptySeq
  <1>5. Stream = <<>>
    BY <1>1, <1>4 DEF Stream, NoWorker
  <1>6. Quiet(<<>>)
    BY OnlyNothing DEF Quiet
  <1>7. ActiveOnWorker /\ Serving /\ Told /\ OneCommand /\ InStep /\ ~Answering
    BY <1>1 DEF ActiveOnWorker, Serving, Told, OneCommand, InStep, Answering, Closed
  <1> QED BY <1>3, <1>5, <1>6, <1>7 DEF IInv, Replies

\* The worker is lost and the request, if there is one, is refused: nothing of it is left.
LEMMA LostKeeps ==
    ASSUME IInv, terminate, UNCHANGED <<rbuf, waited, comp>>, Quiet(rbuf), active' = "no",
           FailRequest, request = "start" => active = "no"
    PROVE  IInv'
  <1>1. /\ Quiet(Stream') /\ stdin' = <<>> /\ proc' = "none"
        /\ worker' \in Workers(AllLines) /\ Typed(AllLines)'
    BY TerminateQuiet DEF IInv
  <1>2. /\ pc' = "idle" /\ UNCHANGED <<request, cmd>>
        /\ \/ reply' = Refused /\ view' = Closed
           \/ request = "start" /\ UNCHANGED <<reply, view>>
    BY DEF FailRequest, Return, callVars
  <1>3. TypeOK'
    BY <1>1, <1>2, EmptySeq, EffectAssumption DEF IInv, TypeOK, Typed, Workers, Closed
  <1>4. request \notin Keys \/ request # "start"
    BY KeyAssumption
  <1>5. view'.open = "no" /\ view'.text = NoText
    BY <1>2, <1>4 DEF IInv, Told, Closed
  <1> QED BY <1>1, <1>2, <1>3, <1>5 DEF IInv, ActiveOnWorker, Serving, Told, OneCommand, InStep,
             Replies, Answering

\* A request arrives, and is answered at once or given its first command.
LEMMA EnterKeeps ==
    ASSUME IInv, (\E q \in Requests : Ask(q)) \/ Enter
    PROVE  IInv'
  <1>1. /\ UNCHANGED <<proc, worker, stdin, stdout, rbuf, waited, active, comp>>
        /\ pc \in {"idle", "enter"} /\ pc' # "read" /\ pc' # "warm"
    BY DEF Ask, Enter, RunCmd, Return, processVars, loopVars
  <1>2. /\ ~Answering /\ ~Answering' /\ Stream' = Stream /\ stdin = <<>>
        /\ active = view.open /\ (view.open = "no" => view.text = NoText)
    BY <1>1 DEF IInv, Answering, Stream, OneCommand, Told
  <1>3. CASE \E q \in Requests : Ask(q)
    <2>1. PICK q \in Requests : Ask(q)
      BY <1>3
    <2>2. pc' = "enter" /\ request' = q /\ reply' = None /\ UNCHANGED <<cmd, view>> /\ q # "start"
      BY <2>1, CommandTyped DEF Ask
    <2>3. TypeOK'
      BY <1>1, <2>2 DEF IInv, TypeOK
    <2> QED BY <1>1, <1>2, <2>2, <2>3 DEF IInv, ActiveOnWorker, Serving, Told, OneCommand,
               InStep, Replies, running
  <1>4. CASE Enter
    <2>1. pc = "enter" /\ request \in Requests /\ request # "start"
      BY <1>4 DEF Enter, IInv, TypeOK, Serving
    <2>2. CASE \E c \in Commands : RunCmd(c) /\ c = cmd'
      <3>1. pc' = "write" /\ cmd' \in Commands /\ UNCHANGED <<request, reply, view>>
        BY <2>2 DEF RunCmd
      <3>2. /\ \/ cmd' = Client!CommandOf(request)
               \/ request \in Keys /\ cmd' = "sreset" /\ active = "no"
            /\ active = "no" => cmd' \in {"sreset", "scancel"}
        <4>1. CASE request \in Keys
          BY <1>4, <2>1, <3>1, <4>1, CommandTyped DEF Enter, RunCmd, Return, PlainRequests, IInv, TypeOK
        <4>2. CASE request \in PlainRequests
          <5>1. request \notin Keys
            BY <4>2, KeyAssumption
          <5> QED BY <1>4, <2>1, <3>1, <4>2, <5>1
                  DEF Enter, RunCmd, Return, Client!CommandOf, PlainRequests
        <4> QED BY <2>1, <4>1, <4>2 DEF Requests
      <3>3. TypeOK'
        BY <1>1, <3>1 DEF IInv, TypeOK
      <3> QED BY <1>1, <1>2, <2>1, <3>1, <3>2, <3>3, CommandTyped
              DEF IInv, ActiveOnWorker, Serving, Told, OneCommand, InStep, Replies, running
    <2>3. CASE pc' = "idle" /\ active = "no" /\ view' = Closed
               /\ UNCHANGED <<request, cmd>> /\ reply' \in {Refused, Ok(NoText)}
      <3>1. TypeOK'
        BY <1>1, <2>3, EffectAssumption DEF IInv, TypeOK, Closed, Ok
      <3> QED BY <1>1, <1>2, <2>3, <3>1
              DEF IInv, ActiveOnWorker, Serving, Told, OneCommand, InStep, Replies, Closed
    <2> QED BY <1>4, <2>1, <2>2, <2>3 DEF Enter, RunCmd, Return, Commands, PlainCommands, IInv, TypeOK
  <1> QED BY <1>3, <1>4

\* The bring-up: a new worker without a composition, the lines before its Ready, or a failure.
LEMMA BringUpKeeps ==
    ASSUME IInv, Start \/ Warm \/ WriteRespawn
    PROVE  IInv'
  <1>1. ASSUME BeginWarm, UNCHANGED <<cmd, reply, view>>, active = "no", pc \in {"idle", "write"},
               \/ request' = "start" /\ pc = "idle"
               \/ request' = request /\ pc = "write"
        PROVE  IInv'
    <2>1. /\ Quiet(Stream') /\ stdin' = <<>>
          /\ worker' \in Workers(AllLines) /\ Typed(AllLines)'
      BY <1>1, SpawnQuiet
    <2>2. pc' = "warm" /\ proc' = "open" /\ waited' = 0 /\ active' = "no" /\ comp' = NoText
      BY <1>1 DEF BeginWarm, spawn
    <2>3. TypeOK'
      BY <1>1, <2>1, <2>2, EmptySeq, EffectAssumption, SessionPatience
         DEF IInv, TypeOK, Typed, Workers
    <2>4. active = view.open
      BY <1>1 DEF IInv, Told
    <2> QED BY <1>1, <2>1, <2>2, <2>3, <2>4
            DEF IInv, ActiveOnWorker, Serving, Told, OneCommand, InStep, Replies, Answering
  <1>2. ~running => active = "no"
    BY DEF IInv, ActiveOnWorker, TypeOK
  <1>3. pc # "read" => ~Answering /\ Quiet(Stream) /\ Quiet(rbuf)
    BY QuietBuffer DEF Answering
  <1>4. CASE Start
    <2>1. CASE BeginWarm
      BY <1>1, <1>2, <1>4, <2>1 DEF Start
    <2>2. CASE ~BeginWarm
      <3>1. /\ terminate /\ UNCHANGED <<rbuf, waited, pc, active, comp, cmd, reply, view>>
            /\ request' = "start" /\ pc = "idle" /\ active = "no"
        BY <1>2, <1>4, <2>2 DEF Start, spawnFails, loopVars
      <3>2. /\ Quiet(Stream') /\ stdin' = <<>> /\ proc' = "none"
            /\ worker' \in Workers(AllLines) /\ Typed(AllLines)'
        BY <1>3, <3>1, TerminateQuiet DEF IInv
      <3>3. TypeOK'
        BY <3>1, <3>2, EmptySeq DEF IInv, TypeOK, Typed, Workers
      <3> QED BY <3>1, <3>2, <3>3
              DEF IInv, ActiveOnWorker, Serving, Told, OneCommand, InStep, Replies, Answering
    <2> QED BY <2>1, <2>2
  <1>5. CASE WarmLine
    <2>1. /\ rbuf # <<>> /\ rbuf' = Tail(rbuf) /\ UNCHANGED <<stdout, worker>>
          /\ UNCHANGED <<proc, stdin, waited, request, cmd, reply, view, active, comp>>
          /\ pc = "warm" /\ pc' \in {"warm", "idle", "write"} /\ (pc' = "write" => request # "start")
      BY <1>5 DEF WarmLine, processVars, callVars
    <2>2. Quiet(Stream') /\ Typed(AllLines)'
      BY <1>3, <2>1, TypesOfLines, LineRead DEF IInv, Quiet
    <2>3. TypeOK'
      BY <2>1, <2>2 DEF IInv, TypeOK, Typed, Workers
    <2> QED BY <2>1, <2>2, <2>3
            DEF IInv, ActiveOnWorker, Serving, Told, OneCommand, InStep, Replies, Answering, running
  <1>6. CASE WarmRead
    <2>1. Stream' = Stream /\ Typed(AllLines)'
      BY <1>6, TypesOfLines, ReadKeepsStream DEF WarmRead, IInv
    <2>2. /\ UNCHANGED <<proc, worker, stdin, waited, request, cmd, reply, view, pc, active, comp>>
          /\ pc = "warm"
      BY <1>6 DEF WarmRead, ReadSome, callVars
    <2>3. TypeOK'
      BY <2>1, <2>2 DEF IInv, TypeOK, Typed, Workers
    <2> QED BY <2>1, <2>2, <2>3
            DEF IInv, ActiveOnWorker, Serving, Told, OneCommand, InStep, Replies, Answering, running
  <1>7. CASE WarmNap
    <2>1. /\ UNCHANGED <<proc, worker, stdin, stdout, rbuf, request, cmd, reply, view, pc, active, comp>>
          /\ waited' = waited + 1 /\ waited + 1 < ReadyPatience /\ pc = "warm"
      BY <1>7 DEF WarmNap, processVars, callVars
    <2>2. TypeOK' /\ Stream' = Stream
      BY <2>1 DEF IInv, TypeOK, Stream
    <2> QED BY <2>1, <2>2
            DEF IInv, ActiveOnWorker, Serving, Told, OneCommand, InStep, Replies, Answering, running
  <1>8. CASE WarmFail
    <2>1. /\ terminate /\ FailRequest /\ UNCHANGED <<rbuf, waited, active, comp>> /\ pc = "warm"
      BY <1>8 DEF WarmFail, loopVars
    <2>2. active = "no"
      BY <2>1 DEF IInv, Told
    <2> QED BY <1>3, <2>1, <2>2, LostKeeps
  <1>9. CASE WriteRespawn
    <2>1. active = "no" /\ pc = "write" /\ request # "start"
      BY <1>2, <1>9 DEF WriteRespawn, IInv, Serving
    <2>2. CASE BeginWarm /\ UNCHANGED callVars
      BY <1>1, <2>1, <2>2 DEF callVars
    <2>3. CASE spawnFails /\ FailRequest /\ UNCHANGED <<loopVars, active, comp>>
      BY <1>3, <2>1, <2>3, LostKeeps DEF spawnFails, loopVars
    <2> QED BY <1>9, <2>2, <2>3 DEF WriteRespawn
  <1> QED BY <1>4, <1>5, <1>6, <1>7, <1>8, <1>9 DEF Warm

\* The command is written, or cannot be; and stop.
LEMMA WriteKeeps ==
    ASSUME IInv, Write \/ WriteBroken \/ Stop
    PROVE  IInv'
  <1>1. pc # "read" => ~Answering /\ Quiet(Stream) /\ Quiet(rbuf)
    BY QuietBuffer DEF Answering
  <1>2. CASE Write
    <2>1. /\ UNCHANGED <<proc, worker, stdout, rbuf, request, cmd, reply, view, active, comp>>
          /\ pc = "write" /\ pc' = "read" /\ waited' = 0 /\ stdin' = Append(stdin, cmd) /\ running
      BY <1>2 DEF Write, write, callVars
    <2>2. cmd \in Commands /\ stdin = <<>> /\ stdin' = <<cmd>> /\ stdin' # <<>> /\ stdin' \in Seq(Commands)
      <3>1. cmd \in Commands /\ stdin = <<>>
        BY <2>1 DEF IInv, TypeOK, OneCommand
      <3> QED BY <2>1, <3>1
    <2>3. TypeOK' /\ Stream' = Stream
      BY <2>1, <2>2, SessionPatience DEF IInv, TypeOK, Stream
    <2> QED BY <1>1, <2>1, <2>2, <2>3
            DEF IInv, ActiveOnWorker, Serving, Told, OneCommand, InStep, Replies, Answering, running
  <1>3. CASE WriteBroken
    <2>1. /\ terminate /\ FailRequest /\ UNCHANGED <<rbuf, waited, comp>> /\ active' = "no"
          /\ pc = "write" /\ request # "start"
      BY <1>3 DEF WriteBroken, loopVars, IInv, Serving
    <2> QED BY <1>1, <2>1, LostKeeps
  <1>4. CASE Stop
    <2>1. /\ terminate /\ UNCHANGED <<rbuf, waited, request, cmd, reply, pc, comp>>
          /\ active' = "no" /\ view' = Closed /\ pc = "idle"
      BY <1>4 DEF Stop, loopVars
    <2>2. /\ Quiet(Stream') /\ stdin' = <<>> /\ proc' = "none"
          /\ worker' \in Workers(AllLines) /\ Typed(AllLines)'
      BY <1>1, <2>1, TerminateQuiet DEF IInv
    <2>3. TypeOK'
      BY <2>1, <2>2, EmptySeq, EffectAssumption DEF IInv, TypeOK, Typed, Workers, Closed
    <2> QED BY <2>1, <2>2, <2>3
            DEF IInv, ActiveOnWorker, Serving, Told, OneCommand, InStep, Replies, Answering, Closed
  <1> QED BY <1>2, <1>3, <1>4

\* The line that ends a readReply is the reply to the command: what the client was shown, with
\* the command applied to it.
LEMMA RightReply ==
    ASSUME IInv, ReadLine, Wanted(Head(rbuf))
    PROVE  /\ Answering /\ Head(rbuf) = Expected
           /\ Finish(IF cmd = "scommit" THEN view.text ELSE Effect[cmd][view.text])
           /\ Quiet(Stream') /\ Typed(AllLines)'
  <1>1. /\ rbuf # <<>> /\ rbuf' = Tail(rbuf) /\ UNCHANGED <<stdout, worker>> /\ pc = "read"
        /\ Finish(Head(rbuf).text)
    BY DEF ReadLine, processVars
  <1>2. Head(rbuf) # Ready
    BY DEF Wanted
  <1>3. Typed(AllLines)
    BY TypesOfLines DEF IInv
  <1>4. Quiet(Stream) => Head(rbuf) \in {Ready}
    BY <1>1, <1>3, LineRead DEF Quiet
  <1>5. Answering /\ Only(Stream, {Ready, Expected}) /\ Last(Stream, {Expected}, {Ready})
    BY <1>2, <1>4 DEF IInv, Replies
  <1>6. Head(rbuf) \in {Ready, Expected} /\ Typed(AllLines)'
    BY <1>1, <1>3, <1>5, LineRead
  <1>7. Head(rbuf) = Expected
    BY <1>2, <1>6
  <1>8. Quiet(Stream')
    BY <1>1, <1>3, <1>5, <1>7, LineRead DEF Quiet
  <1>9. Head(rbuf).text = IF cmd = "scommit" THEN view.text ELSE Effect[cmd][view.text]
    BY <1>7 DEF Expected
  <1> QED BY <1>1, <1>5, <1>6, <1>7, <1>8, <1>9

\* The reply, up to its line or to a failure.
LEMMA ReadKeeps ==
    ASSUME IInv, ReadLine \/ ReadReply \/ ReadNap \/ ReadFail
    PROVE  IInv'
  <1>1. CASE ReadLine /\ Wanted(Head(rbuf))
    <2> DEFINE t == IF cmd = "scommit" THEN view.text ELSE Effect[cmd][view.text]
    <2>1. Answering /\ Finish(t) /\ Quiet(Stream') /\ Typed(AllLines)'
      BY <1>1, RightReply
    <2>2. UNCHANGED <<proc, worker, stdin, waited, comp>> /\ pc = "read"
      BY <1>1 DEF ReadLine, processVars
    <2>3. cmd \in Commands /\ view.text \in Texts /\ t \in Texts /\ stdin = <<>>
          /\ comp = Effect[cmd][view.text]
      BY <2>1, EffectTyped DEF IInv, TypeOK, Answering, InStep
    <2>4. /\ cmd = Client!CommandOf(request) \/ (request \in Keys /\ cmd = "sreset" /\ active = "no")
          /\ active = "no" => cmd \in {"sreset", "scancel"}
          /\ request \in Requests
      BY <2>2 DEF IInv, Serving, TypeOK
    <2>5. running /\ active' \in {"yes", "no"}
      BY <2>1, <2>2 DEF IInv, Serving, TypeOK, Finish
    <2> HIDE DEF t
    <2>6. CASE request \in Keys /\ cmd = "sreset"
      <3>1. /\ pc' = "write" /\ cmd' = request /\ active' = "yes"
            /\ UNCHANGED <<request, reply, view>>
        BY <2>1, <2>4, <2>6, CommandTyped DEF Finish, RunCmd, PlainRequests
      <3>2. active = "no" /\ view.open = "no" /\ view.text = NoText
        BY <2>2, <2>4, <2>6, CommandTyped DEF IInv, Told, PlainCommands, TypeOK
      <3>3. comp = NoText /\ cmd' \in Commands /\ cmd' = Client!CommandOf(request)
        BY <2>3, <2>4, <2>6, <3>1, <3>2, EffectTyped, CommandTyped DEF Commands
      <3>4. TypeOK'
        BY <2>1, <2>2, <3>1, <3>3 DEF IInv, TypeOK, Typed, Workers
      <3> QED BY <2>1, <2>2, <2>3, <2>4, <2>5, <2>6, <3>1, <3>2, <3>3, <3>4, CommandTyped
              DEF IInv, ActiveOnWorker, Serving, Told, OneCommand, InStep, Replies, Answering, running
    <2>7. CASE ~(request \in Keys /\ cmd = "sreset")
      <3>1. cmd = Client!CommandOf(request)
        BY <2>4, <2>7
      <3>2. active = view.open
            \/ (request \in Keys /\ cmd = request /\ active = "yes" /\ request \notin PlainRequests)
        BY <2>4, CommandTyped DEF IInv, Told
      <3>3. /\ pc' = "idle" /\ UNCHANGED <<request, cmd>>
            /\ reply' \in {Ok(t), Ok(NoText)}
            /\ \/ active' = "yes" /\ view' = [open |-> "yes", text |-> t] /\ t = comp
               \/ active' = "no" /\ view' = Closed
        <4>1. CASE request \in Keys
          BY <2>1, <2>3, <2>4, <2>7, <3>1, <4>1, CommandTyped
             DEF Finish, Return, RunCmd, PlainRequests, PlainCommands, t, IInv, TypeOK
        <4>2. CASE request \in PlainRequests
          <5>1. request \notin Keys
            BY <4>2, KeyAssumption
          <5> QED BY <2>1, <2>3, <2>4, <3>1, <4>2, <5>1
                  DEF Finish, Return, RunCmd, PlainRequests, Client!CommandOf, t, IInv, TypeOK
        <4> QED BY <2>4, <4>1, <4>2 DEF Requests
      <3>4. TypeOK'
        BY <2>1, <2>2, <2>3, <3>3, EffectAssumption DEF IInv, TypeOK, Typed, Workers, Closed, Ok
      <3> QED BY <2>1, <2>2, <2>3, <2>5, <3>3, <3>4
              DEF IInv, ActiveOnWorker, Serving, Told, OneCommand, InStep, Replies, Answering, running,
                  Closed
    <2> QED BY <2>6, <2>7
  <1>2. CASE ReadLine /\ ~Wanted(Head(rbuf))
    <2>1. /\ rbuf # <<>> /\ rbuf' = Tail(rbuf) /\ UNCHANGED <<stdout, worker>>
          /\ UNCHANGED <<proc, stdin, waited, request, cmd, reply, view, pc, active, comp>>
      BY <1>2 DEF ReadLine, processVars, callVars
    <2>2. Expected' = Expected
      BY <2>1 DEF Expected
    <2>3. Typed(AllLines)
      BY TypesOfLines DEF IInv
    <2>4. /\ Typed(AllLines)'
          /\ Quiet(Stream) => Quiet(Stream')
          /\ Only(Stream, {Ready, Expected}) => Only(Stream', {Ready, Expected})
          /\ Last(Stream, {Expected}, {Ready}) => Last(Stream', {Expected}, {Ready})
      BY <2>1, <2>3, LineRead DEF Quiet
    <2>5. TypeOK'
      BY <2>1, <2>4 DEF IInv, TypeOK, Typed, Workers
    <2>6. Replies'
      BY <2>1, <2>2, <2>4 DEF IInv, Replies, Answering
    <2> QED BY <2>1, <2>5, <2>6
            DEF IInv, ActiveOnWorker, Serving, Told, OneCommand, InStep, Answering, running
  <1>3. ASSUME UNCHANGED <<proc, worker, stdin, request, cmd, reply, view, pc, active, comp>>,
               Stream' = Stream, TypeOK'
        PROVE  IInv'
    <2>1. Expected' = Expected
      BY <1>3 DEF Expected
    <2>2. Replies'
      BY <1>3, <2>1 DEF IInv, Replies, Answering, Quiet
    <2> QED BY <1>3, <2>2
            DEF IInv, ActiveOnWorker, Serving, Told, OneCommand, InStep, Answering, running
  <1>4. CASE ReadReply
    <2>1. Stream' = Stream /\ Typed(AllLines)'
      BY <1>4, TypesOfLines, ReadKeepsStream DEF ReadReply, IInv
    <2>2. UNCHANGED <<proc, worker, stdin, waited, request, cmd, reply, view, pc, active, comp>>
      BY <1>4 DEF ReadReply, ReadSome, callVars
    <2>3. TypeOK'
      BY <2>1, <2>2 DEF IInv, TypeOK, Typed, Workers
    <2> QED BY <1>3, <2>1, <2>2, <2>3
  <1>5. CASE ReadNap
    <2>1. /\ UNCHANGED <<proc, worker, stdin, stdout, rbuf, request, cmd, reply, view, pc, active, comp>>
          /\ waited' = waited + 1 /\ waited + 1 < Patience
      BY <1>5 DEF ReadNap, processVars, callVars
    <2>2. TypeOK' /\ Stream' = Stream
      BY <2>1 DEF IInv, TypeOK, Stream
    <2> QED BY <1>3, <2>1, <2>2
  <1>6. CASE ReadFail
    <2>1. /\ terminate /\ FailRequest /\ UNCHANGED <<rbuf, waited, comp>> /\ active' = "no"
          /\ rbuf = <<>> /\ pc = "read"
      BY <1>6 DEF ReadFail, ReadEof, ReadNothing, loopVars
    <2>2. Quiet(rbuf) /\ request # "start"
      BY <2>1, OnlyNothing DEF Quiet, IInv, Serving
    <2> QED BY <2>1, <2>2, LostKeeps
  <1> QED BY <1>1, <1>2, <1>4, <1>5, <1>6

\* The worker: it takes the one command there is, prints, or dies.
LEMMA WorkerKeeps ==
    ASSUME IInv, WorkerStep
    PROVE  IInv'
  <1>1. Typed(AllLines) /\ worker \in Workers(AllLines)
    BY TypesOfLines DEF IInv
  <1>2. CASE Take
    <2>1. pc = "read" /\ stdin = <<cmd>> /\ stdin # <<>> /\ Head(stdin) = cmd
      BY <1>2 DEF Take, IInv, OneCommand
    <2>2. /\ UNCHANGED <<proc, rbuf, stdout, waited, request, cmd, reply, view, pc, active>>
          /\ stdin' = <<>> /\ comp' = Effect[cmd][comp]
      BY <1>2, <2>1 DEF Take, WorkerTake, loopVars, callVars
    <2>3. cmd \in Commands /\ comp \in Texts /\ view.text \in Texts /\ active \in {"yes", "no"}
          /\ request \in Requests \cup {"start"}
      BY DEF IInv, TypeOK
    <2>4. comp = view.text \/ (cmd \in {"sreset", "scancel"} /\ comp' = NoText)
      BY <2>1, <2>2, <2>3, EffectTyped DEF IInv, InStep, Answering, Serving
    <2>5. comp' = Effect[cmd][view.text] /\ comp' \in Texts
      BY <2>2, <2>3, <2>4, EffectTyped
    <2>6. WorkerTake(<<Expected>>)
      BY <1>2, <2>1, <2>2, <2>4, <2>5 DEF Take, Expected
    <2>7. /\ Append(<<Expected>>, Ready) \in Seq(AllLines)
          /\ Only(Append(<<Expected>>, Ready), {Ready, Expected})
          /\ Last(Append(<<Expected>>, Ready), {Expected}, {Ready})
      <3>1. Expected \in AllLines /\ Expected # Ready /\ Ready \in AllLines
        BY ExpectedTyped DEF IInv
      <3>2. ASSUME NEW x, NEW y, x # y
            PROVE  /\ Only(Append(<<x>>, y), {y, x})
                   /\ Last(Append(<<x>>, y), {x}, {y})
        BY <3>2 DEF Only, Last
      <3> HIDE DEF Expected
      <3> QED BY <3>1, <3>2
    <2>8. /\ Stream' = Stream \o Append(<<Expected>>, Ready)
          /\ Typed(AllLines)' /\ worker' \in Workers(AllLines)
      BY <1>1, <2>2, <2>6, <2>7, TakeStream
    <2>9. Quiet(Stream) /\ Stream \in Seq(AllLines)
      BY <1>1, <2>1, QuietBuffer, StreamTyped DEF Answering
    <2>10. Only(Stream', {Ready, Expected})
      <3>1. Only(Stream, {Ready, Expected})
        BY <2>9 DEF Quiet, Only
      <3> QED BY <2>7, <2>8, <2>9, <3>1, OnlyConcat
    <2>11. Last(Stream', {Expected}, {Ready})
      <3>1. {Ready} \cap {Expected} = {}
        BY ExpectedTyped DEF IInv
      <3> QED BY <2>7, <2>8, <2>9, <3>1, OnlyBefore DEF Quiet
    <2>12. Expected' = Expected
      BY <2>2 DEF Expected
    <2>13. TypeOK'
      BY <2>2, <2>5, <2>8, EmptySeq DEF IInv, TypeOK, Typed, Workers
    <2>14. Replies' /\ InStep'
      BY <2>1, <2>2, <2>5, <2>10, <2>11, <2>12 DEF Replies, InStep, Answering
    <2> QED BY <2>1, <2>2, <2>13, <2>14 DEF IInv, ActiveOnWorker, Serving, Told, OneCommand, running
  <1>3. ASSUME UNCHANGED <<proc, stdin, rbuf, waited, request, cmd, reply, view, pc, active, comp>>,
               Typed(AllLines)', worker' \in Workers(AllLines),
               \A E, Q : (Only(Stream, Q) => Only(Stream', Q)) /\ (Last(Stream, E, Q) => Last(Stream', E, Q))
        PROVE  IInv'
    <2>1. Expected' = Expected
      BY <1>3 DEF Expected
    <2>2. TypeOK'
      BY <1>3 DEF IInv, TypeOK, Typed, Workers
    <2>3. Replies'
      BY <1>3, <2>1 DEF IInv, Replies, Answering, Quiet
    <2> QED BY <1>3, <2>2, <2>3
            DEF IInv, ActiveOnWorker, Serving, Told, OneCommand, InStep, Answering, running
  <1>4. CASE WorkerPrint /\ UNCHANGED <<loopVars, callVars, pc, active, comp>>
    <2>1. Stream' = Stream /\ Typed(AllLines)' /\ worker' \in Workers(AllLines)
      BY <1>1, <1>4, PrintKeepsStream DEF loopVars
    <2>2. UNCHANGED <<proc, stdin, rbuf, waited, request, cmd, reply, view, pc, active, comp>>
      BY <1>4 DEF WorkerPrint, loopVars, callVars
    <2> QED BY <1>3, <2>1, <2>2
  <1>5. CASE WorkerDie /\ UNCHANGED <<loopVars, callVars, pc, active, comp>>
    <2>1. UNCHANGED <<proc, stdin, rbuf, waited, request, cmd, reply, view, pc, active, comp>>
      BY <1>5 DEF WorkerDie, loopVars, callVars
    <2>2. worker' \in Workers(AllLines)
      BY <1>5, EmptySeq DEF WorkerDie, Workers
    <2>3. /\ \A E, Q : (Only(Stream, Q) => Only(Stream', Q)) /\ (Last(Stream, E, Q) => Last(Stream', E, Q))
          /\ Typed(AllLines)'
      BY <1>1, <1>5, <2>1, DieKeepsOrder
    <2> QED BY <1>3, <2>1, <2>2, <2>3
  <1> QED BY <1>2, <1>4, <1>5 DEF WorkerStep

LEMMA NextKeepsIInv == IInv /\ [Next]_vars => IInv'
  <1> SUFFICES ASSUME IInv, [Next]_vars PROVE IInv'
    OBVIOUS
  <1>1. CASE EngineStep
    BY <1>1, EnterKeeps, BringUpKeeps, WriteKeeps, ReadKeeps DEF EngineStep
  <1>2. CASE (\E q \in Requests : Ask(q)) \/ Start \/ Stop
    BY <1>2, EnterKeeps, BringUpKeeps, WriteKeeps
  <1>3. CASE WorkerStep
    BY <1>3, WorkerKeeps
  <1>4. CASE UNCHANGED vars
    <2>1. UNCHANGED <<proc, worker, stdin, stdout, rbuf, waited, request, cmd, reply, view, pc, active, comp>>
      BY <1>4 DEF vars, processVars, loopVars, callVars
    <2>2. Expected' = Expected /\ Stream' = Stream /\ TypeOK'
      BY <2>1 DEF Expected, Stream, IInv, TypeOK
    <2>3. Replies'
      BY <2>1, <2>2 DEF IInv, Replies, Answering, Quiet
    <2> QED BY <2>1, <2>2, <2>3
            DEF IInv, ActiveOnWorker, Serving, Told, OneCommand, InStep, Answering, running
  <1> QED BY <1>1, <1>2, <1>3, <1>4 DEF Next

\* Whatever the worker did to a request, between two requests engine, worker and client are of
\* one mind, and no composition is live without its worker: for any keys, any effects of the
\* commands that leave nothing behind a commit or a cancel, and any patience.
THEOREM EngineAndClientAgree == Spec => []Consistent
  <1>1. IInv => Consistent
    <2> SUFFICES ASSUME IInv PROVE Consistent
      OBVIOUS
    <2>1. TypeOK /\ ActiveOnWorker
      BY DEF IInv
    <2>2. ASSUME pc = "idle" PROVE Agreement
      <3>1. ~Answering /\ Quiet(Stream) /\ stdin = <<>> /\ active = view.open
        BY <2>2, QuietBuffer DEF Answering, IInv, OneCommand, Told
      <3> QED BY <3>1 DEF Agreement, Quiet, Only, IInv, InStep
    <2> QED BY <2>1, <2>2 DEF Consistent, Agreement
  <1> QED BY <1>1, InitIInv, NextKeepsIInv, PTL DEF Spec

-----------------------------------------------------------------------------
(***************************************************************************)
(* The composition of docs/protocol.md.                                    *)
(***************************************************************************)

\* A failure is told, or there was no request to fail.
LEMMA FailureIsTold ==
    ASSUME FailRequest, pc # "idle", request \in Requests \cup {"start"}
    PROVE  [Client!Next]_(Client!vars)
  <1>1. CASE request = "start"
    BY <1>1 DEF FailRequest, callVars, Client!vars
  <1>2. CASE request # "start"
    <2>1. pc' = "idle" /\ reply' = Refused /\ view' = Closed /\ UNCHANGED request
      BY <1>2 DEF FailRequest, Return
    <2>2. request # "idle"
      BY <1>2, CommandTyped
    <2> QED BY <1>2, <2>1, <2>2 DEF Closed, Refused, Client!Refused, Client!Fail, Client!Answer, Client!Next
  <1> QED BY <1>1, <1>2

\* What the engine does between the client's request and its answer is hidden.
LEMMA HiddenSteps ==
    ASSUME UNCHANGED <<request, reply, view>>, pc = "idle" <=> pc' = "idle"
    PROVE  UNCHANGED Client!vars
  BY DEF Client!vars

\* A request is asked, and answered: at once, or when its command is done.
LEMMA AskMaps ==
    ASSUME NEW q \in Requests, Ask(q)
    PROVE  Client!Ask(q)
  <1>1. q # "start"
    BY CommandTyped
  <1> QED BY <1>1 DEF Ask, None, Client!None, Client!Ask

LEMMA EnterMaps ==
    ASSUME IInv, Enter
    PROVE  [Client!Next]_(Client!vars)
  <1>1. pc = "enter" /\ request \in Requests /\ request # "start" /\ request # "idle" /\ active = view.open
    BY CommandTyped DEF Enter, IInv, TypeOK, Serving, Told
  <1>2. CASE pc' = "write" /\ UNCHANGED <<request, reply, view>>
    BY <1>1, <1>2, HiddenSteps
  <1>3. CASE ~(pc' = "write" /\ UNCHANGED <<request, reply, view>>)
    <2>1. /\ pc' = "idle" /\ UNCHANGED request /\ view' = Closed /\ active = "no"
          /\ \/ request \in {"backspace", "preedit", "commit", "cancel"} /\ reply' = Ok(NoText)
             \/ request = "convert" /\ reply' = Refused
      BY <1>3 DEF Enter, RunCmd, Return
    <2>2. view.open = "no" /\ view.text = NoText
      BY <1>1, <2>1 DEF IInv, Told
    <2> QED BY <1>1, <2>1, <2>2
            DEF Closed, Ok, Refused, Client!Ok, Client!Refused, Client!Edit, Client!Commit, Client!Cancel,
                Client!Fail, Client!Answer, Client!Next
  <1> QED BY <1>2, <1>3

LEMMA FinishMaps ==
    ASSUME IInv, ReadLine
    PROVE  [Client!Next]_(Client!vars)
  <1> DEFINE t == IF cmd = "scommit" THEN view.text ELSE Effect[cmd][view.text]
  <1>1. CASE ~Wanted(Head(rbuf))
    BY <1>1, HiddenSteps DEF ReadLine, callVars
  <1>2. CASE Wanted(Head(rbuf))
    <2>1. Finish(t)
      BY <1>2, RightReply
    <2>2. /\ pc = "read" /\ request \in Requests /\ request # "start" /\ request # "idle"
          /\ cmd = Client!CommandOf(request) \/ (request \in Keys /\ cmd = "sreset" /\ active = "no")
          /\ active = "no" => cmd \in {"sreset", "scancel"}
          /\ active \in {"yes", "no"} /\ view.text \in Texts /\ cmd \in Commands
      BY CommandTyped DEF ReadLine, IInv, TypeOK, Serving
    <2>3. CASE request \in Keys /\ cmd = "sreset"
      <3>1. pc' = "write" /\ UNCHANGED <<request, reply, view>>
        BY <2>1, <2>2, <2>3, CommandTyped DEF Finish, RunCmd, PlainRequests
      <3> QED BY <2>2, <3>1, HiddenSteps
    <2>4. CASE request \in Keys /\ cmd # "sreset"
      <3>1. /\ pc' = "idle" /\ UNCHANGED request /\ cmd = request
            /\ reply' = Ok(t) /\ view' = [open |-> "yes", text |-> t]
        BY <2>1, <2>2, <2>4, CommandTyped DEF Finish, Return, PlainRequests
      <3>2. t = Effect[request][view.text]
        BY <2>2, <2>4, <3>1, CommandTyped DEF PlainCommands
      <3> HIDE DEF t
      <3> QED BY <2>2, <2>4, <3>1, <3>2 DEF Ok, Client!Ok, Client!Key, Client!Answer, Client!Next
    <2>5. CASE request \notin Keys
      <3>1. cmd = Client!CommandOf(request) /\ request \in PlainRequests
        BY <2>2, <2>5 DEF Requests
      <3>2. active = view.open
        BY <2>5 DEF IInv, Told
      <3>3. CASE request = "begin"
        <4>1. t = NoText
          BY <2>2, <3>1, <3>3, EffectTyped DEF Client!CommandOf
        <4>2. pc' = "idle" /\ UNCHANGED request /\ reply' = Ok(t) /\ view' = [open |-> "yes", text |-> t]
          BY <2>1, <2>5, <3>3 DEF Finish, Return
        <4> HIDE DEF t
        <4> QED BY <2>2, <3>3, <4>1, <4>2 DEF Ok, Client!Ok, Client!Begin, Client!Answer, Client!Next
      <3>4. CASE request \in {"backspace", "preedit", "convert"}
        <4>1. cmd \in {"sback", "spre", "sconv"} /\ (request = "convert" => cmd = "sconv")
          BY <3>1, <3>4 DEF Client!CommandOf
        <4>2. view.open = "yes" /\ t = Effect[Client!CommandOf(request)][view.text]
          BY <2>2, <3>1, <3>2, <4>1
        <4>3. pc' = "idle" /\ UNCHANGED request /\ reply' = Ok(t) /\ view' = [open |-> "yes", text |-> t]
          BY <2>1, <2>5, <3>4 DEF Finish, Return
        <4>4. request = "convert" => Client!CommandOf(request) = "sconv"
          BY <3>1, <4>1
        <4> HIDE DEF t
        <4>5. CASE request = "convert"
          BY <2>2, <4>2, <4>3, <4>4, <4>5 DEF Ok, Client!Ok, Client!Convert, Client!Answer, Client!Next
        <4>6. CASE request # "convert"
          BY <2>2, <3>4, <4>2, <4>3, <4>6 DEF Ok, Client!Ok, Client!Edit, Client!Answer, Client!Next
        <4> QED BY <4>5, <4>6
      <3>5. CASE request = "commit"
        <4>1. cmd = "scommit" /\ t = view.text
          BY <3>1, <3>5 DEF Client!CommandOf
        <4>2. pc' = "idle" /\ UNCHANGED request /\ reply' = Ok(t) /\ view' = Closed
          BY <2>1, <2>5, <3>5 DEF Finish, Return
        <4> HIDE DEF t
        <4> QED BY <2>2, <3>5, <4>1, <4>2 DEF Closed, Ok, Client!Ok, Client!Commit, Client!Answer, Client!Next
      <3>6. CASE request = "cancel"
        <4>1. pc' = "idle" /\ UNCHANGED request /\ reply' = Ok(NoText) /\ view' = Closed
          BY <2>1, <2>5, <3>6 DEF Finish, Return
        <4> QED BY <2>2, <3>6, <4>1 DEF Closed, Ok, Client!Ok, Client!Cancel, Client!Answer, Client!Next
      <3> QED BY <3>1, <3>3, <3>4, <3>5, <3>6 DEF PlainRequests
    <2> QED BY <2>3, <2>4, <2>5
  <1> QED BY <1>1, <1>2

LEMMA StepMaps == IInv /\ [Next]_vars => [Client!Next]_(Client!vars)
  <1> SUFFICES ASSUME IInv, [Next]_vars PROVE [Client!Next]_(Client!vars)
    OBVIOUS
  <1>1. CASE \E q \in Requests : Ask(q)
    <2>1. PICK q \in Requests : Ask(q)
      BY <1>1
    <2>2. q \in Client!Requests
      BY DEF Requests, PlainRequests, Client!Requests
    <2> QED BY <2>1, <2>2, AskMaps DEF Client!Next
  <1>2. CASE Enter
    BY <1>2, EnterMaps
  <1>3. CASE ReadLine
    BY <1>3, FinishMaps
  <1>4. CASE WarmFail \/ WriteBroken \/ ReadFail \/ (WriteRespawn /\ FailRequest)
    BY <1>4, FailureIsTold DEF WarmFail, WriteBroken, ReadFail, WriteRespawn, IInv, TypeOK
  <1>5. CASE Start
    BY <1>5 DEF Start, BeginWarm, Client!vars
  <1>6. CASE Stop
    <2>1. pc = "idle" /\ UNCHANGED <<request, reply, pc>> /\ view' = Closed
      BY <1>6 DEF Stop
    <2> QED BY <2>1 DEF Closed, Client!Stop, Client!Next
  <1>7. CASE WarmLine
    <2>1. pc = "warm" /\ UNCHANGED <<request, reply, view>>
          /\ (pc' = "idle" => request = "start")
      BY <1>7 DEF WarmLine, callVars
    <2> QED BY <2>1 DEF Client!vars
  <1>8. CASE \/ WarmRead \/ WarmNap \/ Write \/ ReadReply \/ ReadNap \/ WorkerStep
             \/ WriteRespawn /\ ~FailRequest
    <2>1. UNCHANGED <<request, reply, view>> /\ (pc = "idle" <=> pc' = "idle")
      BY <1>8 DEF WarmRead, WarmNap, Write, ReadReply, ReadNap, WorkerStep, Take, WriteRespawn,
                  BeginWarm, callVars
    <2> QED BY <2>1, HiddenSteps
  <1>9. CASE UNCHANGED vars
    BY <1>9 DEF vars, callVars, Client!vars
  <1> QED BY <1>1, <1>2, <1>3, <1>4, <1>5, <1>6, <1>7, <1>8, <1>9 DEF Next, EngineStep, Warm

\* docs/protocol.md, "Session": whatever the worker does, every success is the request applied
\* to the text last shown, and a lost composition is reported; respawns, second commands,
\* chunks, deaths and time-outs are hidden.
THEOREM EngineIsAComposition == Spec => Implements
  <1>1. Init => Client!Init
    BY DEF Init, Closed, None, Client!None, Client!Init
  <1> QED BY <1>1, InitIInv, NextKeepsIInv, StepMaps, PTL DEF Spec, Implements, Client!Spec
=============================================================================
