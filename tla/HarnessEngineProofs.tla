------------------------- MODULE HarnessEngineProofs -------------------------
(***************************************************************************)
(* Proofs about HarnessEngine: for any commands, answers and patience, no  *)
(* call leaves anything of its answer to the next one, and the engine is a *)
(* ConversionService.                                                      *)
(***************************************************************************)
EXTENDS HarnessEngine, HarnessProcessProofs, WellFoundedInduction

\* The lines that belong to no block, and those that end one.
Strays == {line \in AllLines : Stray(line)}
Ends   == {line \in AllLines : line # Ready /\ line.kind = "END"}

Quiet(s)    == Only(s, Strays)
EndsOnce(s) == Last(s, Ends, Strays)

\* A line of a block is on its way only while the answer it belongs to is read, and not while
\* the command is still in the pipe.
Awaited == Quiet(Stream) \/ (pc = "read" /\ stdin = <<>>)

\* There is one command at most in the pipe, and only while its answer is read.
OneCommand ==
    /\ stdin = <<>> \/ \E c \in Commands : stdin = <<c>>
    /\ pc # "read" => stdin = <<>>

\* What is written is a command.
CommandKnown == pc = "write" => cmd \in Commands

IInv == TypeOK /\ CommandKnown /\ OneCommand /\ Awaited /\ EndsOnce(Stream)

-----------------------------------------------------------------------------
(***************************************************************************)
(* Types, and the lines on their way.                                      *)
(***************************************************************************)
LEMMA LineSets == Ready \in AllLines /\ Ready \in Strays /\ Strays \cap Ends = {}
  BY DEF AllLines, Strays, Ends, Stray

LEMMA TypesOfLines ==
    ASSUME TypeOK
    PROVE  Typed(AllLines) /\ worker \in Workers(AllLines)
  BY DEF TypeOK, Typed, Workers

\* A line changes a result into a result.
LEMMA ParseTyped ==
    ASSUME NEW o \in Outs, NEW line \in AllLines, line # Ready
    PROVE  Parse(o, line) \in Outs
  <1>1. line \in [kind : Kinds, of : Commands]
    BY DEF AllLines
  <1>2. Empty \in Outs
    BY EmptySeq DEF Empty, Outs
  <1>3. Append(o.candidates, line.of) \in Seq(Commands) /\ Append(o.ex, line.of) \in Seq(Commands)
    BY <1>1, AppendProperties DEF Outs
  <1> QED BY <1>1, <1>2, <1>3 DEF Parse, Outs, Kinds

\* What a worker prints for a command: lines of that command, nothing of a block after its
\* end, and Ready.
LEMMA AnswerTyped ==
    ASSUME NEW c \in Commands, NEW kinds \in Answers[c]
    PROVE  /\ Append(Lines(c, kinds), Ready) \in Seq(AllLines)
           /\ EndsOnce(Append(Lines(c, kinds), Ready))
  <1> DEFINE l == Lines(c, kinds)
             a == Append(l, Ready)
  <1>1. kinds \in Seq(Kinds) /\ \A i, j \in DOMAIN kinds : i < j /\ kinds[i] = "END" => kinds[j] = "MS"
    BY AnswersAssumption
  <1>2. Len(kinds) \in Nat /\ DOMAIN kinds = 1..Len(kinds) /\ \A i \in 1..Len(kinds) : kinds[i] \in Kinds
    BY <1>1, LenProperties, ElementOfSeq
  <1>3. /\ \A i \in 1..Len(kinds) : l[i] = [kind |-> kinds[i], of |-> c]
        /\ l \in [1..Len(kinds) -> AllLines]
    BY <1>2 DEF Lines, AllLines
  <1>4. l \in Seq(AllLines) /\ Len(l) = Len(kinds)
    BY <1>2, <1>3, LenProperties, SeqDef
  <1>5. Ready \in AllLines
    BY DEF AllLines
  <1>6. /\ a \in Seq(AllLines) /\ Len(a) = Len(l) + 1
        /\ \A i \in 1..Len(l) : a[i] = l[i]
        /\ a[Len(l) + 1] = Ready
    BY <1>4, <1>5, AppendProperties
  <1>7. DOMAIN a = 1..Len(kinds) + 1
    BY <1>4, <1>6, LenProperties
  <1>8. ASSUME NEW i \in DOMAIN a, NEW j \in DOMAIN a, i < j, a[i] \in Ends PROVE Stray(a[j])
    <2>1. CASE j = Len(kinds) + 1
      BY <1>4, <1>6, <2>1 DEF Stray
    <2>2. CASE j # Len(kinds) + 1
      <3>1. i \in DOMAIN kinds /\ j \in DOMAIN kinds
        BY <1>2, <1>7, <1>8, <2>2
      <3>2. a[i].kind = kinds[i] /\ a[j].kind = kinds[j]
        BY <1>2, <1>3, <1>4, <1>6, <3>1
      <3> QED BY <1>1, <1>8, <3>1, <3>2 DEF Stray, Ends
    <2> QED BY <2>1, <2>2
  <1>9. \A j \in DOMAIN a : a[j] \in AllLines
    BY <1>6, ElementOfSeq, LenProperties
  <1> QED BY <1>6, <1>8, <1>9 DEF EndsOnce, Last, Strays

\* A new worker.
LEMMA SpawnQuiet ==
    ASSUME BeginWarm
    PROVE  /\ Quiet(Stream') /\ EndsOnce(Stream') /\ stdin' = <<>>
           /\ worker' \in Workers(AllLines) /\ Typed(AllLines)'
  <1>1. Stream' = <<Ready>> /\ Typed(AllLines)' /\ stdin' = <<>>
    BY LineSets, SpawnStream DEF BeginWarm
  <1>2. Quiet(<<Ready>>) /\ EndsOnce(<<Ready>>)
    BY LineSets, OnlyOne, OnlyLast DEF Quiet, EndsOnce
  <1> QED BY <1>1, <1>2 DEF BeginWarm, spawn, Workers, Typed

\* The worker is dropped.
LEMMA TerminateQuiet ==
    ASSUME TypeOK, terminate, UNCHANGED rbuf, Quiet(rbuf)
    PROVE  /\ Quiet(Stream') /\ EndsOnce(Stream') /\ stdin' = <<>>
           /\ worker' \in Workers(AllLines) /\ Typed(AllLines)'
  <1>1. Stream' = rbuf /\ Typed(AllLines)' /\ stdin' = <<>>
    BY TypesOfLines, TerminateStream
  <1>2. EndsOnce(rbuf)
    BY OnlyLast DEF Quiet, EndsOnce
  <1> QED BY <1>1, <1>2 DEF terminate, NoWorker, Workers, Typed

\* Outside the reading of an answer nothing of a block has been read and not examined.
LEMMA QuietBuffer ==
    ASSUME TypeOK, Awaited, pc # "read"
    PROVE  Quiet(Stream) /\ Quiet(rbuf)
  <1>1. Quiet(Stream)
    BY DEF Awaited
  <1>2. /\ rbuf \in Seq(AllLines) /\ stdout \o worker.todo \in Seq(AllLines)
        /\ Stream = rbuf \o (stdout \o worker.todo)
    BY TypesOfLines, StreamTyped DEF Typed
  <1> QED BY <1>1, <1>2, OnlyConcat DEF Quiet

-----------------------------------------------------------------------------
(***************************************************************************)
(* The invariant.                                                          *)
(***************************************************************************)
LEMMA InitIInv == Init => IInv
  <1> SUFFICES ASSUME Init PROVE IInv
    OBVIOUS
  <1>1. /\ proc = "none" /\ worker = NoWorker /\ stdin = <<>> /\ stdout = <<>> /\ rbuf = <<>>
        /\ waited = 0 /\ pc = "off" /\ cmd = NoCommand /\ attempt = 0 /\ out = Empty
        /\ result = Pending /\ ran = 0
    BY DEF Init, ProcessInit
  <1>2. Empty \in Outs /\ <<>> \in Seq(AllLines) /\ <<>> \in Seq(Commands)
    BY EmptySeq DEF Empty, Outs
  <1>3. TypeOK
    BY <1>1, <1>2 DEF TypeOK, NoWorker
  <1>4. (<<>> \o <<>>) \o <<>> = <<>>
    BY <1>2, ConcatEmptySeq
  <1>5. Stream = <<>>
    BY <1>1, <1>4 DEF Stream, NoWorker
  <1>6. Quiet(<<>>) /\ EndsOnce(<<>>)
    BY OnlyNothing DEF Quiet, EndsOnce
  <1> QED BY <1>1, <1>3, <1>5, <1>6 DEF IInv, CommandKnown, OneCommand, Awaited

\* The bring-up: a new worker, the lines before its Ready, or a failure.
LEMMA BringUpKeeps ==
    ASSUME IInv, Start \/ Warm \/ WriteRespawn
    PROVE  IInv'
  <1> USE DEF IInv
  <1>1. ASSUME BeginWarm, UNCHANGED <<callVars, ran>> PROVE IInv'
    <2>1. /\ Quiet(Stream') /\ EndsOnce(Stream') /\ stdin' = <<>>
          /\ worker' \in Workers(AllLines) /\ Typed(AllLines)'
      BY <1>1, SpawnQuiet
    <2>2. pc' = "warm" /\ proc' = "open" /\ waited' = 0
      BY <1>1 DEF BeginWarm, spawn
    <2>3. TypeOK'
      BY <1>1, <2>1, <2>2, EmptySeq DEF TypeOK, Typed, Workers, callVars
    <2> QED BY <2>1, <2>2, <2>3 DEF CommandKnown, OneCommand, Awaited
  <1>2. ASSUME pc # "read", Quiet(rbuf), terminate, UNCHANGED <<loopVars, ran>>,
               \/ pc' = "exited" /\ UNCHANGED callVars
               \/ Return("fail", out)
        PROVE  IInv'
    <2>1. UNCHANGED rbuf
      BY <1>2 DEF loopVars
    <2>2. /\ Quiet(Stream') /\ EndsOnce(Stream') /\ stdin' = <<>>
          /\ worker' \in Workers(AllLines) /\ Typed(AllLines)'
      BY <1>2, <2>1, TerminateQuiet
    <2>3. pc' \in {"exited", "idle"} /\ proc' = "none" /\ UNCHANGED <<cmd, attempt, out>>
      BY <1>2 DEF Return, terminate, callVars
    <2>4. result' \in {Pending} \cup [outcome : {"ok", "fail"}, out : Outs]
      BY <1>2 DEF Return, callVars, TypeOK
    <2>5. TypeOK'
      BY <1>2, <2>2, <2>3, <2>4, EmptySeq DEF TypeOK, Typed, Workers, loopVars
    <2> QED BY <2>2, <2>3, <2>5 DEF CommandKnown, OneCommand, Awaited
  <1>3. pc # "read" => Quiet(rbuf)
    BY QuietBuffer
  <1>4. CASE Start
    BY <1>1, <1>2, <1>3, <1>4 DEF Start, spawnFails
  <1>5. CASE WarmLine
    <2>1. /\ rbuf # <<>> /\ rbuf' = Tail(rbuf) /\ UNCHANGED <<stdout, worker>>
          /\ UNCHANGED <<proc, stdin, waited, cmd, attempt, out, result, ran>>
          /\ pc = "warm" /\ pc' \in {"warm", "idle", "write"} /\ (pc' = "write" => cmd # NoCommand)
      BY <1>5 DEF WarmLine, processVars, callVars
    <2>2. Quiet(Stream') /\ EndsOnce(Stream') /\ Typed(AllLines)'
      BY <2>1, TypesOfLines, LineRead DEF Awaited, Quiet, EndsOnce
    <2>3. TypeOK'
      BY <2>1, <2>2 DEF TypeOK, Typed, Workers
    <2> QED BY <2>1, <2>2, <2>3 DEF CommandKnown, OneCommand, Awaited, TypeOK
  <1>6. CASE WarmRead
    <2>1. Stream' = Stream /\ Typed(AllLines)'
      BY <1>6, TypesOfLines, ReadKeepsStream DEF WarmRead
    <2>2. pc = "warm" /\ UNCHANGED <<proc, worker, stdin, waited, cmd, attempt, out, result, pc, ran>>
      BY <1>6 DEF WarmRead, ReadSome, callVars
    <2>3. TypeOK'
      BY <2>1, <2>2 DEF TypeOK, Typed, Workers
    <2> QED BY <2>1, <2>2, <2>3 DEF CommandKnown, OneCommand, Awaited
  <1>7. CASE WarmNap
    <2>1. /\ UNCHANGED <<proc, worker, stdin, stdout, rbuf, cmd, attempt, out, result, pc, ran>>
          /\ waited' = waited + 1
      BY <1>7 DEF WarmNap, processVars, callVars
    <2>2. TypeOK' /\ Stream' = Stream
      BY <2>1 DEF TypeOK, Stream
    <2> QED BY <2>1, <2>2 DEF CommandKnown, OneCommand, Awaited
  <1>8. CASE WarmFail
    BY <1>2, <1>3, <1>8 DEF WarmFail
  <1>9. CASE WriteRespawn
    BY <1>1, <1>2, <1>3, <1>9 DEF WriteRespawn, spawnFails
  <1> QED BY <1>4, <1>5, <1>6, <1>7, <1>8, <1>9 DEF Warm

\* A call up to its command in the pipe, and stop.
LEMMA CallKeeps ==
    ASSUME IInv, (\E c \in Commands : Call(c)) \/ Write \/ WriteBroken \/ Stop
    PROVE  IInv'
  <1> USE DEF IInv
  <1>1. pc # "read" => Quiet(Stream) /\ Quiet(rbuf)
    BY QuietBuffer
  <1>2. ASSUME NEW c \in Commands, Call(c) PROVE IInv'
    <2>1. /\ UNCHANGED <<proc, worker, stdin, stdout, rbuf, waited>>
          /\ pc = "idle" /\ pc' = "write" /\ cmd' = c /\ attempt' = 0 /\ out' = Empty
          /\ result' = Pending /\ ran' = 0
      BY <1>2 DEF Call, processVars, loopVars
    <2>2. Empty \in Outs
      BY EmptySeq DEF Empty, Outs
    <2>3. TypeOK' /\ Stream' = Stream
      BY <2>1, <2>2 DEF TypeOK, Stream
    <2> QED BY <1>1, <2>1, <2>3 DEF CommandKnown, OneCommand, Awaited
  <1>3. CASE Write
    <2>1. /\ UNCHANGED <<proc, worker, stdout, rbuf, cmd, attempt, out, result, ran>>
          /\ pc = "write" /\ pc' = "read" /\ waited' = 0 /\ stdin' = Append(stdin, cmd)
      BY <1>3 DEF Write, write, callVars
    <2>2. cmd \in Commands /\ stdin = <<>>
      BY <2>1 DEF CommandKnown, OneCommand
    <2>3. stdin' = <<cmd>> /\ stdin' \in Seq(Commands)
      BY <2>1, <2>2
    <2>4. TypeOK' /\ Stream' = Stream
      BY <2>1, <2>3 DEF TypeOK, Stream
    <2>5. Quiet(Stream')
      BY <1>1, <2>1, <2>4
    <2>6. \E c \in Commands : stdin' = <<c>>
      BY <2>2, <2>3
    <2> QED BY <2>1, <2>4, <2>5, <2>6, <2>2 DEF CommandKnown, OneCommand, Awaited
  <1>4. CASE WriteBroken \/ Stop
    <2>1. pc \in {"write", "idle"} /\ terminate /\ UNCHANGED <<rbuf, waited, ran>>
      BY <1>4 DEF WriteBroken, Stop, loopVars
    <2>2. /\ Quiet(Stream') /\ EndsOnce(Stream') /\ stdin' = <<>>
          /\ worker' \in Workers(AllLines) /\ Typed(AllLines)'
      BY <1>1, <2>1, TerminateQuiet
    <2>3. /\ pc' \in {"write", "idle"} /\ (pc' = "write" => pc = "write")
          /\ UNCHANGED <<cmd, out>> /\ attempt' \in {0, 1}
          /\ result' \in {Pending} \cup [outcome : {"ok", "fail"}, out : Outs]
      <3>1. CASE WriteBroken
        BY <3>1 DEF WriteBroken, Return, TypeOK
      <3>2. CASE Stop
        BY <3>2 DEF Stop, callVars, TypeOK
      <3> QED BY <1>4, <3>1, <3>2
    <2>4. proc' = "none"
      BY <2>1 DEF terminate
    <2>5. TypeOK'
      BY <2>1, <2>2, <2>3, <2>4, EmptySeq DEF TypeOK, Typed, Workers
    <2> QED BY <2>1, <2>2, <2>3, <2>5 DEF CommandKnown, OneCommand, Awaited
  <1> QED BY <1>2, <1>3, <1>4

\* The lines of an answer, up to its end or to a failure.
LEMMA ReadKeeps ==
    ASSUME IInv, ReadLine \/ ReadBlock \/ ReadNap \/ ReadFail
    PROVE  IInv'
  <1> USE DEF IInv
  <1>1. CASE ReadLine
    <2>1. /\ rbuf # <<>> /\ rbuf' = Tail(rbuf) /\ UNCHANGED <<stdout, worker>>
          /\ UNCHANGED <<proc, stdin, waited, ran>> /\ pc = "read"
      BY <1>1 DEF ReadLine, processVars
    <2>2. /\ Head(rbuf) \in AllLines /\ Typed(AllLines)'
          /\ Quiet(Stream) => Head(rbuf) \in Strays /\ Quiet(Stream')
          /\ EndsOnce(Stream')
          /\ Head(rbuf) \in Ends => Quiet(Stream')
      BY <2>1, TypesOfLines, LineRead DEF Quiet, EndsOnce
    <2>3. CASE Head(rbuf) \in Ends
      <3>1. /\ pc' = "idle" /\ result' = [outcome |-> "ok", out |-> out]
            /\ UNCHANGED <<cmd, attempt, out>>
        BY <1>1, <2>3 DEF ReadLine, Return, Ends
      <3>2. stdin = <<>>
        BY <2>2, <2>3, LineSets DEF Awaited
      <3>3. TypeOK'
        BY <2>1, <2>2, <3>1 DEF TypeOK, Typed, Workers
      <3> QED BY <2>1, <2>2, <2>3, <3>1, <3>2, <3>3 DEF CommandKnown, OneCommand, Awaited
    <2>4. CASE Head(rbuf) \notin Ends
      <3>1. UNCHANGED <<pc, cmd, attempt, result>>
            /\ (out' = out \/ (Head(rbuf) # Ready /\ out' = Parse(out, Head(rbuf))))
        BY <1>1, <2>2, <2>4 DEF ReadLine, callVars, Ends
      <3>2. out' \in Outs
        BY <2>2, <3>1, ParseTyped DEF TypeOK
      <3>3. TypeOK'
        BY <2>1, <2>2, <3>1, <3>2 DEF TypeOK, Typed, Workers
      <3> QED BY <2>1, <2>2, <3>1, <3>3 DEF CommandKnown, OneCommand, Awaited
    <2> QED BY <2>3, <2>4
  <1>2. CASE ReadBlock
    <2>1. Stream' = Stream /\ Typed(AllLines)'
      BY <1>2, TypesOfLines, ReadKeepsStream DEF ReadBlock
    <2>2. UNCHANGED <<proc, worker, stdin, waited, cmd, attempt, out, result, pc, ran>>
      BY <1>2 DEF ReadBlock, ReadSome, callVars
    <2>3. TypeOK'
      BY <2>1, <2>2 DEF TypeOK, Typed, Workers
    <2> QED BY <2>1, <2>2, <2>3 DEF CommandKnown, OneCommand, Awaited
  <1>3. CASE ReadNap
    <2>1. /\ UNCHANGED <<proc, worker, stdin, stdout, rbuf, cmd, attempt, out, result, pc, ran>>
          /\ waited' = waited + 1
      BY <1>3 DEF ReadNap, processVars, callVars
    <2>2. TypeOK' /\ Stream' = Stream
      BY <2>1 DEF TypeOK, Stream
    <2> QED BY <2>1, <2>2 DEF CommandKnown, OneCommand, Awaited
  <1>4. CASE ReadFail
    <2>1. /\ rbuf = <<>> /\ terminate /\ UNCHANGED <<rbuf, waited, ran>>
          /\ pc' = "idle" /\ result' = [outcome |-> "fail", out |-> out]
          /\ UNCHANGED <<cmd, attempt, out>>
      BY <1>4 DEF ReadFail, ReadEof, ReadNothing, Return, loopVars
    <2>2. Quiet(rbuf)
      BY <2>1, OnlyNothing DEF Quiet
    <2>3. /\ Quiet(Stream') /\ EndsOnce(Stream') /\ stdin' = <<>>
          /\ worker' \in Workers(AllLines) /\ Typed(AllLines)'
      BY <2>1, <2>2, TerminateQuiet
    <2>4. proc' = "none"
      BY <2>1 DEF terminate
    <2>5. TypeOK'
      BY <2>1, <2>3, <2>4, EmptySeq DEF TypeOK, Typed, Workers
    <2> QED BY <2>1, <2>3, <2>5 DEF CommandKnown, OneCommand, Awaited
  <1> QED BY <1>1, <1>2, <1>3, <1>4

\* The worker: it takes the one command there is, prints, or dies.
LEMMA WorkerKeeps ==
    ASSUME IInv, WorkerStep
    PROVE  IInv'
  <1> USE DEF IInv
  <1>1. CASE Take
    <2>1. PICK c \in Commands : stdin = <<c>>
      BY <1>1 DEF Take, OneCommand
    <2>2. PICK kinds \in Answers[c] : WorkerTake(Lines(c, kinds))
      BY <1>1, <2>1 DEF Take
    <2>3. /\ worker.todo = <<>> /\ stdin' = <<>>
          /\ worker' = [worker EXCEPT !.todo = Append(Lines(c, kinds), Ready)]
          /\ UNCHANGED <<proc, stdout, rbuf, waited, cmd, attempt, out, result, pc>>
          /\ ran' = IF ran < 2 THEN ran + 1 ELSE ran
      <3>1. /\ worker.todo = <<>> /\ stdin' = Tail(stdin) /\ UNCHANGED <<proc, stdout>>
            /\ worker' = [worker EXCEPT !.todo = Append(Lines(c, kinds), Ready)]
        BY <2>2 DEF WorkerTake
      <3>2. /\ UNCHANGED <<rbuf, waited, cmd, attempt, out, result, pc>>
            /\ ran' = IF ran < 2 THEN ran + 1 ELSE ran
        BY <1>1 DEF Take, loopVars, callVars
      <3>3. Tail(<<c>>) = <<>>
        OBVIOUS
      <3> QED BY <2>1, <3>1, <3>2, <3>3
    <2>4. /\ Append(Lines(c, kinds), Ready) \in Seq(AllLines)
          /\ EndsOnce(Append(Lines(c, kinds), Ready))
      BY AnswerTyped
    <2>5. /\ Stream = rbuf \o stdout /\ Stream' = Stream \o Append(Lines(c, kinds), Ready)
          /\ Typed(AllLines)' /\ worker' \in Workers(AllLines)
      BY <2>2, <2>3, <2>4, TypesOfLines, TakeStream
    <2>6. ran' \in 0..2
      BY <2>3 DEF TypeOK
    <2>7. TypeOK'
      BY <2>3, <2>5, <2>6, EmptySeq DEF TypeOK, Typed, Workers
    <2>8. pc = "read" /\ Quiet(Stream)
      BY <2>1 DEF OneCommand, Awaited
    <2>9. Stream \in Seq(AllLines)
      BY TypesOfLines, StreamTyped
    <2>10. EndsOnce(Stream')
      BY <2>4, <2>5, <2>8, <2>9, LineSets, OnlyBefore DEF Quiet, EndsOnce
    <2> QED BY <2>3, <2>7, <2>8, <2>10 DEF CommandKnown, OneCommand, Awaited
  <1>2. CASE WorkerPrint /\ UNCHANGED <<loopVars, callVars, pc, ran>>
    <2>1. Stream' = Stream /\ Typed(AllLines)' /\ worker' \in Workers(AllLines)
      BY <1>2, TypesOfLines, PrintKeepsStream DEF loopVars
    <2>2. UNCHANGED <<proc, stdin, rbuf, waited, cmd, attempt, out, result, pc, ran>>
      BY <1>2 DEF WorkerPrint, loopVars, callVars
    <2>3. TypeOK'
      BY <2>1, <2>2 DEF TypeOK, Typed, Workers
    <2> QED BY <2>1, <2>2, <2>3 DEF CommandKnown, OneCommand, Awaited
  <1>3. CASE WorkerDie /\ UNCHANGED <<loopVars, callVars, pc, ran>>
    <2>1. /\ Quiet(Stream) => Quiet(Stream')
          /\ EndsOnce(Stream')
          /\ Typed(AllLines)' /\ worker' \in Workers(AllLines)
      <3>1. rbuf' = rbuf
        BY <1>3 DEF loopVars
      <3>2. worker' \in Workers(AllLines)
        BY <1>3, EmptySeq DEF WorkerDie, Workers, TypeOK
      <3> QED BY <1>3, <3>1, <3>2, TypesOfLines, DieKeepsOrder DEF Quiet, EndsOnce
    <2>2. UNCHANGED <<proc, stdin, stdout, rbuf, waited, cmd, attempt, out, result, pc, ran>>
      BY <1>3 DEF WorkerDie, loopVars, callVars
    <2>3. TypeOK'
      BY <2>1, <2>2 DEF TypeOK, Typed, Workers
    <2> QED BY <2>1, <2>2, <2>3 DEF CommandKnown, OneCommand, Awaited
  <1> QED BY <1>1, <1>2, <1>3 DEF WorkerStep

LEMMA NextKeepsIInv == IInv /\ [Next]_vars => IInv'
  <1> SUFFICES ASSUME IInv, [Next]_vars PROVE IInv'
    OBVIOUS
  <1>1. CASE Next
    <2>1. CASE EngineStep
      BY <2>1, BringUpKeeps, CallKeeps, ReadKeeps DEF EngineStep
    <2>2. CASE (\E c \in Commands : Call(c)) \/ Stop
      BY <2>2, CallKeeps
    <2>3. CASE WorkerStep
      BY <2>3, WorkerKeeps
    <2>4. CASE UNCHANGED vars
      BY <2>4 DEF vars, processVars, loopVars, callVars, IInv, TypeOK, CommandKnown, OneCommand,
                  Awaited, Stream, Quiet, EndsOnce
    <2> QED BY <1>1, <2>1, <2>2, <2>3, <2>4 DEF Next, Exited
  <1>2. CASE UNCHANGED vars
    BY <1>2 DEF vars, processVars, loopVars, callVars, IInv, TypeOK, CommandKnown, OneCommand,
                Awaited, Stream, Quiet, EndsOnce
  <1> QED BY <1>1, <1>2

\* The engine is fit for the next call whatever the worker did to the last: no command is left
\* in the pipe, no line of a block can still be read, and every variable is of its kind, for any
\* commands, any answers of one block, and any patience.
THEOREM NothingOutlivesACall == Spec => []Consistent
  <1>1. IInv => Consistent
    <2> SUFFICES ASSUME IInv PROVE Consistent
      OBVIOUS
    <2>1. pc \in {"idle", "write"} => stdin = <<>> /\ Quiet(Stream)
      BY DEF IInv, OneCommand, Awaited
    <2> QED BY <2>1 DEF IInv, Consistent, NothingLeftOver, Quiet, Only, Strays
  <1> QED BY <1>1, InitIInv, NextKeepsIInv, PTL DEF Spec
-----------------------------------------------------------------------------
(***************************************************************************)
(* Recursive functions on 0..n: that there is one, and induction along it. *)
(***************************************************************************)

\* Every set of natural numbers that has a member has a least one.
LEMMA LeastNat ==
    ASSUME NEW T, T \subseteq Nat, T # {}
    PROVE  \E n \in T : \A m \in T : n <= m
  <1>1. \E x \in T : \A y \in T : <<y, x>> \notin OpToRel(<, Nat)
    <2>1. IsWellFoundedOn(OpToRel(<, Nat), Nat)
      BY NatLessThanWellFounded
    <2> QED BY <2>1, WFMin, Zenon
  <1>2. \A x, y \in Nat : y < x => <<y, x>> \in OpToRel(<, Nat)
    BY Zenon DEF OpToRel
  <1>3. \E x \in T : \A y \in T : ~(y < x)
    BY <1>1, <1>2, Zenon
  <1> QED BY <1>3

LEMMA UpTo ==
    ASSUME NEW L \in Nat, NEW T, 0 \in T, \A n \in 1..L : n - 1 \in T => n \in T
    PROVE  0..L \subseteq T
  <1> SUFFICES ASSUME NEW k \in 0..L, k \notin T PROVE FALSE
    OBVIOUS
  <1> DEFINE B == {n \in 0..L : n \notin T}
  <1>1. B \subseteq Nat /\ B # {}
    OBVIOUS
  <1>2. PICK n \in B : \A m \in B : n <= m
    BY <1>1, LeastNat, Zenon
  <1>3. n \in 1..L /\ n - 1 \in 0..L /\ n - 1 \notin B
    BY <1>2
  <1> QED BY <1>2, <1>3

\* F[<<n, v>>] is the value at n when the one before it is v.
Computes(f, V, v0, L, F) == /\ f \in [0..L -> V]
                            /\ f[0] = v0
                            /\ \A n \in 1..L : f[n] = F[<<n, f[n-1]>>]

LEMMA RecursionExists ==
    ASSUME NEW V, NEW v0 \in V, NEW L \in Nat, NEW F \in [(1..L) \X V -> V]
    PROVE  \E f : Computes(f, V, v0, L, F)
  <1> DEFINE Is(f, m) == /\ f \in [0..m -> V] /\ f[0] = v0
                         /\ \A n \in 1..m : f[n] = F[<<n, f[n-1]>>]
             T == {m \in 0..L : \E f : Is(f, m)}
  <1>1. 0 \in T
    <2> DEFINE g == [n \in 0..0 |-> v0]
    <2>1. Is(g, 0)
      OBVIOUS
    <2>2. 0 \in 0..L
      OBVIOUS
    <2> HIDE DEF g, Is
    <2> QED BY <2>1, <2>2
  <1>2. ASSUME NEW m \in 1..L, m - 1 \in T PROVE m \in T
    <2>1. PICK f : Is(f, m - 1)
      BY <1>2
    <2> DEFINE w == F[<<m, f[m-1]>>]
               g == [n \in 0..m |-> IF n = m THEN w ELSE f[n]]
    <2>2. f[m-1] \in V /\ w \in V
      BY <2>1
    <2> HIDE DEF w
    <2>3. g \in [0..m -> V] /\ g[0] = v0
      BY <2>1, <2>2
    <2>4. \A n \in 0..m-1 : g[n] = f[n]
      OBVIOUS
    <2>5. ASSUME NEW n \in 1..m PROVE g[n] = F[<<n, g[n-1]>>]
      <3>1. g[n-1] = f[n-1]
        OBVIOUS
      <3>2. CASE n = m
        BY <3>1, <3>2 DEF w
      <3>3. CASE n # m
        BY <2>1, <3>1, <3>3
      <3> QED BY <3>2, <3>3
    <2> HIDE DEF g
    <2>6. Is(g, m)
      BY <2>3, <2>5
    <2> QED BY <2>6
  <1> HIDE DEF T
  <1>3. 0..L \subseteq T
    BY <1>1, <1>2, UpTo
  <1>4. L \in T
    BY <1>3
  <1> QED BY <1>4 DEF T, Computes
-----------------------------------------------------------------------------
(***************************************************************************)
(* The result of an answer, line by line.                                  *)
(***************************************************************************)
LEMMA LineOf ==
    ASSUME NEW c \in Commands, NEW k \in Seq(Kinds), NEW n \in 1..Len(k)
    PROVE  /\ Lines(c, k)[n] = [kind |-> k[n], of |-> c]
           /\ Lines(c, k)[n] \in AllLines /\ Lines(c, k)[n] # Ready
  <1>1. DOMAIN k = 1..Len(k) /\ k[n] \in Kinds
    OBVIOUS
  <1>2. Lines(c, k)[n] = [kind |-> k[n], of |-> c]
    BY <1>1 DEF Lines
  <1> QED BY <1>1, <1>2, AnswersAssumption DEF AllLines

\* f is the result after each number of lines.
Results(f, c, k) == /\ f \in [0..Len(k) -> Outs]
                    /\ f[0] = Empty
                    /\ \A n \in 1..Len(k) : f[n] = Parse(f[n-1], Lines(c, k)[n])

LEMMA AfterIs ==
    ASSUME NEW c \in Commands, NEW k \in Seq(Kinds)
    PROVE  \E f : Results(f, c, k) /\ After(c, k) = f[Len(k)]
  <1> DEFINE L == Len(k)
             V == Outs
             F == [q \in (1..L) \X V |-> Parse(q[2], Lines(c, k)[q[1]])]
             Body(f) == [i \in 0..Len(k) |->
                            IF i = 0 THEN Empty ELSE Parse(f[i-1], Lines(c, k)[i])]
  <1>1. F \in [(1..L) \X V -> V]
    <2>1. ASSUME NEW n \in 1..L, NEW o \in V PROVE Parse(o, Lines(c, k)[n]) \in V
      <3>1. n \in 1..Len(k)
        OBVIOUS
      <3> HIDE DEF L, F, Body
      <3>2. Lines(c, k)[n] \in AllLines /\ Lines(c, k)[n] # Ready
        BY ONLY k \in Seq(Kinds), c \in Commands, <3>1, LineOf
      <3> QED BY <3>2, ParseTyped
    <2> QED BY <2>1
  <1>2. Empty \in V /\ L \in Nat
    BY EmptySeq DEF Empty, Outs
  <1>3. \A n \in 1..L, v \in V : F[<<n, v>>] = Parse(v, Lines(c, k)[n])
    OBVIOUS
  <1> HIDE DEF F
  <1>4. PICK f \in [0..L -> V] : f[0] = Empty /\ \A n \in 1..L : f[n] = F[<<n, f[n-1]>>]
    <2> HIDE DEF V, L
    <2>1. PICK f : Computes(f, V, Empty, L, F)
      BY <1>1, <1>2, RecursionExists, Zenon
    <2> QED BY <2>1 DEF Computes
  <1>5. \A n \in 1..L : n - 1 \in 0..L /\ f[n-1] \in V
    BY <1>2
  <1>6. \A n \in 1..L : f[n] = Parse(f[n-1], Lines(c, k)[n])
    BY <1>3, <1>4, <1>5
  <1>7. f = Body(f)
    <2>1. ASSUME NEW n \in 0..L
          PROVE  f[n] = IF n = 0 THEN Empty ELSE Parse(f[n-1], Lines(c, k)[n])
      <3>1. n = 0 \/ n \in 1..L
        BY <1>2
      <3> QED BY <1>4, <1>6, <3>1
    <2> QED BY <1>4, <2>1
  <1> DEFINE u == CHOOSE g : g = Body(g)
  <1>8. u = Body(u)
    BY <1>7
  <1>9. After(c, k) = u[L]
    BY DEF After
  <1> HIDE DEF u
  <1>10. u[0] = Empty /\ \A n \in 1..L : u[n] = Parse(u[n-1], Lines(c, k)[n])
    <2>1. \A n \in 0..L : u[n] = IF n = 0 THEN Empty ELSE Parse(u[n-1], Lines(c, k)[n])
      BY <1>8
    <2> QED BY <2>1, <1>2
  <1>11. u = [n \in 0..L |-> u[n]]
    BY <1>8
  <1>12. \A n \in 0..L : u[n] \in V
    <2> DEFINE T == {n \in 0..L : u[n] \in V}
    <2>1. 0 \in T
      BY <1>2, <1>10
    <2>2. ASSUME NEW n \in 1..L, n - 1 \in T PROVE n \in T
      <3>1. Lines(c, k)[n] \in AllLines /\ Lines(c, k)[n] # Ready
        BY LineOf
      <3>2. u[n-1] \in V /\ n \in 0..L
        BY <2>2, <1>2
      <3>3. Parse(u[n-1], Lines(c, k)[n]) \in V
        BY <3>1, <3>2, ParseTyped
      <3> QED BY <1>10, <3>2, <3>3
    <2> HIDE DEF T
    <2>3. 0..L \subseteq T
      BY <2>1, <2>2, <1>2, UpTo
    <2> QED BY <2>3 DEF T
  <1>13. u \in [0..L -> V]
    BY <1>11, <1>12
  <1> QED BY <1>9, <1>10, <1>13 DEF Results

\* The result after the first n lines of an answer is the result of the answer cut there.
LEMMA AfterPrefix ==
    ASSUME NEW c \in Commands, NEW k \in Seq(Kinds), NEW f, Results(f, c, k), NEW n \in 0..Len(k)
    PROVE  After(c, SubSeq(k, 1, n)) = f[n]
  <1> DEFINE p == SubSeq(k, 1, n)
  <1>1. Len(k) \in Nat /\ n \in Nat
    OBVIOUS
  <1>2. p \in Seq(Kinds) /\ Len(p) = n /\ \A i \in 1..n : p[i] = k[i]
    OBVIOUS
  <1> HIDE DEF p
  <1>3. PICK g : Results(g, c, p) /\ After(c, p) = g[Len(p)]
    BY <1>2, AfterIs
  <1>4. \A i \in 1..n : i \in 1..Len(k) /\ Lines(c, p)[i] = Lines(c, k)[i]
    <2> SUFFICES ASSUME NEW i \in 1..n PROVE i \in 1..Len(k) /\ Lines(c, p)[i] = Lines(c, k)[i]
      OBVIOUS
    <2>1. i \in 1..Len(k) /\ i \in 1..Len(p)
      BY <1>1, <1>2
    <2>2. Lines(c, k)[i] = [kind |-> k[i], of |-> c]
      BY <2>1, LineOf
    <2>3. Lines(c, p)[i] = [kind |-> p[i], of |-> c]
      BY <1>2, <2>1, LineOf
    <2> QED BY <1>2, <2>1, <2>2, <2>3
  <1> DEFINE T == {i \in 0..n : g[i] = f[i]}
  <1>5. 0 \in T
    BY <1>1, <1>3 DEF Results
  <1>6. \A i \in 1..n : i - 1 \in T => i \in T
    BY <1>1, <1>2, <1>3, <1>4 DEF Results
  <1> HIDE DEF T
  <1>7. 0..n \subseteq T
    BY <1>1, <1>5, <1>6, UpTo
  <1>8. g[n] = f[n]
    BY <1>1, <1>7 DEF T
  <1> QED BY <1>2, <1>3, <1>8 DEF p

\* One more line, and the first none.
LEMMA AfterLine ==
    ASSUME NEW c \in Commands, NEW k \in Seq(Kinds)
    PROVE  /\ After(c, SubSeq(k, 1, 0)) = Empty
           /\ \A n \in 0..Len(k)-1 :
                 After(c, SubSeq(k, 1, n + 1))
                   = Parse(After(c, SubSeq(k, 1, n)), [kind |-> k[n+1], of |-> c])
  <1>1. PICK f : Results(f, c, k)
    BY AfterIs
  <1>2. \A n \in 0..Len(k) : After(c, SubSeq(k, 1, n)) = f[n]
    BY <1>1, AfterPrefix
  <1>3. f[0] = Empty /\ \A n \in 1..Len(k) : f[n] = Parse(f[n-1], [kind |-> k[n], of |-> c])
    BY <1>1, LineOf DEF Results
  <1>4. Len(k) \in Nat /\ 0 \in 0..Len(k)
    OBVIOUS
  <1>5. ASSUME NEW n \in 0..Len(k)-1
        PROVE  /\ n \in 0..Len(k) /\ n + 1 \in 0..Len(k)
               /\ f[n+1] = Parse(f[n], [kind |-> k[n+1], of |-> c])
    <2>1. n + 1 \in 1..Len(k) /\ (n + 1) - 1 = n
      BY <1>4
    <2>2. f[n+1] = Parse(f[(n+1)-1], [kind |-> k[n+1], of |-> c])
      BY <1>3, <2>1
    <2> QED BY <1>4, <2>1, <2>2
  <1> QED BY <1>2, <1>3, <1>4, <1>5

\* Nothing that comes after the end of a block changes its result.
LEMMA AfterEnd ==
    ASSUME NEW c \in Commands, NEW k \in Answers[c], NEW n \in 0..Len(k)-1, k[n+1] = "END"
    PROVE  After(c, k) = After(c, SubSeq(k, 1, n))
  <1>1. k \in Seq(Kinds) /\ \A i, j \in DOMAIN k : i < j /\ k[i] = "END" => k[j] = "MS"
    BY AnswersAssumption
  <1>2. Len(k) \in Nat /\ DOMAIN k = 1..Len(k) /\ n \in Nat /\ n + 1 \in 1..Len(k)
    BY <1>1
  <1>3. PICK f : Results(f, c, k) /\ After(c, k) = f[Len(k)]
    BY <1>1, AfterIs
  <1>4. \A i \in n+1..Len(k) : k[i] \in {"END", "MS"}
    BY <1>1, <1>2
  <1>5. \A o, l : l.kind \in {"END", "MS"} => Parse(o, l) = o
    BY DEF Parse
  <1> DEFINE T == {i \in 0..Len(k) : i >= n => f[i] = f[n]}
  <1>6. 0 \in T
    BY <1>2
  <1>7. ASSUME NEW i \in 1..Len(k), i - 1 \in T PROVE i \in T
    <2>1. f[i] = Parse(f[i-1], Lines(c, k)[i]) /\ Lines(c, k)[i].kind = k[i]
      <3>1. Lines(c, k)[i] = [kind |-> k[i], of |-> c]
        BY <1>1, LineOf
      <3> QED BY <1>3, <3>1 DEF Results
    <2>2. CASE i <= n
      BY <1>2, <2>2
    <2>3. CASE i > n
      <3>1. i \in n+1..Len(k) /\ i - 1 >= n
        BY <1>2, <2>3
      <3>2. f[i-1] = f[n] /\ f[i] = f[i-1]
        BY <1>4, <1>5, <1>7, <2>1, <3>1
      <3> QED BY <3>2
    <2> QED BY <1>2, <2>2, <2>3
  <1> HIDE DEF T
  <1>8. 0..Len(k) \subseteq T
    BY <1>2, <1>6, <1>7, UpTo
  <1>9. f[Len(k)] = f[n]
    BY <1>2, <1>8 DEF T
  <1>10. After(c, SubSeq(k, 1, n)) = f[n]
    BY <1>1, <1>2, <1>3, AfterPrefix
  <1> QED BY <1>3, <1>9, <1>10
-----------------------------------------------------------------------------
(***************************************************************************)
(* An engine to the session above it.                                      *)
(***************************************************************************)

\* Everything the worker prints for c when the answer is k.
Output(c, k) == Append(Lines(c, k), Ready)

\* After stray lines, perhaps, s goes on with the answer k to c where its first n lines left
\* off, and may be cut anywhere.
Continues(s, c, k, n) ==
    \E d \in Nat :
        /\ d > 0 => n = 0
        /\ \A i \in DOMAIN s : i <= d => s[i] \in Strays
        /\ \A i \in DOMAIN s : i > d =>
               /\ n + (i - d) <= Len(k) + 1
               /\ s[i] = Output(c, k)[n + (i - d)]

\* The command was not taken yet, or it was taken once and the result holds what was
\* examined of the one answer to it.
NotTaken == stdin = <<cmd>> /\ ran = 0 /\ out = Empty /\ Quiet(Stream)
Answering ==
    /\ stdin = <<>> /\ ran = 1
    /\ \E k \in Answers[cmd] : \E n \in 0..Len(k) :
           /\ out = After(cmd, SubSeq(k, 1, n))
           /\ Continues(Stream, cmd, k, n)

CallOK ==
    /\ pc = "off" => cmd = NoCommand
    /\ pc \in {"write", "read"} => cmd \in Commands
    /\ pc \in {"write", "warm"} /\ cmd # NoCommand => ran = 0 /\ out = Empty
    /\ pc = "read" => NotTaken \/ Answering

LEMMA AnswerIs ==
    ASSUME NEW c \in Commands, NEW k \in Answers[c]
    PROVE  /\ k \in Seq(Kinds) /\ Len(k) \in Nat
           /\ Output(c, k) \in Seq(AllLines) /\ Len(Output(c, k)) = Len(k) + 1
           /\ \A n \in 1..Len(k) : Output(c, k)[n] = [kind |-> k[n], of |-> c]
           /\ \A n \in 1..Len(k) : Output(c, k)[n] # Ready
           /\ Output(c, k)[Len(k) + 1] = Ready
  <1> DEFINE l == Lines(c, k)
  <1>1. k \in Seq(Kinds)
    BY AnswersAssumption
  <1>2. Len(k) \in Nat /\ DOMAIN k = 1..Len(k)
    BY <1>1
  <1>3. \A n \in 1..Len(k) : l[n] = [kind |-> k[n], of |-> c] /\ l[n] \in AllLines /\ l[n] # Ready
    BY <1>1, LineOf
  <1>4. l = [n \in 1..Len(k) |-> l[n]]
    BY <1>2 DEF Lines
  <1>5. l \in Seq(AllLines) /\ Len(l) = Len(k)
    <2> HIDE DEF l
    <2>1. l \in [1..Len(k) -> AllLines]
      BY <1>3, <1>4
    <2> QED BY <1>2, <2>1, LenProperties, SeqDef
  <1>6. Output(c, k) = Append(l, Ready) /\ Ready \in AllLines
    BY DEF Output, AllLines
  <1> HIDE DEF l
  <1>7. /\ Output(c, k) \in Seq(AllLines) /\ Len(Output(c, k)) = Len(l) + 1
        /\ \A i \in 1..Len(l) : Output(c, k)[i] = l[i]
        /\ Output(c, k)[Len(l) + 1] = Ready
    BY <1>5, <1>6, AppendProperties
  <1> QED BY <1>1, <1>2, <1>3, <1>5, <1>7

\* What is left of a cut answer: nothing, at first.
LEMMA EmptyAnswer ==
    ASSUME NEW c \in Commands, NEW k \in Answers[c]
    PROVE  After(c, SubSeq(k, 1, 0)) = Empty
  BY AnswerIs, AfterLine

\* A prefix continues the answer too.
LEMMA ContinuesPrefix ==
    ASSUME NEW c, NEW k, NEW n, NEW s, NEW t, Continues(t, c, k, n),
           DOMAIN s \subseteq DOMAIN t, \A i \in DOMAIN s : s[i] = t[i]
    PROVE  Continues(s, c, k, n)
  BY DEF Continues

\* The answer follows the strays that came before it.
LEMMA ContinuesTaken ==
    ASSUME NEW c \in Commands, NEW k \in Answers[c], NEW s \in Seq(AllLines), Quiet(s)
    PROVE  Continues(s \o Output(c, k), c, k, 0)
  <1> DEFINE o == Output(c, k)
             d == Len(s)
             t == s \o o
  <1>1. o \in Seq(AllLines) /\ Len(o) = Len(k) + 1 /\ Len(k) \in Nat
    BY AnswerIs
  <1> HIDE DEF o
  <1>2. d \in Nat /\ DOMAIN s = 1..d
    OBVIOUS
  <1>3. /\ DOMAIN t = 1..(d + Len(o))
        /\ \A i \in 1..d : t[i] = s[i]
        /\ \A i \in 1..(d + Len(o)) : i > d => t[i] = o[i - d]
    BY <1>1, <1>2
  <1> HIDE DEF d, t
  <1>4. \A i \in DOMAIN t : i <= d => t[i] \in Strays
    BY <1>2, <1>3 DEF Quiet, Only
  <1>5. \A i \in DOMAIN t : i > d => 0 + (i - d) <= Len(k) + 1 /\ t[i] = o[0 + (i - d)]
    BY <1>1, <1>2, <1>3
  <1>6. d > 0 => 0 = 0
    OBVIOUS
  <1> QED BY <1>2, <1>4, <1>5, <1>6 DEF Continues, o, t

\* The first of the lines is examined: it is a stray line and changes no result, it ends the
\* answer, or it is the next line of it.
LEMMA ContinuesNext ==
    ASSUME NEW c \in Commands, NEW k \in Answers[c], NEW n \in 0..Len(k),
           NEW s \in Seq(AllLines), NEW t \in Seq(AllLines),
           Continues(s, c, k, n), Len(s) > 0, Len(t) = Len(s) - 1,
           \A i \in 1..Len(t) : t[i] = s[i + 1]
    PROVE  \/ s[1] \in Strays /\ Continues(t, c, k, n)
           \/ /\ n < Len(k)
              /\ s[1] # Ready /\ s[1] = [kind |-> k[n+1], of |-> c]
              /\ Continues(t, c, k, n + 1)
  <1>1. /\ Len(s) \in Nat /\ DOMAIN s = 1..Len(s) /\ DOMAIN t = 1..Len(s) - 1
        /\ 1 \in DOMAIN s /\ \A i \in DOMAIN t : i + 1 \in DOMAIN s
    OBVIOUS
  <1>2. PICK d \in Nat :
           /\ d > 0 => n = 0
           /\ \A i \in DOMAIN s : i <= d => s[i] \in Strays
           /\ \A i \in DOMAIN s : i > d =>
                  /\ n + (i - d) <= Len(k) + 1
                  /\ s[i] = Output(c, k)[n + (i - d)]
    BY DEF Continues
  <1>3. Len(k) \in Nat /\ n \in Nat
    BY AnswerIs
  <1>4. CASE d > 0
    <2>1. d - 1 \in Nat /\ (d - 1 > 0 => n = 0)
      BY <1>2, <1>4
    <2>2. \A i \in DOMAIN t : i <= d - 1 => t[i] \in Strays
      BY <1>1, <1>2
    <2>3. ASSUME NEW i \in DOMAIN t, i > d - 1
          PROVE  /\ n + (i - (d - 1)) <= Len(k) + 1
                 /\ t[i] = Output(c, k)[n + (i - (d - 1))]
      <3>1. i + 1 \in DOMAIN s /\ i + 1 > d /\ t[i] = s[i + 1]
        BY <1>1, <2>3
      <3>2. n + ((i + 1) - d) = n + (i - (d - 1))
        BY <1>1, <1>3
      <3> QED BY <1>2, <3>1, <3>2
    <2>4. s[1] \in Strays
      BY <1>1, <1>2, <1>4
    <2>5. Continues(t, c, k, n)
      BY <2>1, <2>2, <2>3 DEF Continues
    <2> QED BY <2>4, <2>5
  <1>5. CASE d = 0
    <2>1. \A i \in DOMAIN s : n + i <= Len(k) + 1 /\ s[i] = Output(c, k)[n + i]
      BY <1>1, <1>2, <1>3, <1>5
    <2>2. n + 1 <= Len(k) + 1 /\ s[1] = Output(c, k)[n + 1]
      BY <1>1, <2>1
    <2>3. CASE n = Len(k)
      <3>1. s[1] \in Strays
        BY <2>2, <2>3, AnswerIs, LineSets
      <3>2. \A i \in DOMAIN t : FALSE
        BY <1>1, <1>3, <2>1, <2>3
      <3>3. Continues(t, c, k, n)
        BY <3>2 DEF Continues
      <3> QED BY <3>1, <3>3
    <2>4. CASE n < Len(k)
      <3>1. n + 1 \in 1..Len(k)
        BY <1>3, <2>4
      <3>2. s[1] # Ready /\ s[1] = [kind |-> k[n+1], of |-> c]
        BY <2>2, <3>1, AnswerIs
      <3>3. ASSUME NEW i \in DOMAIN t
            PROVE  /\ (n + 1) + (i - 0) <= Len(k) + 1
                   /\ t[i] = Output(c, k)[(n + 1) + (i - 0)]
        <4>1. i + 1 \in DOMAIN s /\ t[i] = s[i + 1] /\ n + (i + 1) = (n + 1) + (i - 0)
          <5>1. i \in Nat /\ i \in 1..Len(t) /\ i + 1 \in DOMAIN s
            BY <1>1
          <5>2. t[i] = s[i + 1]
            BY <5>1
          <5>3. n + (i + 1) = (n + 1) + (i - 0)
            BY <1>3, <5>1
          <5> QED BY <5>1, <5>2, <5>3
        <4> QED BY <2>1, <4>1
      <3>4. \A i \in DOMAIN t : ~(i <= 0)
        BY <1>1
      <3>5. Continues(t, c, k, n + 1)
        <4>1. 0 \in Nat /\ (0 > 0 => n + 1 = 0)
          OBVIOUS
        <4> QED BY <3>3, <3>4, <4>1 DEF Continues
      <3> QED BY <2>4, <3>2, <3>5
    <2> QED BY <1>3, <2>3, <2>4
  <1> QED BY <1>2, <1>4, <1>5

\* Examining a line takes it from the stream.
LEMMA StreamTail ==
    ASSUME NEW L, Typed(L), rbuf # <<>>, rbuf' = Tail(rbuf), UNCHANGED <<stdout, worker>>
    PROVE  /\ Stream \in Seq(L) /\ Stream' \in Seq(L)
           /\ Len(Stream) > 0 /\ Len(Stream') = Len(Stream) - 1
           /\ Stream[1] = Head(rbuf)
           /\ \A i \in 1..Len(Stream') : Stream'[i] = Stream[i + 1]
  <1> DEFINE t == stdout \o worker.todo
  <1>1. rbuf \in Seq(L) /\ t \in Seq(L) /\ Stream = rbuf \o t
        /\ stdout \in Seq(L) /\ worker.todo \in Seq(L)
    BY StreamTyped DEF Typed
  <1>2. Tail(rbuf) \in Seq(L)
    BY <1>1, HeadTailProperties
  <1>3. ASSUME NEW x \in Seq(L), NEW y \in Seq(L), NEW z \in Seq(L)
        PROVE  (x \o y) \o z = x \o (y \o z)
    OBVIOUS
  <1>4. (Tail(rbuf) \o stdout) \o worker.todo = Tail(rbuf) \o t
    BY <1>1, <1>2, <1>3, Zenon
  <1>5. Stream' = Tail(rbuf) \o t
    BY <1>4 DEF Stream
  <1> HIDE DEF t
  <1>6. ASSUME NEW x \in Seq(L), x # <<>>, NEW y \in Seq(L)
        PROVE  /\ x \o y \in Seq(L) /\ Tail(x) \o y \in Seq(L)
               /\ Len(x \o y) > 0 /\ Len(Tail(x) \o y) = Len(x \o y) - 1
               /\ (x \o y)[1] = Head(x)
               /\ \A i \in 1..Len(Tail(x) \o y) : (Tail(x) \o y)[i] = (x \o y)[i + 1]
    <2>1. /\ Len(x) \in Nat /\ Len(x) > 0 /\ Tail(x) \in Seq(L) /\ Len(Tail(x)) = Len(x) - 1
          /\ \A i \in 1..Len(x)-1 : Tail(x)[i] = x[i+1]
          /\ Len(y) \in Nat
      BY <1>6
    <2>2. /\ Len(x \o y) = Len(x) + Len(y) /\ x \o y \in Seq(L)
          /\ \A i \in 1..Len(x) + Len(y) :
                (x \o y)[i] = IF i <= Len(x) THEN x[i] ELSE y[i - Len(x)]
      BY ConcatProperties
    <2> DEFINE u == Tail(x)
    <2> HIDE DEF u
    <2>3. u \in Seq(L) /\ Len(u) = Len(x) - 1 /\ \A i \in 1..Len(x)-1 : u[i] = x[i+1]
      BY <2>1 DEF u
    <2>4. /\ Len(u \o y) = Len(u) + Len(y) /\ u \o y \in Seq(L)
          /\ \A i \in 1..Len(u) + Len(y) :
                (u \o y)[i] = IF i <= Len(u) THEN u[i] ELSE y[i - Len(u)]
      BY <2>3, ConcatProperties
    <2>5. ASSUME NEW i \in 1..Len(u \o y) PROVE (u \o y)[i] = (x \o y)[i + 1]
      <3>1. i \in 1..Len(u) + Len(y) /\ i + 1 \in 1..Len(x) + Len(y)
        BY <2>1, <2>3, <2>4
      <3>2. CASE i <= Len(u)
        BY <2>1, <2>2, <2>3, <2>4, <3>1, <3>2
      <3>3. CASE ~(i <= Len(u))
        <4>1. (u \o y)[i] = y[i - (Len(x) - 1)] /\ (x \o y)[i + 1] = y[(i + 1) - Len(x)]
          BY <2>1, <2>2, <2>3, <2>4, <3>1, <3>3
        <4>2. i - (Len(x) - 1) = (i + 1) - Len(x)
          BY <2>1, <3>1
        <4> QED BY <4>1, <4>2
      <3> QED BY <3>2, <3>3
    <2>6. (x \o y)[1] = Head(x)
      <3>1. 1 \in 1..Len(x) + Len(y) /\ 1 <= Len(x) /\ Head(x) = x[1]
        BY <2>1, <1>6
      <3> QED BY <2>2, <3>1
    <2>7. Len(u \o y) = Len(x \o y) - 1 /\ Len(x \o y) > 0
      BY <2>1, <2>2, <2>3, <2>4
    <2> QED BY <2>2, <2>4, <2>5, <2>6, <2>7 DEF u
  <1> QED BY <1>1, <1>5, <1>6

-----------------------------------------------------------------------------
LEMMA InitCallOK == Init => CallOK
  BY DEF Init, CallOK

\* Outside a read nothing is in the pipe: the worker takes nothing.
LEMMA CallOKStep ==
    ASSUME IInv, CallOK, [Next]_vars
    PROVE  CallOK'
  <1> USE DEF CallOK
  <1>0. /\ TypeOK /\ cmd \in Commands \cup {NoCommand} /\ NoCommand \notin Commands
        /\ Typed(AllLines) /\ worker \in Workers(AllLines)
    BY TypesOfLines, AnswersAssumption DEF IInv, TypeOK
  <1>1. CASE Start
    BY <1>1 DEF Start, BeginWarm, callVars
  <1>2. CASE WarmLine
    BY <1>0, <1>2 DEF WarmLine, callVars
  <1>3. CASE WarmRead
    BY <1>3 DEF WarmRead, callVars
  <1>4. CASE WarmNap
    BY <1>4 DEF WarmNap, callVars
  <1>5. CASE WarmFail
    BY <1>5 DEF WarmFail, Return, callVars
  <1>6. ASSUME NEW c \in Commands, Call(c) PROVE CallOK'
    BY <1>6 DEF Call
  <1>7. CASE WriteRespawn
    BY <1>7 DEF WriteRespawn, BeginWarm, Return, callVars
  <1>8. CASE Write
    <2>1. /\ pc = "write" /\ pc' = "read" /\ cmd' = cmd /\ cmd \in Commands
          /\ ran' = 0 /\ out' = Empty /\ stdin' = <<cmd>>
          /\ rbuf' = rbuf /\ stdout' = stdout /\ worker' = worker
      <3>1. pc = "write" /\ pc' = "read" /\ stdin' = Append(stdin, cmd)
            /\ rbuf' = rbuf /\ stdout' = stdout /\ worker' = worker
            /\ UNCHANGED <<cmd, out, ran>>
        BY <1>8 DEF Write, write, callVars
      <3>2. stdin = <<>> /\ cmd \in Commands
        BY <3>1 DEF IInv, OneCommand
      <3>3. Append(<<>>, cmd) = <<cmd>>
        OBVIOUS
      <3> QED BY <1>0, <3>1, <3>2, <3>3
    <2>2. Quiet(Stream) /\ Stream' = Stream
      BY <2>1 DEF IInv, Awaited, Stream
    <2> QED BY <2>1, <2>2 DEF NotTaken
  <1>9. CASE WriteBroken
    BY <1>9 DEF WriteBroken, Return
  <1>10. CASE ReadLine
    <2>1. /\ rbuf # <<>> /\ rbuf' = Tail(rbuf) /\ UNCHANGED <<stdout, worker, stdin, ran, cmd>>
          /\ pc = "read" /\ cmd \in Commands
      BY <1>10 DEF ReadLine, processVars, callVars, Return
    <2>2. /\ Head(rbuf) \in AllLines
          /\ Quiet(Stream) => Head(rbuf) \in Strays /\ Quiet(Stream')
      BY <1>0, <2>1, LineRead DEF Quiet
    <2>3. Head(rbuf) \in Strays => pc' = "read" /\ out' = out
      <3>1. Head(rbuf) \in Strays => Head(rbuf) = Ready \/ Head(rbuf).kind = "MS"
        BY DEF Strays, Stray
      <3>2. \A o, l : l.kind = "MS" => Parse(o, l) = o
        BY DEF Parse
      <3> QED BY <1>10, <2>1, <3>1, <3>2 DEF ReadLine, callVars
    <2>4. CASE NotTaken
      BY <2>1, <2>2, <2>3, <2>4 DEF NotTaken
    <2>5. CASE Answering
      <3>1. stdin' = <<>> /\ ran' = 1 /\ cmd' = cmd
        BY <2>1, <2>5 DEF Answering
      <3>a. PICK k \in Answers[cmd] : \E n \in 0..Len(k) :
               out = After(cmd, SubSeq(k, 1, n)) /\ Continues(Stream, cmd, k, n)
        BY <2>5 DEF Answering
      <3>2. PICK n \in 0..Len(k) :
               out = After(cmd, SubSeq(k, 1, n)) /\ Continues(Stream, cmd, k, n)
        BY <3>a
      <3>3. /\ Stream \in Seq(AllLines) /\ Stream' \in Seq(AllLines)
            /\ Len(Stream) > 0 /\ Len(Stream') = Len(Stream) - 1
            /\ Stream[1] = Head(rbuf)
            /\ \A i \in 1..Len(Stream') : Stream'[i] = Stream[i + 1]
        BY <1>0, <2>1, StreamTail
      <3>4. \/ Stream[1] \in Strays /\ Continues(Stream', cmd, k, n)
            \/ /\ n < Len(k)
               /\ Stream[1] # Ready /\ Stream[1] = [kind |-> k[n+1], of |-> cmd]
               /\ Continues(Stream', cmd, k, n + 1)
        BY <2>1, <3>2, <3>3, ContinuesNext
      <3>5. CASE Stream[1] \in Strays /\ Continues(Stream', cmd, k, n)
        BY <2>1, <2>3, <3>1, <3>2, <3>3, <3>5 DEF Answering
      <3>6. CASE /\ n < Len(k)
                 /\ Stream[1] # Ready /\ Stream[1] = [kind |-> k[n+1], of |-> cmd]
                 /\ Continues(Stream', cmd, k, n + 1)
        <4>1. CASE k[n+1] = "END"
          <5>1. pc' = "idle"
            BY <1>10, <3>3, <3>6, <4>1 DEF ReadLine, Return
          <5> QED BY <5>1
        <4>2. CASE k[n+1] # "END"
          <5>1. pc' = pc /\ out' = Parse(out, Head(rbuf))
            BY <1>10, <3>3, <3>6, <4>2 DEF ReadLine
          <5>2. k \in Seq(Kinds) /\ Len(k) \in Nat /\ n \in 0..Len(k)-1 /\ n + 1 \in 0..Len(k)
            BY <2>1, <3>6, AnswerIs
          <5>3. After(cmd, SubSeq(k, 1, n + 1))
                   = Parse(After(cmd, SubSeq(k, 1, n)), [kind |-> k[n+1], of |-> cmd])
            BY <2>1, <5>2, AfterLine
          <5>4. out' = After(cmd, SubSeq(k, 1, n + 1))
            BY <3>2, <3>3, <3>6, <5>1, <5>3
          <5>5. Answering'
            BY <3>1, <3>6, <5>2, <5>4 DEF Answering
          <5> QED BY <2>1, <5>1, <5>5
        <4> QED BY <4>1, <4>2
      <3> QED BY <3>4, <3>5, <3>6
    <2> QED BY <2>1, <2>4, <2>5
  <1>11. CASE ReadBlock
    <2>1. Stream' = Stream
      BY <1>0, <1>11, ReadKeepsStream DEF ReadBlock
    <2>2. UNCHANGED <<stdin, cmd, out, pc, ran>>
      BY <1>11 DEF ReadBlock, ReadSome, callVars
    <2> QED BY <2>1, <2>2 DEF NotTaken, Answering
  <1>12. CASE ReadNap
    <2>1. UNCHANGED <<stdin, stdout, worker, rbuf, cmd, out, pc, ran>>
      BY <1>12 DEF ReadNap, processVars, callVars
    <2>2. Stream' = Stream
      BY <2>1 DEF Stream
    <2> QED BY <2>1, <2>2 DEF NotTaken, Answering
  <1>13. CASE ReadFail
    BY <1>13 DEF ReadFail, Return
  <1>14. CASE Stop
    BY <1>14 DEF Stop, callVars
  <1>15. CASE Take
    <2>1. pc = "read" /\ stdin # <<>> /\ NotTaken /\ cmd \in Commands /\ stdin = <<cmd>>
      BY <1>15 DEF Take, IInv, OneCommand, Answering, NotTaken
    <2>2. Head(stdin) = cmd /\ Tail(stdin) = <<>>
      <3>1. Head(<<cmd>>) = cmd /\ Tail(<<cmd>>) = <<>>
        OBVIOUS
      <3> QED BY <2>1, <3>1
    <2>3. PICK k \in Answers[cmd] : WorkerTake(Lines(cmd, k))
      BY <1>15, <2>2 DEF Take
    <2>4. stdin' = <<>> /\ ran' = 1 /\ UNCHANGED <<rbuf, cmd, out, pc>>
      BY <1>15, <2>1, <2>2, <2>3 DEF Take, WorkerTake, NotTaken, loopVars, callVars
    <2>5. /\ Stream' = Stream \o Output(cmd, k) /\ Stream \in Seq(AllLines)
          /\ out' = After(cmd, SubSeq(k, 1, 0)) /\ Len(k) \in Nat
      <3>1. Append(Lines(cmd, k), Ready) \in Seq(AllLines)
        BY <2>1, AnswerTyped
      <3>2. Stream' = Stream \o Append(Lines(cmd, k), Ready)
        BY <1>0, <2>3, <2>4, <3>1, TakeStream
      <3>3. out = Empty
        BY <2>1 DEF NotTaken
      <3> QED BY <1>0, <2>1, <2>4, <3>2, <3>3, StreamTyped, EmptyAnswer, AnswerIs DEF Output
    <2>6. Continues(Stream', cmd, k, 0)
      BY <2>1, <2>5, ContinuesTaken DEF NotTaken
    <2>7. Answering'
      <3>1. 0 \in 0..Len(k)
        BY <2>5
      <3> QED BY <2>4, <2>5, <2>6, <3>1 DEF Answering
    <2> QED BY <2>1, <2>4, <2>7
  <1>16. CASE WorkerPrint /\ UNCHANGED <<loopVars, callVars, pc, ran>>
    <2>1. Stream' = Stream
      BY <1>0, <1>16, PrintKeepsStream DEF loopVars
    <2>2. UNCHANGED <<stdin, cmd, out, pc, ran>>
      BY <1>16 DEF WorkerPrint, callVars
    <2> QED BY <2>1, <2>2 DEF NotTaken, Answering
  <1>17. CASE WorkerDie /\ UNCHANGED <<loopVars, callVars, pc, ran>>
    <2>1. UNCHANGED <<stdin, stdout, rbuf, cmd, out, pc, ran>> /\ worker'.todo = <<>>
      BY <1>17 DEF WorkerDie, callVars, loopVars
    <2>2. Quiet(Stream) => Quiet(Stream')
      BY <1>0, <1>17, <2>1, DieKeepsOrder DEF Quiet
    <2>3. DOMAIN Stream' \subseteq DOMAIN Stream /\ \A i \in DOMAIN Stream' : Stream'[i] = Stream[i]
      <3> DEFINE s == rbuf \o stdout
                 t == worker.todo
      <3>1. s \in Seq(AllLines) /\ t \in Seq(AllLines)
        BY <1>0, StreamTyped DEF Typed
      <3>2. Stream = s \o t /\ Stream' = s \o <<>>
        BY <2>1 DEF Stream
      <3> HIDE DEF s, t
      <3>3. s \o <<>> = s
        BY <3>1
      <3>4. DOMAIN s \subseteq DOMAIN (s \o t) /\ \A i \in DOMAIN s : (s \o t)[i] = s[i]
        BY <3>1
      <3> QED BY <3>2, <3>3, <3>4
    <2>4. ASSUME NEW k, NEW n, Continues(Stream, cmd, k, n) PROVE Continues(Stream', cmd, k, n)
      BY <2>3, <2>4, ContinuesPrefix
    <2> QED BY <2>1, <2>2, <2>4 DEF NotTaken, Answering
  <1>18. CASE UNCHANGED vars
    BY <1>18 DEF vars, processVars, loopVars, callVars, NotTaken, Answering, Stream
  <1> QED
    BY <1>1, <1>2, <1>3, <1>4, <1>5, <1>6, <1>7, <1>8, <1>9, <1>10, <1>11, <1>12, <1>13,
       <1>14, <1>15, <1>16, <1>17, <1>18
       DEF Next, EngineStep, Warm, WorkerStep, Exited

-----------------------------------------------------------------------------
(***************************************************************************)
(* Step simulation.                                                        *)
(***************************************************************************)
Phase == IF pc \in {"off", "exited", "idle"} THEN pc
         ELSE IF cmd = NoCommand THEN "off" ELSE "busy"

LEMMA PartialOf ==
    ASSUME NEW c \in Commands, NEW k \in Answers[c], NEW n \in 0..Len(k)
    PROVE  After(c, SubSeq(k, 1, n))
              \in [d \in Commands |->
                     UNION {{After(d, SubSeq(a, 1, m)) : m \in 0..Len(a)} : a \in Answers[d]}][c]
  OBVIOUS

LEMMA WholeOf ==
    ASSUME NEW c \in Commands, NEW k \in Answers[c], k # <<>>
    PROVE  After(c, k) \in [d \in Commands |-> {After(d, a) : a \in {b \in Answers[d] : b # <<>>}}][c]
  OBVIOUS

\* A failed call leaves the beginning of an answer behind, or nothing.
LEMMA FailMaps ==
    ASSUME TypeOK, CallOK, pc \in {"write", "warm", "read"}, cmd # NoCommand, Return("fail", out),
           UNCHANGED ran
    PROVE  Service!Fail
  <1>1. cmd \in Commands
    BY DEF TypeOK
  <1>2. \E k \in Answers[cmd] : \E n \in 0..Len(k) : out = After(cmd, SubSeq(k, 1, n))
    <2>1. CASE out = Empty
      <3>1. PICK k \in Answers[cmd] : TRUE
        BY <1>1, AnswersAssumption
      <3>2. 0 \in 0..Len(k) /\ out = After(cmd, SubSeq(k, 1, 0))
        BY <1>1, <2>1, AnswerIs, EmptyAnswer
      <3> QED BY <3>2
    <2>2. CASE out # Empty
      BY <2>2 DEF CallOK, NotTaken, Answering
    <2> QED BY <2>1, <2>2
  <1>3. PICK k \in Answers[cmd] : \E n \in 0..Len(k) : out = After(cmd, SubSeq(k, 1, n))
    BY <1>2
  <1>4. PICK n \in 0..Len(k) : out = After(cmd, SubSeq(k, 1, n))
    BY <1>3
  <1>5. /\ pc' = "idle" /\ result' = [outcome |-> "fail", out |-> out]
        /\ cmd' = cmd /\ ran' = ran
    BY DEF Return
  <1>6. out \in [d \in Commands |->
                   UNION {{After(d, SubSeq(a, 1, m)) : m \in 0..Len(a)} : a \in Answers[d]}][cmd]
    BY <1>1, <1>4, PartialOf
  <1> QED BY <1>5, <1>6 DEF Service!Fail

\* A step the session does not see.
LEMMA Unseen ==
    ASSUME Phase' = Phase, UNCHANGED <<cmd, ran, result>>
    PROVE  UNCHANGED Service!vars
  BY DEF Phase, Service!vars

LEMMA StepMaps ==
    ASSUME IInv, CallOK, [Next]_vars
    PROVE  [Service!Next]_(Service!vars)
  <1>0. /\ TypeOK /\ cmd \in Commands \cup {NoCommand} /\ NoCommand \notin Commands
        /\ Typed(AllLines) /\ worker \in Workers(AllLines)
    BY TypesOfLines, AnswersAssumption DEF IInv, TypeOK
  <1>1. CASE Start
    <2>1. cmd = NoCommand /\ pc = "off" /\ pc' \in {"warm", "exited"} /\ UNCHANGED <<cmd, ran, result>>
      BY <1>1 DEF Start, BeginWarm, callVars, CallOK
    <2>2. CASE pc' = "warm"
      BY <2>1, <2>2, Unseen DEF Phase
    <2>3. CASE pc' = "exited"
      BY <2>1, <2>3 DEF Service!Start, Service!Next
    <2> QED BY <2>1, <2>2, <2>3
  <1>2. CASE WarmLine
    <2>1. /\ pc = "warm" /\ UNCHANGED <<cmd, ran, result>>
          /\ pc' = "warm" \/ (pc' = "idle" /\ cmd = NoCommand) \/ (pc' = "write" /\ cmd # NoCommand)
      BY <1>2 DEF WarmLine, callVars
    <2>2. CASE pc' \in {"warm", "write"}
      BY <2>1, <2>2, Unseen DEF Phase
    <2>3. CASE pc' = "idle"
      BY <2>1, <2>3 DEF Service!Start, Service!Next
    <2> QED BY <2>1, <2>2, <2>3
  <1>3. CASE WarmRead
    BY <1>3, Unseen DEF WarmRead, callVars, Phase
  <1>4. CASE WarmNap
    BY <1>4, Unseen DEF WarmNap, callVars, Phase
  <1>5. CASE WarmFail
    <2>1. pc = "warm" /\ ran' = ran
      BY <1>5 DEF WarmFail
    <2>2. CASE cmd = NoCommand
      <3>1. pc' = "exited" /\ UNCHANGED <<cmd, result>>
        BY <1>5, <2>2 DEF WarmFail, callVars
      <3> QED BY <2>1, <2>2, <3>1 DEF Service!Start, Service!Next
    <2>3. CASE cmd # NoCommand
      <3>1. Return("fail", out)
        BY <1>5, <2>3 DEF WarmFail
      <3> QED BY <1>0, <2>1, <2>3, <3>1, FailMaps DEF Service!Next
    <2> QED BY <2>2, <2>3
  <1>6. ASSUME NEW c \in Commands, Call(c) PROVE Service!Next
    <2>1. Service!Call(c)
      BY <1>0, <1>6 DEF Call, Service!Call, Pending, Service!Pending
    <2> QED BY <2>1 DEF Service!Next
  <1>7. CASE WriteRespawn
    <2>1. pc = "write" /\ cmd \in Commands /\ cmd # NoCommand /\ ran' = ran
      BY <1>0, <1>7 DEF WriteRespawn, CallOK
    <2>2. CASE BeginWarm /\ UNCHANGED callVars
      BY <2>1, <2>2, Unseen DEF BeginWarm, callVars, Phase
    <2>3. CASE Return("fail", out)
      BY <1>0, <2>1, <2>3, FailMaps DEF Service!Next
    <2> QED BY <1>7, <2>2, <2>3 DEF WriteRespawn
  <1>8. CASE Write
    <2>1. pc = "write" /\ pc' = "read" /\ UNCHANGED <<cmd, ran, result>>
      BY <1>8 DEF Write, callVars
    <2> QED BY <2>1, Unseen DEF Phase
  <1>9. CASE WriteBroken
    <2>1. pc = "write" /\ cmd \in Commands /\ cmd # NoCommand /\ ran' = ran
      BY <1>0, <1>9 DEF WriteBroken, CallOK
    <2>2. CASE UNCHANGED <<pc, cmd, out, result>>
      BY <2>1, <2>2, Unseen DEF Phase
    <2>3. CASE Return("fail", out)
      BY <1>0, <2>1, <2>3, FailMaps DEF Service!Next
    <2> QED BY <1>9, <2>2, <2>3 DEF WriteBroken
  <1>10. CASE ReadLine
    <2>1. /\ rbuf # <<>> /\ rbuf' = Tail(rbuf) /\ UNCHANGED <<stdout, worker, stdin, ran, cmd>>
          /\ pc = "read" /\ cmd \in Commands /\ cmd # NoCommand
      BY <1>0, <1>10 DEF ReadLine, processVars, callVars, Return, CallOK
    <2>2. CASE Head(rbuf) # Ready /\ Head(rbuf).kind = "END"
      <3>1. pc' = "idle" /\ result' = [outcome |-> "ok", out |-> out]
        BY <1>10, <2>2 DEF ReadLine, Return
      <3>2. /\ Stream \in Seq(AllLines) /\ Stream' \in Seq(AllLines)
            /\ Len(Stream) > 0 /\ Len(Stream') = Len(Stream) - 1
            /\ Stream[1] = Head(rbuf)
            /\ \A i \in 1..Len(Stream') : Stream'[i] = Stream[i + 1]
        BY <1>0, <2>1, StreamTail
      <3>3. Head(rbuf) \notin Strays
        BY <2>2 DEF Strays, Stray
      <3>4. Answering
        <4>1. ~ Quiet(Stream)
          <5>1. 1 \in DOMAIN Stream
            BY <3>2
          <5> QED BY <3>2, <3>3, <5>1 DEF Quiet, Only
        <4> QED BY <2>1, <4>1 DEF CallOK, NotTaken
      <3>5. PICK k \in Answers[cmd] : \E n \in 0..Len(k) :
               out = After(cmd, SubSeq(k, 1, n)) /\ Continues(Stream, cmd, k, n)
        BY <3>4 DEF Answering
      <3>6. PICK n \in 0..Len(k) :
               out = After(cmd, SubSeq(k, 1, n)) /\ Continues(Stream, cmd, k, n)
        BY <3>5
      <3>7. n < Len(k) /\ Stream[1] = [kind |-> k[n+1], of |-> cmd]
        <4>1. \/ Stream[1] \in Strays /\ Continues(Stream', cmd, k, n)
              \/ /\ n < Len(k)
                 /\ Stream[1] # Ready /\ Stream[1] = [kind |-> k[n+1], of |-> cmd]
                 /\ Continues(Stream', cmd, k, n + 1)
          BY <2>1, <3>2, <3>6, ContinuesNext
        <4> QED BY <3>2, <3>3, <4>1
      <3>8. k \in Seq(Kinds) /\ Len(k) \in Nat /\ n \in 0..Len(k)-1 /\ k[n+1] = "END" /\ k # <<>>
        BY <2>1, <2>2, <3>2, <3>7, AnswerIs
      <3>9. out = After(cmd, k)
        BY <2>1, <3>6, <3>8, AfterEnd
      <3>10. out \in [d \in Commands |-> {After(d, a) : a \in {b \in Answers[d] : b # <<>>}}][cmd]
        BY <2>1, <3>8, <3>9, WholeOf
      <3>11. ran = 1
        BY <3>4 DEF Answering
      <3>12. Service!Succeed
        BY <2>1, <3>1, <3>10, <3>11 DEF Service!Succeed
      <3> QED BY <3>12 DEF Service!Next
    <2>3. CASE ~(Head(rbuf) # Ready /\ Head(rbuf).kind = "END")
      <3>1. pc' = pc /\ result' = result
        BY <1>10, <2>3 DEF ReadLine, callVars
      <3> QED BY <2>1, <3>1, Unseen DEF Phase
    <2> QED BY <2>2, <2>3
  <1>11. CASE ReadBlock
    BY <1>11, Unseen DEF ReadBlock, callVars, Phase
  <1>12. CASE ReadNap
    BY <1>12, Unseen DEF ReadNap, callVars, Phase
  <1>13. CASE ReadFail
    <2>1. pc = "read" /\ cmd \in Commands /\ cmd # NoCommand /\ ran' = ran /\ Return("fail", out)
      BY <1>0, <1>13 DEF ReadFail, CallOK
    <2> QED BY <1>0, <2>1, FailMaps DEF Service!Next
  <1>14. CASE Stop
    BY <1>14, Unseen DEF Stop, callVars, Phase
  <1>15. CASE Take
    <2>1. pc = "read" /\ NotTaken /\ cmd \in Commands /\ cmd # NoCommand
      BY <1>0, <1>15 DEF Take, IInv, OneCommand, CallOK, Answering
    <2>2. ran = 0 /\ ran' = 1 /\ UNCHANGED <<pc, cmd, result>>
      BY <1>15, <2>1 DEF Take, NotTaken, callVars
    <2>3. Service!Run
      BY <2>1, <2>2 DEF Service!Run
    <2> QED BY <2>3 DEF Service!Next
  <1>16. CASE (WorkerPrint \/ WorkerDie) /\ UNCHANGED <<loopVars, callVars, pc, ran>>
    BY <1>16, Unseen DEF callVars, Phase
  <1>17. CASE UNCHANGED vars
    BY <1>17, Unseen DEF vars, callVars, Phase
  <1> QED
    BY <1>1, <1>2, <1>3, <1>4, <1>5, <1>6, <1>7, <1>8, <1>9, <1>10, <1>11, <1>12, <1>13,
       <1>14, <1>15, <1>16, <1>17
       DEF Next, EngineStep, Warm, WorkerStep, Exited

\* engine.h: the batch engine is an Engine.  For any commands, any answers of one block and any
\* patience, a call runs its command once and ends with the whole answer to it, or fails with
\* the beginning of that answer; chunks, strays, respawns, deaths and time-outs are hidden.
THEOREM EngineIsAService == Spec => Implements
  <1>1. Init => IInv /\ CallOK /\ Service!Init
    <2>1. Init => Service!Init
      BY DEF Init, Service!Init, Pending, Service!Pending
    <2> QED BY <2>1, InitIInv, InitCallOK
  <1>2. IInv /\ CallOK /\ [Next]_vars => IInv' /\ CallOK' /\ [Service!Next]_(Service!vars)
    BY NextKeepsIInv, CallOKStep, StepMaps
  <1> QED BY <1>1, <1>2, PTL DEF Spec, Implements, Service!Spec
=============================================================================
