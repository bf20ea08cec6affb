---------------------------- MODULE HarnessEngine ---------------------------
(***************************************************************************)
(* src/harness_engine.cpp: the batch engine.  A call writes one command    *)
(* line to the worker, respawning it when it is gone, and reads the lines  *)
(* of the answer up to "ATD END".                                          *)
(*                                                                         *)
(* A line of an answer is its kind and the command it answers.  The cap    *)
(* that convert applies to its result is BatchSession's Cap.               *)
(***************************************************************************)
EXTENDS HarnessProcess

CONSTANTS
    Commands,         \* "henkan <romaji>" and "convert <romaji>"
    NoCommand,
    Answers,          \* Answers[c]: the sequences of kinds the worker may print for c
    Patience,         \* silent reads before a call gives up: kConvertTimeoutMs / 1000
    ReadyPatience     \* silent reads before bring-up gives up: kReadyTimeoutMs / 1000

ASSUME PatienceAssumption == Patience \in Nat \ {0} /\ ReadyPatience \in Nat \ {0}

VARIABLES
    pc,               \* where the engine is
    cmd,              \* the command of the call in progress
    attempt,          \* of writeCmd
    out,              \* the ConvertResult being filled
    result,           \* what the last call returned
    ran               \* times a worker began to run the command of this call (0, 1, more)

callVars == <<cmd, attempt, out, result>>
vars == <<processVars, loopVars, callVars, pc, ran>>

\* "MS" stands for the lines readBlock has no use for (ATD MS, other output).
Kinds == {"MS", "BEGIN", "COMMIT", "CAND", "CANDX", "END"}

\* An empty ConvertResult; a commit is the command it answers, or none.
Empty == [commit |-> NoCommand, candidates |-> <<>>, ex |-> <<>>]

\* The effect of one line of readBlock on the result, END apart.
Parse(o, line) ==
    CASE line.kind = "BEGIN"  -> Empty
      [] line.kind = "COMMIT" -> [o EXCEPT !.commit = line.of]
      [] line.kind = "CAND"   -> [o EXCEPT !.candidates = Append(@, line.of)]
      [] line.kind = "CANDX"  -> [o EXCEPT !.ex = Append(@, line.of)]
      [] OTHER                -> o

Lines(c, kinds) == [i \in DOMAIN kinds |-> [kind |-> kinds[i], of |-> c]]

\* Every command has an answer: one block (Stream of TipHost), perhaps followed by lines of another
\* kind under AT_TIPLOAD_TIMING ("session_done", candidates.c:958).  Ready is no line of a block.
ASSUME AnswersAssumption ==
    /\ Answers \in [Commands -> SUBSET Seq(Kinds)]
    /\ \A c \in Commands : Answers[c] # {}
    /\ \A c \in Commands : \A kinds \in Answers[c] :
           \A i, j \in DOMAIN kinds : i < j /\ kinds[i] = "END" => kinds[j] = "MS"
    /\ Ready \notin [kind : Kinds, of : Commands]
    /\ NoCommand \notin Commands

Pending == [outcome |-> "pending"]

Init ==
    /\ ProcessInit
    /\ pc = "off"
    /\ cmd = NoCommand
    /\ attempt = 0
    /\ out = Empty
    /\ result = Pending
    /\ ran = 0

Return(outcome, o) ==
    /\ pc' = "idle"
    /\ result' = [outcome |-> outcome, out |-> o]
    /\ UNCHANGED <<cmd, attempt, out>>
-----------------------------------------------------------------------------
(***************************************************************************)
(* start, and ensureWarm under it and under writeCmd.                      *)
(***************************************************************************)

\* spawn succeeded: rbuf_ is cleared and the wait for Ready begins.
BeginWarm ==
    /\ spawn
    /\ pc' = "warm"
    /\ rbuf' = <<>>
    /\ waited' = 0

\* The daemon gives up when bringUp or the first spawn fails.
Start ==
    /\ pc = "off"
    /\ \/ BeginWarm
       \/ spawnFails /\ pc' = "exited" /\ UNCHANGED loopVars
    /\ UNCHANGED <<callVars, ran>>

\* Lines before Ready are dropped.
WarmLine ==
    /\ pc = "warm" /\ rbuf # <<>>
    /\ rbuf' = Tail(rbuf)
    /\ pc' = IF Head(rbuf) # Ready THEN "warm"
             ELSE IF cmd = NoCommand THEN "idle" ELSE "write"
    /\ UNCHANGED <<processVars, waited, callVars, ran>>

WarmRead ==
    /\ pc = "warm"
    /\ ReadSome
    /\ UNCHANGED <<callVars, pc, ran>>

WarmNap ==
    /\ pc = "warm"
    /\ ReadNothing /\ waited + 1 < ReadyPatience
    /\ waited' = waited + 1
    /\ UNCHANGED <<processVars, rbuf, callVars, pc, ran>>

\* End of file or too long a silence: the bring-up failed.
WarmFail ==
    /\ pc = "warm"
    /\ ReadEof \/ (ReadNothing /\ waited + 1 >= ReadyPatience)
    /\ terminate
    /\ IF cmd = NoCommand THEN pc' = "exited" /\ UNCHANGED callVars
                          ELSE Return("fail", out)
    /\ UNCHANGED <<loopVars, ran>>

Warm == WarmLine \/ WarmRead \/ WarmNap \/ WarmFail
-----------------------------------------------------------------------------
(***************************************************************************)
(* topOne and convert: runCmd, which is writeCmd and then readBlock.       *)
(***************************************************************************)
Call(c) ==
    /\ pc = "idle"
    /\ pc' = "write"
    /\ cmd' = c
    /\ attempt' = 0
    /\ out' = Empty
    /\ result' = Pending
    /\ ran' = 0
    /\ UNCHANGED <<processVars, loopVars>>

\* No worker: warm one, or fail.
WriteRespawn ==
    /\ pc = "write" /\ ~running
    /\ \/ BeginWarm /\ UNCHANGED callVars
       \/ spawnFails /\ Return("fail", out) /\ UNCHANGED loopVars
    /\ UNCHANGED ran

Write ==
    /\ pc = "write" /\ running
    /\ write(cmd)
    /\ pc' = "read"
    /\ waited' = 0
    /\ UNCHANGED <<rbuf, callVars, ran>>

\* Mutant: the number of attempts has no limit.
WriteBrokenForever ==
    /\ pc = "write" /\ running
    /\ writeBreaks
    /\ terminate
    /\ attempt' = attempt + 1
    /\ UNCHANGED <<loopVars, pc, cmd, out, result, ran>>

\* A broken pipe: the worker is dropped, and a second attempt respawns it.
WriteBroken ==
    /\ pc = "write" /\ running
    /\ writeBreaks
    /\ terminate
    /\ IF attempt = 0
         THEN attempt' = 1 /\ UNCHANGED <<pc, cmd, out, result>>
         ELSE Return("fail", out)
    /\ UNCHANGED <<loopVars, ran>>

\* Mutant: Ready ends the answer.
ReadLineUpToReady ==
    /\ pc = "read" /\ rbuf # <<>>
    /\ rbuf' = Tail(rbuf)
    /\ LET line == Head(rbuf)
       IN  IF line = Ready THEN Return("ok", out)
           ELSE out' = Parse(out, line) /\ UNCHANGED <<pc, cmd, attempt, result>>
    /\ UNCHANGED <<processVars, waited, ran>>

\* A line that is not of the answer (Ready, the log) is skipped.
ReadLine ==
    /\ pc = "read" /\ rbuf # <<>>
    /\ rbuf' = Tail(rbuf)
    /\ LET line == Head(rbuf)
       IN  IF line = Ready THEN UNCHANGED <<pc, callVars>>
           ELSE IF line.kind = "END" THEN Return("ok", out)
           ELSE out' = Parse(out, line) /\ UNCHANGED <<pc, cmd, attempt, result>>
    /\ UNCHANGED <<processVars, waited, ran>>

ReadBlock ==
    /\ pc = "read"
    /\ ReadSome
    /\ UNCHANGED <<callVars, pc, ran>>

\* Mutant: silence is not counted.
ReadNapUncounted ==
    /\ pc = "read"
    /\ ReadNothing
    /\ UNCHANGED vars

ReadNap ==
    /\ pc = "read"
    /\ ReadNothing /\ waited + 1 < Patience
    /\ waited' = waited + 1
    /\ UNCHANGED <<processVars, rbuf, callVars, pc, ran>>

\* Mutant: the worker is kept after a failed read.
ReadFailKeepsWorker ==
    /\ pc = "read"
    /\ ReadEof \/ (ReadNothing /\ waited + 1 >= Patience)
    /\ Return("fail", out)
    /\ UNCHANGED <<processVars, loopVars, ran>>

ReadFail ==
    /\ pc = "read"
    /\ ReadEof \/ (ReadNothing /\ waited + 1 >= Patience)
    /\ terminate
    /\ Return("fail", out)
    /\ UNCHANGED <<loopVars, ran>>

\* stop, and the destructor.
Stop ==
    /\ pc = "idle"
    /\ terminate
    /\ UNCHANGED <<loopVars, callVars, pc, ran>>
-----------------------------------------------------------------------------
\* The worker runs the command at the head of its pipe.
Take ==
    /\ stdin # <<>>
    /\ \E kinds \in Answers[Head(stdin)] : WorkerTake(Lines(Head(stdin), kinds))
    /\ ran' = IF ran < 2 THEN ran + 1 ELSE ran
    /\ UNCHANGED <<loopVars, callVars, pc>>

WorkerStep ==
    \/ Take
    \/ (WorkerPrint \/ WorkerDie) /\ UNCHANGED <<loopVars, callVars, pc, ran>>

EngineStep ==
    \/ Start \/ Warm
    \/ WriteRespawn \/ Write \/ WriteBroken
    \/ ReadLine \/ ReadBlock \/ ReadNap \/ ReadFail

\* The daemon has given up.
Exited == pc = "exited" /\ UNCHANGED vars

Next == EngineStep \/ (\E c \in Commands : Call(c)) \/ Stop \/ WorkerStep \/ Exited

Spec == Init /\ [][Next]_vars

\* The engine's thread runs; poll returns within its second.  Nothing is
\* assumed of the worker: it may hang at any point.
FairSpec == Spec /\ WF_vars(EngineStep)
-----------------------------------------------------------------------------
AllLines == [kind : Kinds, of : Commands] \cup {Ready}
Outs == [commit : Commands \cup {NoCommand}, candidates : Seq(Commands), ex : Seq(Commands)]

\* The variables hold values of their kinds.
TypeOK ==
    /\ proc \in {"none", "open"}
    /\ worker \in [state : {"none", "alive", "dead"}, todo : Seq(AllLines)]
    /\ stdin \in Seq(Commands)
    /\ stdout \in Seq(AllLines)
    /\ rbuf \in Seq(AllLines)
    /\ waited \in Nat
    /\ pc \in {"off", "exited", "idle", "write", "warm", "read"}
    /\ cmd \in Commands \cup {NoCommand}
    /\ attempt \in {0, 1}
    /\ out \in Outs
    /\ result \in {Pending} \cup [outcome : {"ok", "fail"}, out : Outs]
    /\ ran \in 0..2

\* Neither readBlock nor ensureWarm can take the line for a part of an answer.
Stray(line) == line = Ready \/ line.kind = "MS"

\* No line of a block outlives the call it answers: once a call has
\* returned, on whatever path, all that can still be read of the worker is
\* stray, and no command is left in its pipe for it to answer later.
NothingLeftOver ==
    pc \in {"idle", "write"} =>
        /\ stdin = <<>>
        /\ running => \A i \in DOMAIN Stream : Stray(Stream[i])

\* Whatever the worker did to a call, the engine is left fit for the next one: silence was
\* counted up to the limit and no further, and no line or command is left over.
Consistent == TypeOK /\ NothingLeftOver

\* The results of whole answers, and of answers cut anywhere.
After(c, kinds) ==
    LET upTo[i \in 0..Len(kinds)] ==
            IF i = 0 THEN Empty ELSE Parse(upTo[i-1], Lines(c, kinds)[i])
    IN  upTo[Len(kinds)]

Service == INSTANCE ConversionService WITH
    phase   <- IF pc \in {"off", "exited", "idle"} THEN pc
               ELSE IF cmd = NoCommand THEN "off" ELSE "busy",
    Whole   <- [c \in Commands |->
                   {After(c, k) : k \in {a \in Answers[c] : a # <<>>}}],
    Partial <- [c \in Commands |->
                   UNION {{After(c, SubSeq(k, 1, n)) : n \in 0..Len(k)} : k \in Answers[c]}]

\* engine.h: the batch engine is an Engine: a success is the whole answer to
\* its own command, run once; chunks, respawns, crashes and time-outs included.
Implements == Service!Spec

\* engine.h:30: a call "never leaves the engine wedged": it ends, whether the
\* worker answers, dies or hangs (harness_engine.cpp:12, "can't hang the daemon").
CallsReturn == pc \in {"write", "warm", "read"} ~> pc \in {"idle", "exited"}
=============================================================================
