--------------------------- MODULE HarnessProcess ---------------------------
(***************************************************************************)
(* src/posix_harness_process.cpp: the worker child of an engine and the    *)
(* two pipes to it, with the worker's own command loop (the stdin thread   *)
(* of engine/native/AtTipLoad/AtTipLoad.c) at the other end.               *)
(*                                                                         *)
(* HarnessEngine and SessionEngine each own one such process and run the   *)
(* same read loop on it, so rbuf_ and the silence count of that loop are   *)
(* here too.  A line is the unit of the pipes: the bytes of a line that is *)
(* not complete yet stay in rbuf_ unexamined, which is as good as not      *)
(* delivered.                                                              *)
(*                                                                         *)
(* The worker prints when it likes, may hang and may die at any point.     *)
(* Who holds which end, and the processes that outlive terminate(), are in *)
(* WorkerTree: the pipes are closed, so nothing of them reaches the relay. *)
(***************************************************************************)
EXTENDS Integers, Sequences

CONSTANT Ready      \* the line "ATD READY"

VARIABLES
    proc,           \* pid_, in_fd_, out_fd_, set and cleared together: "none" or "open"
    worker,         \* the child: its state and the lines it has yet to print
    stdin, stdout,  \* the pipes
    rbuf,           \* rbuf_ of the engine: lines read and not yet examined
    waited          \* silent reads of the current loop

processVars == <<proc, worker, stdin, stdout>>
loopVars    == <<rbuf, waited>>

NoWorker == [state |-> "none", todo |-> <<>>]

ProcessInit ==
    /\ proc = "none"
    /\ worker = NoWorker
    /\ stdin = <<>>
    /\ stdout = <<>>
    /\ rbuf = <<>>
    /\ waited = 0

running == proc = "open"

\* Closes the pipes, signals the child until it is reaped.
terminate ==
    /\ proc' = "none"
    /\ worker' = NoWorker
    /\ stdin' = <<>>
    /\ stdout' = <<>>

\* Ends the previous child first.  The new one announces itself once it is up.
spawn ==
    /\ proc' = "open"
    /\ worker' = [state |-> "alive", todo |-> <<Ready>>]
    /\ stdin' = <<>>
    /\ stdout' = <<>>

\* pipe or posix_spawnp failed: the previous child is gone all the same.
spawnFails == terminate

\* The pipe takes the line as long as somebody can read it.
write(line) ==
    /\ worker.state = "alive"
    /\ stdin' = Append(stdin, line)
    /\ UNCHANGED <<proc, worker, stdout>>

writeBreaks == worker.state = "dead"

\* What read returns: the lines in the pipe or the first few of them; 0 after a
\* second of silence; -1 at the end of file.
ReadSome ==
    /\ rbuf = <<>>
    /\ \E n \in 1..Len(stdout) :
           /\ rbuf' = SubSeq(stdout, 1, n)
           /\ stdout' = SubSeq(stdout, n + 1, Len(stdout))
    /\ UNCHANGED <<proc, worker, stdin, waited>>

ReadNothing == rbuf = <<>> /\ stdout = <<>> /\ worker.state = "alive"
ReadEof     == rbuf = <<>> /\ stdout = <<>> /\ worker.state = "dead"
-----------------------------------------------------------------------------
(***************************************************************************)
(* The worker.                                                             *)
(***************************************************************************)

\* The stdin thread runs the next command; when it is done, whatever it
\* printed is followed by the Ready line.
WorkerTake(lines) ==
    /\ worker.state = "alive" /\ worker.todo = <<>>
    /\ stdin # <<>>
    /\ stdin' = Tail(stdin)
    /\ worker' = [worker EXCEPT !.todo = Append(lines, Ready)]
    /\ UNCHANGED <<proc, stdout>>

WorkerPrint ==
    /\ worker.todo # <<>>
    /\ stdout' = Append(stdout, Head(worker.todo))
    /\ worker' = [worker EXCEPT !.todo = Tail(@)]
    /\ UNCHANGED <<proc, stdin>>

\* A crash, in the middle of a block or after it (the edit-session teardown).
WorkerDie ==
    /\ worker.state = "alive"
    /\ worker' = [state |-> "dead", todo |-> <<>>]
    /\ UNCHANGED <<proc, stdin, stdout>>

\* Everything a reader may still be given, in order.
Stream == rbuf \o stdout \o worker.todo
=============================================================================
