------------------------------- MODULE Relay --------------------------------
(***************************************************************************)
(* The socket between the hosts and the daemon: src/client.cpp and         *)
(* src/frontend_posix.cpp on the near end, the accept loop and serve_conn  *)
(* of src/atzcd/main.cpp on the far end.                                   *)
(*                                                                         *)
(* A line is a request or a reply.  What a request makes the daemon do is  *)
(* the business of BatchSession and SessionEngine; here it succeeds or is  *)
(* refused.  The daemon may die at any time and is then started again      *)
(* (packaging/atzcd.service); a client process may be ended at any time.   *)
(***************************************************************************)
EXTENDS Integers, Sequences, FiniteSets

CONSTANTS
    Clients,
    Keepers,       \* hold their connection between calls (addon, modore, the REPL)
    Retriers,      \* call through ReconnectingClient
    Ignorers,      \* hosts that ignore SIGPIPE; the library does not do it for them
    Requests, Nothing,
    EngineFails    \* may a request be refused?

ASSUME ClientAssumption == /\ Keepers \subseteq Clients
                           /\ Retriers \subseteq Clients
                           /\ Ignorers \subseteq Clients
                           /\ Nothing \notin Requests /\ Nothing \notin Clients \X {0, 1}
                           /\ EngineFails \in BOOLEAN

\* A client has a connection and perhaps an earlier one that the daemon has
\* yet to notice is gone.
Conns == Clients \X {0, 1}

VARIABLES
    daemon,        \* "up" or "down"
    backlog,       \* connections waiting for accept
    serving,       \* cfd of serve_conn, or Nothing
    job,           \* the request being run, or Nothing
    conn,          \* both ends of each connection and the lines on their way
    mine,          \* the last connection each client made
    pc, attempt,   \* of each client
    asked,         \* the request of the call
    result,        \* of the last call
    ran            \* how often the daemon began the request of this call (capped at 3)

daemonVars == <<daemon, backlog, serving, job>>
callVars   == <<attempt, asked, result>>
vars == <<daemonVars, callVars, conn, mine, pc, ran>>

Closed == [near |-> "closed", far |-> "closed", req |-> <<>>, rep |-> <<>>]
Opened == [near |-> "open", far |-> "open", req |-> <<>>, rep |-> <<>>]

None == [outcome |-> "none", of |-> Nothing]

Init ==
    /\ daemon = "up"
    /\ backlog = <<>>
    /\ serving = Nothing
    /\ job = Nothing
    /\ conn = [k \in Conns |-> Closed]
    /\ mine = [c \in Clients |-> <<c, 0>>]
    /\ pc = [c \in Clients |-> "idle"]
    /\ attempt = [c \in Clients |-> 1]
    /\ asked = [c \in Clients |-> Nothing]
    /\ result = [c \in Clients |-> None]
    /\ ran = [c \in Clients |-> 0]

Goto(c, from, to) == pc[c] = from /\ pc' = [pc EXCEPT ![c] = to]

connected(c) == conn[mine[c]].near = "open"

\* A connection after its near end is closed: unread replies go with it.
close(k) == [near |-> "closed", far |-> k.far, req |-> k.req, rep |-> <<>>]
-----------------------------------------------------------------------------
(***************************************************************************)
(* Client::connect: closes, then enters the backlog of a daemon that is up.*)
(***************************************************************************)
connect(c) ==
    /\ daemon = "up"
    /\ \E k \in {c} \X {0, 1} :
           /\ conn[k] = Closed
           /\ conn' = [conn EXCEPT ![mine[c]] = close(@), ![k] = Opened]
           /\ mine' = [mine EXCEPT ![c] = k]
           /\ backlog' = Append(backlog, k)
    /\ UNCHANGED <<daemon, serving, job>>

connectFails(c) ==
    /\ daemon = "down"
    /\ conn' = [conn EXCEPT ![mine[c]] = close(@)]
    /\ UNCHANGED <<mine, daemonVars>>

\* The call is over.  A client that keeps no connection closes it by exiting.
Return(c, outcome, of) ==
    /\ pc' = [pc EXCEPT ![c] = "idle"]
    /\ result' = [result EXCEPT ![c] = [outcome |-> outcome, of |-> of]]
    /\ UNCHANGED <<attempt, asked>>

Leave(c, k) == IF c \in Keepers THEN k ELSE close(k)

\* Mutant: two reconnects.
FailsOnceMore(c, k) ==
    IF c \in Retriers /\ attempt[c] <= 2
      THEN /\ pc' = [pc EXCEPT ![c] = "retry"]
           /\ conn' = [conn EXCEPT ![mine[c]] = k]
           /\ UNCHANGED callVars
      ELSE /\ Return(c, "err", asked[c])
           /\ conn' = [conn EXCEPT ![mine[c]] = Leave(c, k)]

\* Mutant: every client retries.
FailsAlwaysRetries(c, k) ==
    IF attempt[c] = 1
      THEN /\ pc' = [pc EXCEPT ![c] = "retry"]
           /\ conn' = [conn EXCEPT ![mine[c]] = k]
           /\ UNCHANGED callVars
      ELSE /\ Return(c, "err", asked[c])
           /\ conn' = [conn EXCEPT ![mine[c]] = Leave(c, k)]

\* One attempt failed and left the connection as k.
Fails(c, k) ==
    IF c \in Retriers /\ attempt[c] = 1
      THEN /\ pc' = [pc EXCEPT ![c] = "retry"]
           /\ conn' = [conn EXCEPT ![mine[c]] = k]
           /\ UNCHANGED callVars
      ELSE /\ Return(c, "err", asked[c])
           /\ conn' = [conn EXCEPT ![mine[c]] = Leave(c, k)]

Call(c, r) ==
    /\ Goto(c, "idle", "dial")
    /\ asked' = [asked EXCEPT ![c] = r]
    /\ attempt' = [attempt EXCEPT ![c] = 1]
    /\ result' = [result EXCEPT ![c] = None]
    /\ ran' = [ran EXCEPT ![c] = 0]
    /\ UNCHANGED <<daemonVars, conn, mine>>

\* Connect unless connected.  ReconnectingClient ignores a first failure, since
\* request tries again; the others give the call up.
Dial(c) ==
    /\ pc[c] = "dial"
    /\ \/ /\ connected(c)
          /\ Goto(c, "dial", "send")
          /\ UNCHANGED <<conn, mine, daemonVars, callVars>>
       \/ /\ ~connected(c)
          /\ Goto(c, "dial", "send")
          /\ connect(c)
          /\ UNCHANGED callVars
       \/ /\ ~connected(c) /\ c \in Retriers
          /\ Goto(c, "dial", "redial")
          /\ connectFails(c)
          /\ UNCHANGED callVars
       \/ /\ ~connected(c) /\ c \notin Retriers
          /\ Return(c, "err", asked[c])
          /\ connectFails(c)
    /\ UNCHANGED ran

Redial(c) ==
    /\ pc[c] = "redial"
    /\ \/ /\ Goto(c, "redial", "send")
          /\ connect(c)
          /\ UNCHANGED callVars
       \/ /\ daemon = "down"
          /\ Fails(c, conn[mine[c]])
          /\ UNCHANGED <<mine, daemonVars>>
    /\ UNCHANGED ran

\* Close, reconnect once, call again.
Retry(c) ==
    /\ pc[c] = "retry"
    /\ \/ /\ Goto(c, "retry", "send")
          /\ connect(c)
          /\ attempt' = [attempt EXCEPT ![c] = @ + 1]
          /\ UNCHANGED <<asked, result>>
       \/ /\ connectFails(c)
          /\ Return(c, "err", asked[c])
    /\ UNCHANGED ran

\* send_line.  Writing to a connection whose far end is gone raises SIGPIPE.
Send(c) ==
    /\ pc[c] = "send"
    /\ \/ /\ conn[mine[c]].far = "open"
          /\ Goto(c, "send", "recv")
          /\ conn' = [conn EXCEPT ![mine[c]].req = Append(@, asked[c])]
          /\ UNCHANGED callVars
       \/ /\ conn[mine[c]].far = "closed"
          /\ c \in Ignorers
          /\ Fails(c, conn[mine[c]])
       \/ /\ conn[mine[c]].far = "closed"
          /\ c \notin Ignorers
          /\ Return(c, "killed", asked[c])
          /\ conn' = [conn EXCEPT ![mine[c]] = close(@)]
    /\ UNCHANGED <<daemonVars, mine, ran>>

\* Mutant: end of file is taken for silence.
RecvIgnoresEof(c) ==
    /\ pc[c] = "recv"
    /\ LET k == conn[mine[c]]
       IN  /\ k.rep # <<>>
           /\ Return(c, Head(k.rep).outcome, Head(k.rep).of)
           /\ conn' = [conn EXCEPT ![mine[c]] = Leave(c, [k EXCEPT !.rep = Tail(@)])]
    /\ UNCHANGED <<daemonVars, mine, ran>>

\* recv_line and the reading of the reply.  A refusal is a failure like any
\* other: the connection is dropped and the call made again.
Recv(c) ==
    /\ pc[c] = "recv"
    /\ LET k == conn[mine[c]]
           r == Head(k.rep)
           rest == [k EXCEPT !.rep = Tail(@)]
       IN  \/ /\ k.rep # <<>> /\ r.outcome = "ok"
              /\ Return(c, "ok", r.of)
              /\ conn' = [conn EXCEPT ![mine[c]] = Leave(c, rest)]
           \/ /\ k.rep # <<>> /\ r.outcome = "err"
              /\ Fails(c, rest)
           \/ /\ k.rep = <<>> /\ k.far = "closed"
              /\ Fails(c, k)
    /\ UNCHANGED <<daemonVars, mine, ran>>

\* The client's process ends, in a call or between two; another takes its place.
Quit(c) ==
    /\ pc[c] # "idle" \/ connected(c)
    /\ pc' = [pc EXCEPT ![c] = "idle"]
    /\ asked' = [asked EXCEPT ![c] = Nothing]
    /\ result' = [result EXCEPT ![c] = None]
    /\ conn' = [conn EXCEPT ![mine[c]] = close(@)]
    /\ UNCHANGED <<daemonVars, mine, attempt, ran>>
-----------------------------------------------------------------------------
(***************************************************************************)
(* The daemon.                                                             *)
(***************************************************************************)
Accept ==
    /\ daemon = "up" /\ serving = Nothing /\ backlog # <<>>
    /\ serving' = Head(backlog)
    /\ backlog' = Tail(backlog)
    /\ UNCHANGED <<daemon, job, conn, mine, callVars, pc, ran>>

\* read_line gives the next request; its handler begins.
Take ==
    /\ serving # Nothing /\ job = Nothing
    /\ conn[serving].req # <<>>
    /\ job' = Head(conn[serving].req)
    /\ conn' = [conn EXCEPT ![serving].req = Tail(@)]
    /\ ran' = [c \in Clients |->
                  IF mine[c] = serving /\ conn[serving].near = "open" /\ ran[c] < 3
                  THEN ran[c] + 1 ELSE ran[c]]
    /\ UNCHANGED <<daemon, backlog, serving, mine, callVars, pc>>

Replies == {[outcome |-> "ok", of |-> job]} \cup
           (IF EngineFails THEN {[outcome |-> "err", of |-> job]} ELSE {})

\* Mutant: an error is reported and the handler goes on to the other reply.
AnswerTwice ==
    /\ job # Nothing
    /\ job' = Nothing
    /\ conn[serving].near = "open"
    /\ \E r \in Replies :
          conn' = [conn EXCEPT ![serving].rep =
                     @ \o (IF r.outcome = "err"
                           THEN <<r, [outcome |-> "ok", of |-> job]>> ELSE <<r>>)]
    /\ UNCHANGED <<serving, daemon, backlog, mine, callVars, pc, ran>>

\* The handler writes one reply; a client that has gone ends the connection.
Answer ==
    /\ job # Nothing
    /\ job' = Nothing
    /\ \/ /\ conn[serving].near = "open"
          /\ \E r \in Replies : conn' = [conn EXCEPT ![serving].rep = Append(@, r)]
          /\ UNCHANGED serving
       \/ /\ conn[serving].near = "closed"
          /\ conn' = [conn EXCEPT ![serving] = Closed]
          /\ serving' = Nothing
    /\ UNCHANGED <<daemon, backlog, mine, callVars, pc, ran>>

\* Mutant: the descriptor is not closed.
HangupLeaks ==
    /\ serving # Nothing /\ job = Nothing
    /\ conn[serving].req = <<>> /\ conn[serving].near = "closed"
    /\ serving' = Nothing
    /\ UNCHANGED <<daemon, backlog, job, conn, mine, callVars, pc, ran>>

\* End of file.
Hangup ==
    /\ serving # Nothing /\ job = Nothing
    /\ conn[serving].req = <<>> /\ conn[serving].near = "closed"
    /\ conn' = [conn EXCEPT ![serving] = Closed]
    /\ serving' = Nothing
    /\ UNCHANGED <<daemon, backlog, job, mine, callVars, pc, ran>>

\* A crash, or cleanup_and_exit: every far end closes, replies already written
\* can still be read.  All at once is right under the service file, since systemd kills the
\* workers too; the workers of a daemon started by hand keep the connection they
\* inherited for a while, which is what WorkerTree is about.
Die ==
    /\ daemon = "up"
    /\ daemon' = "down"
    /\ backlog' = <<>>
    /\ serving' = Nothing
    /\ job' = Nothing
    /\ conn' = [k \in Conns |-> [conn[k] EXCEPT !.far = "closed", !.req = <<>>]]
    /\ UNCHANGED <<mine, callVars, pc, ran>>

Restart ==
    /\ daemon = "down"
    /\ daemon' = "up"
    /\ UNCHANGED <<backlog, serving, job, conn, mine, callVars, pc, ran>>
-----------------------------------------------------------------------------
ClientStep(c) == Dial(c) \/ Redial(c) \/ Retry(c) \/ Send(c) \/ Recv(c)
DaemonStep    == Accept \/ Take \/ Answer \/ Hangup

Next ==
    \/ \E c \in Clients : ClientStep(c) \/ Quit(c) \/ \E r \in Requests : Call(c, r)
    \/ DaemonStep \/ Die \/ Restart

Spec == Init /\ [][Next]_vars

\* The threads run, and the service manager starts a dead daemon again.  No
\* client is obliged to call, nor to close a connection it keeps.
FairSpec ==
    /\ Spec
    /\ \A c \in Clients : WF_vars(ClientStep(c))
    /\ WF_vars(DaemonStep)
    /\ WF_vars(Restart)
-----------------------------------------------------------------------------
Line == [outcome : {"ok", "err"}, of : Requests]

\* The variables hold values of their kinds.
TypeOK ==
    /\ daemon \in {"up", "down"}
    /\ backlog \in Seq(Conns)
    /\ serving \in Conns \cup {Nothing}
    /\ job \in Requests \cup {Nothing}
    /\ conn \in [Conns -> [near : {"open", "closed"}, far : {"open", "closed"},
                           req : Seq(Requests), rep : Seq(Line)]]
    /\ mine \in [Clients -> Conns]
    /\ pc \in [Clients -> {"idle", "dial", "redial", "retry", "send", "recv"}]
    /\ attempt \in [Clients -> {1, 2}]
    /\ asked \in [Clients -> Requests \cup {Nothing}]
    /\ result \in [Clients -> [outcome : {"none", "ok", "err", "killed"},
                               of : Requests \cup {Nothing}]]
    /\ ran \in [Clients -> 0..3]

\* protocol.md, "one request per line, one reply per line": a client that is
\* not waiting has nothing in flight on the connection it holds, so the reply it
\* reads next is the reply to what it asked.
OwnAnswer ==
    \A c \in Clients :
        /\ result[c].outcome = "ok" => result[c].of = asked[c]
        /\ connected(c) /\ pc[c] # "recv" => conn[mine[c]].req = <<>> /\ conn[mine[c]].rep = <<>>

\* frontend_posix.cpp:36, "reconnect once, retry": the daemon begins a request at
\* most twice for one call, and once if the host does not retry.  A call that
\* succeeds was run.
RunAtMostTwice ==
    \A c \in Clients :
        /\ ran[c] <= (IF c \in Retriers THEN 2 ELSE 1)
        /\ result[c].outcome = "ok" => ran[c] >= 1

\* A connection waits in the backlog or is served, never both, and the daemon
\* has the far end of no other: serve_conn leaks no descriptor.
FarEndsOwned ==
    LET held == {backlog[i] : i \in DOMAIN backlog} \cup ({serving} \ {Nothing})
    IN  /\ \A k \in Conns : conn[k].far = "open" <=> k \in held
        /\ Cardinality(held) = Len(backlog) + (IF serving = Nothing THEN 0 ELSE 1)

\* The sockets are well kept and calls are run as often as they may be, whoever died in
\* between: every far end is the daemon's, and no call is begun once more than its host retries.
Consistent == TypeOK /\ FarEndsOwned /\ RunAtMostTwice

\* The daemon is serving a connection on which its client asks nothing.
HeldIdle(c) == serving # Nothing /\ serving[1] # c /\ pc[serving[1]] = "idle"

\* Whatever dies, a call ends, unless another host sits on the one connection
\* that the daemon serves.
AnsweredUnlessHeld ==
    \A c \in Clients : pc[c] # "idle" ~> (pc[c] = "idle" \/ HeldIdle(c))
=============================================================================
