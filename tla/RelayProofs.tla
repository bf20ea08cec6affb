---------------------------- MODULE RelayProofs -----------------------------
(***************************************************************************)
(* Proofs about Relay, for any number of clients, whichever of them keep   *)
(* their connection, retry or ignore SIGPIPE.                              *)
(***************************************************************************)
EXTENDS Relay, FiniteSetTheorems, TLAPS

Links == [near : {"open", "closed"}, far : {"open", "closed"},
          req : Seq(Requests), rep : Seq(Line)]

Among(s, k) == \E i \in DOMAIN s : s[i] = k
Distinct(s) == \A i, j \in DOMAIN s : s[i] = s[j] => i = j

\* The daemon runs a request that came on connection k.
Busy(k) == serving = k /\ job # Nothing

\* The daemon has the far ends of what waits and of what it serves, each once; and none when
\* it is down.
EndsOK ==
    /\ \A k \in Conns : conn[k].far = "open" <=> Among(backlog, k) \/ k = serving
    /\ Distinct(backlog)
    /\ ~Among(backlog, serving)
    /\ daemon = "down" => backlog = <<>> /\ serving = Nothing
    /\ serving = Nothing => job = Nothing

\* A closed end leaves nothing on its way to it.
QuietOK == \A k \in Conns : /\ conn[k].near = "closed" => conn[k].rep = <<>>
                            /\ conn[k].far = "closed" => conn[k].req = <<>>

\* Of its connections a client has at most the last one open.
MineOK(c) == /\ mine[c] \in {c} \X {0, 1}
             /\ \A k \in {c} \X {0, 1} : conn[k].near = "open" => k = mine[c]

\* Where the one request of a call that waits for its reply may be: in the socket, with the
\* daemon, lost, or answered.
InFlight(c) ==
    LET k == conn[mine[c]]
    IN  \/ k.req = <<asked[c]>> /\ k.rep = <<>> /\ ~Busy(mine[c])
        \/ k.req = <<>> /\ k.rep = <<>> /\ Busy(mine[c]) /\ job = asked[c]
        \/ k.req = <<>> /\ k.rep = <<>> /\ k.far = "closed"
        \/ /\ k.req = <<>> /\ ~Busy(mine[c])
           /\ \E r \in Line : r.of = asked[c] /\ k.rep = <<r>>

CallOK(c) ==
    /\ pc[c] \in {"send", "recv"} => connected(c)
    /\ connected(c) /\ pc[c] # "recv" =>
           conn[mine[c]].req = <<>> /\ conn[mine[c]].rep = <<>> /\ ~Busy(mine[c])
    /\ pc[c] = "recv" => InFlight(c)
    /\ pc[c] # "idle" => asked[c] \in Requests
    /\ result[c].outcome = "ok" => pc[c] = "idle" /\ result[c].of = asked[c]

\* How often the request of a call has been begun.
RunOK(c) ==
    /\ attempt[c] = 2 \/ pc[c] \in {"redial", "retry"} => c \in Retriers
    /\ pc[c] \in {"dial", "redial", "retry"} => attempt[c] = 1
    /\ pc[c] \in {"dial", "redial", "send"} => ran[c] < attempt[c]
    /\ ran[c] <= attempt[c]
    /\ pc[c] = "recv" /\ conn[mine[c]].req # <<>> => ran[c] < attempt[c]
    /\ pc[c] = "recv" /\ (conn[mine[c]].rep # <<>> \/ Busy(mine[c])) => ran[c] >= 1
    /\ result[c].outcome = "ok" => ran[c] >= 1

ClientOK(c) == MineOK(c) /\ CallOK(c) /\ RunOK(c)

IInv == TypeOK /\ EndsOK /\ QuietOK /\ \A c \in Clients : ClientOK(c)
-----------------------------------------------------------------------------
(***************************************************************************)
(* Sequences and connections.                                              *)
(***************************************************************************)
LEMMA Single == \A x : /\ Append(<<>>, x) = <<x>> /\ <<x>> # <<>>
                       /\ Head(<<x>>) = x /\ Tail(<<x>>) = <<>>
  OBVIOUS

\* A connection joins the end of the backlog.
LEMMA Queued ==
    ASSUME NEW s \in Seq(Conns), NEW k \in Conns
    PROVE  /\ Append(s, k) \in Seq(Conns)
           /\ \A j : Among(Append(s, k), j) <=> Among(s, j) \/ j = k
           /\ Distinct(s) /\ ~Among(s, k) => Distinct(Append(s, k))
  <1>1. /\ Len(s) \in Nat /\ DOMAIN s = 1..Len(s) /\ DOMAIN Append(s, k) = 1..(Len(s) + 1)
        /\ Append(s, k)[Len(s) + 1] = k
        /\ \A i \in 1..Len(s) : Append(s, k)[i] = s[i]
    OBVIOUS
  <1>2. \A i \in 1..(Len(s) + 1) : i \in 1..Len(s) \/ i = Len(s) + 1
    BY <1>1
  <1> QED BY <1>1, <1>2 DEF Among, Distinct

\* accept takes the first.
LEMMA Dequeued ==
    ASSUME NEW s \in Seq(Conns), s # <<>>
    PROVE  /\ Head(s) \in Conns /\ Tail(s) \in Seq(Conns)
           /\ \A j : Among(s, j) <=> Among(Tail(s), j) \/ j = Head(s)
           /\ Distinct(s) => Distinct(Tail(s)) /\ ~Among(Tail(s), Head(s))
  <1>1. /\ Len(s) \in Nat \ {0} /\ DOMAIN s = 1..Len(s) /\ DOMAIN Tail(s) = 1..(Len(s) - 1)
        /\ Head(s) = s[1] /\ \A i \in 1..(Len(s) - 1) : Tail(s)[i] = s[i + 1]
    OBVIOUS
  <1>2. \A i \in 1..Len(s) : i = 1 \/ (i - 1 \in 1..(Len(s) - 1) /\ (i - 1) + 1 = i)
    BY <1>1
  <1>3. \A i \in 1..(Len(s) - 1) : i + 1 \in 1..Len(s) /\ i + 1 # 1
    BY <1>1
  <1>4. \A j : Among(s, j) <=> Among(Tail(s), j) \/ j = Head(s)
    <2>1. ASSUME NEW j, NEW i \in DOMAIN s, s[i] = j PROVE Among(Tail(s), j) \/ j = Head(s)
      <3>1. CASE i = 1
        BY <1>1, <2>1, <3>1
      <3>2. CASE i # 1
        <4>1. i - 1 \in DOMAIN Tail(s) /\ Tail(s)[i - 1] = s[i]
          BY <1>1, <1>2, <3>2
        <4> QED BY <2>1, <4>1 DEF Among
      <3> QED BY <3>1, <3>2
    <2>2. ASSUME NEW j, NEW i \in DOMAIN Tail(s), Tail(s)[i] = j PROVE Among(s, j)
      BY <1>1, <1>3, <2>2 DEF Among
    <2>3. Among(s, Head(s))
      BY <1>1 DEF Among
    <2> QED BY <2>1, <2>2, <2>3 DEF Among
  <1>5. Distinct(s) => Distinct(Tail(s)) /\ ~Among(Tail(s), Head(s))
    BY <1>1, <1>2, <1>3 DEF Among, Distinct
  <1> QED BY <1>4, <1>5

LEMMA EmptyQueue == Distinct(<<>>) /\ \A k : ~Among(<<>>, k)
  BY DEF Distinct, Among

\* Connections of different clients are different.
LEMMA OwnersDiffer ==
    /\ \A c \in Clients : {c} \X {0, 1} \subseteq Conns
    /\ \A k \in Conns : k[1] \in Clients /\ k \in {k[1]} \X {0, 1}
    /\ \A c \in Clients : \A k \in {c} \X {0, 1} : k[1] = c
    /\ Nothing \notin Conns
  BY ClientAssumption DEF Conns

LEMMA InitIInv == Init => IInv
  <1> SUFFICES ASSUME Init PROVE IInv
    OBVIOUS
  <1>1. TypeOK
    BY DEF Init, TypeOK, Conns, Closed, None
  <1>2. EndsOK /\ QuietOK
    BY EmptyQueue, OwnersDiffer DEF Init, EndsOK, QuietOK, Closed
  <1>3. ASSUME NEW c \in Clients PROVE ClientOK(c)
    <2>1. mine[c] \in Conns /\ \A k \in {c} \X {0, 1} : conn[k].near = "closed"
      BY OwnersDiffer DEF Init, Closed
    <2> QED BY <2>1 DEF Init, ClientOK, MineOK, CallOK, RunOK, connected, None
  <1> QED BY <1>1, <1>2, <1>3 DEF IInv

\* A client whose call and whose last connection a step leaves alone.
LEMMA Untouched ==
    ASSUME NEW d \in Clients, ClientOK(d),
           mine'[d] = mine[d], pc'[d] = pc[d], attempt'[d] = attempt[d], asked'[d] = asked[d],
           result'[d] = result[d], ran'[d] = ran[d],
           conn'[mine[d]] = conn[mine[d]],
           \A k \in {d} \X {0, 1} : conn'[k].near = "open" => conn[k].near = "open",
           Busy(mine[d])' <=> Busy(mine[d]),
           Busy(mine[d]) => job' = job
    PROVE  ClientOK(d)'
  <1>1. MineOK(d)'
    BY DEF ClientOK, MineOK
  <1>2. CallOK(d)'
    BY DEF ClientOK, CallOK, InFlight, connected, Busy
  <1>3. RunOK(d)'
    BY DEF ClientOK, RunOK, Busy
  <1> QED BY <1>1, <1>2, <1>3 DEF ClientOK

\* A step of client c.
Others(c) ==
    /\ \A d \in Clients \ {c} : /\ mine'[d] = mine[d] /\ pc'[d] = pc[d] /\ attempt'[d] = attempt[d]
                                /\ asked'[d] = asked[d] /\ result'[d] = result[d]
                                /\ ran'[d] = ran[d]
    /\ \A k \in Conns : k[1] # c => conn'[k] = conn[k]
    /\ UNCHANGED <<serving, job>>

LEMMA OthersKept ==
    ASSUME IInv, NEW c \in Clients, Others(c)
    PROVE  \A d \in Clients : d # c => ClientOK(d)'
  <1> SUFFICES ASSUME NEW d \in Clients, d # c PROVE ClientOK(d)'
    OBVIOUS
  <1>1. mine[d] \in {d} \X {0, 1}
    BY DEF IInv, ClientOK, MineOK
  <1>2. \A k \in {d} \X {0, 1} : conn'[k] = conn[k]
    BY OwnersDiffer DEF Others
  <1>3. /\ mine'[d] = mine[d] /\ pc'[d] = pc[d] /\ attempt'[d] = attempt[d]
        /\ asked'[d] = asked[d] /\ result'[d] = result[d] /\ ran'[d] = ran[d]
    BY DEF Others
  <1>4. job' = job /\ serving' = serving
    BY DEF Others
  <1> QED BY <1>1, <1>2, <1>3, <1>4, Untouched DEF IInv, Busy
-----------------------------------------------------------------------------
(***************************************************************************)
(* What the steps of a client are made of.                                 *)
(***************************************************************************)
LEMMA ClientFacts ==
    ASSUME IInv, NEW c \in Clients
    PROVE  /\ mine[c] \in Conns /\ mine[c] \in {c} \X {0, 1} /\ conn[mine[c]] \in Links
           /\ MineOK(c) /\ CallOK(c) /\ RunOK(c)
           /\ pc[c] \in {"idle", "dial", "redial", "retry", "send", "recv"}
           /\ attempt[c] \in {1, 2} /\ ran[c] \in 0..3 /\ asked[c] \in Requests \cup {Nothing}
  BY DEF IInv, ClientOK, MineOK, TypeOK, Links

\* The last connection of c changes, but not at its far end.
LinkChanges(c, x) ==
    /\ conn' = [conn EXCEPT ![mine[c]] = x]
    /\ x \in Links
    /\ x.far = conn[mine[c]].far
    /\ x.near = "open" => conn[mine[c]].near = "open"
    /\ x.near = "closed" => x.rep = <<>>
    /\ x.far = "closed" => x.req = <<>>
    /\ UNCHANGED <<daemonVars, mine>>

LEMMA LinkKept ==
    ASSUME IInv, NEW c \in Clients, NEW x, LinkChanges(c, x)
    PROVE  /\ conn' \in [Conns -> Links] /\ conn'[mine[c]] = x
           /\ EndsOK' /\ QuietOK' /\ MineOK(c)'
           /\ \A k \in Conns : k[1] # c => conn'[k] = conn[k]
  <1>1. conn \in [Conns -> Links] /\ mine[c] \in Conns /\ mine[c][1] = c
    BY ClientFacts, OwnersDiffer DEF IInv, TypeOK, Links
  <1>2. conn' \in [Conns -> Links] /\ conn'[mine[c]] = x
    BY <1>1 DEF LinkChanges
  <1>3. \A k \in Conns : k # mine[c] => conn'[k] = conn[k]
    BY <1>1 DEF LinkChanges
  <1>4. EndsOK'
    <2>1. \A k \in Conns : conn'[k].far = conn[k].far
      BY <1>2, <1>3 DEF LinkChanges
    <2> QED BY <2>1 DEF IInv, EndsOK, LinkChanges, daemonVars
  <1>5. QuietOK'
    BY <1>2, <1>3 DEF IInv, QuietOK, LinkChanges
  <1>6. MineOK(c)'
    BY <1>1, <1>2, <1>3, ClientFacts, OwnersDiffer DEF MineOK, LinkChanges
  <1> QED BY <1>1, <1>2, <1>3, <1>4, <1>5, <1>6

LEMMA CloseOne ==
    ASSUME NEW x \in Links
    PROVE  /\ close(x) \in Links /\ close(x).near = "closed" /\ close(x).rep = <<>>
           /\ close(x).req = x.req /\ close(x).far = x.far
  <1>1. x.far \in {"open", "closed"} /\ x.req \in Seq(Requests) /\ <<>> \in Seq(Line)
    BY DEF Links
  <1> QED BY <1>1 DEF Links, close

LEMMA EmptyLines == <<>> \in Seq(Line) /\ <<>> \in Seq(Requests)
  OBVIOUS

LEMMA Relined ==
    ASSUME NEW x \in Links, NEW q \in Seq(Requests), NEW p \in Seq(Line)
    PROVE  /\ [x EXCEPT !.req = q] \in Links /\ [x EXCEPT !.req = q].req = q
           /\ [x EXCEPT !.req = q].rep = x.rep
           /\ [x EXCEPT !.req = q].near = x.near /\ [x EXCEPT !.req = q].far = x.far
           /\ [x EXCEPT !.rep = p] \in Links /\ [x EXCEPT !.rep = p].rep = p
           /\ [x EXCEPT !.rep = p].req = x.req
           /\ [x EXCEPT !.rep = p].near = x.near /\ [x EXCEPT !.rep = p].far = x.far
  BY DEF Links

LEMMA NewLinks == Opened \in Links /\ Closed \in Links
  <1>1. <<>> \in Seq(Line) /\ <<>> \in Seq(Requests)
    OBVIOUS
  <1> QED BY <1>1 DEF Opened, Closed, Links

\* A connection of c whose near end is closed.
LEMMA Closing ==
    ASSUME IInv, NEW c \in Clients, conn' = [conn EXCEPT ![mine[c]] = close(@)],
           UNCHANGED <<daemonVars, mine>>
    PROVE  LinkChanges(c, close(conn[mine[c]])) /\ close(conn[mine[c]]).near = "closed"
  <1>1. conn[mine[c]] \in Links /\ mine[c] \in Conns
        /\ (conn[mine[c]].far = "closed" => conn[mine[c]].req = <<>>)
    BY ClientFacts DEF IInv, QuietOK
  <1>2. conn' = [conn EXCEPT ![mine[c]] = close(conn[mine[c]])]
    OBVIOUS
  <1> QED BY <1>1, <1>2, CloseOne DEF LinkChanges

LEMMA Connects ==
    ASSUME IInv, NEW c \in Clients, connect(c)
    PROVE  /\ conn' \in [Conns -> Links] /\ mine' \in [Clients -> Conns] /\ backlog' \in Seq(Conns)
           /\ EndsOK' /\ QuietOK' /\ MineOK(c)'
           /\ conn'[mine'[c]] = Opened /\ mine'[c] # serving
           /\ \A d \in Clients \ {c} : mine'[d] = mine[d]
           /\ \A k \in Conns : k[1] # c => conn'[k] = conn[k]
           /\ UNCHANGED <<daemon, serving, job>>
  <1>1. PICK k \in {c} \X {0, 1} :
            /\ conn[k] = Closed
            /\ conn' = [conn EXCEPT ![mine[c]] = close(@), ![k] = Opened]
            /\ mine' = [mine EXCEPT ![c] = k]
            /\ backlog' = Append(backlog, k)
    BY DEF connect
  <1>2. /\ conn \in [Conns -> Links] /\ mine \in [Clients -> Conns] /\ backlog \in Seq(Conns)
        /\ mine[c] \in Conns /\ mine[c][1] = c /\ k \in Conns /\ k[1] = c
    BY ClientFacts, OwnersDiffer DEF IInv, TypeOK, Links
  <1>3. Opened \in Links /\ Closed \in Links /\ close(conn[mine[c]]) \in Links
    BY <1>2, NewLinks, CloseOne
  <1>4. conn' \in [Conns -> Links]
    BY <1>1, <1>2, <1>3
  <1>5. /\ conn'[k] = Opened
        /\ mine[c] # k => conn'[mine[c]] = close(conn[mine[c]])
        /\ \A j \in Conns : j # k /\ j # mine[c] => conn'[j] = conn[j]
    BY <1>1, <1>2
  <1>6. mine' \in [Clients -> Conns] /\ mine'[c] = k /\ \A d \in Clients \ {c} : mine'[d] = mine[d]
    BY <1>1, <1>2
  <1>7. ~Among(backlog, k) /\ k # serving
    BY <1>1, <1>2 DEF IInv, EndsOK, Closed
  <1>8. daemon = "up" /\ UNCHANGED <<daemon, serving, job>>
    BY DEF connect
  <1>9. EndsOK'
    <2>1. \A j \in Conns : conn'[j].far = "open" <=> conn[j].far = "open" \/ j = k
      <3>1. Opened.far = "open" /\ close(conn[mine[c]]).far = conn[mine[c]].far
        BY <1>2, CloseOne DEF Opened
      <3> QED BY <1>2, <1>5, <3>1
    <2>2. /\ \A j : Among(backlog', j) <=> Among(backlog, j) \/ j = k
          /\ Distinct(backlog')
      BY <1>1, <1>2, <1>7, Queued DEF IInv, EndsOK
    <2> QED BY <1>7, <1>8, <2>1, <2>2 DEF IInv, EndsOK
  <1>10. QuietOK'
    <2>1. close(conn[mine[c]]).rep = <<>> /\ close(conn[mine[c]]).req = conn[mine[c]].req
          /\ close(conn[mine[c]]).far = conn[mine[c]].far
      BY <1>2, CloseOne
    <2> QED BY <1>2, <1>5, <2>1 DEF IInv, QuietOK, Opened
  <1>11. MineOK(c)'
    <2>1. close(conn[mine[c]]).near = "closed"
      BY <1>2, CloseOne
    <2> QED BY <1>5, <1>6, <2>1, ClientFacts, OwnersDiffer DEF MineOK
  <1>12. backlog' \in Seq(Conns)
    BY <1>1, <1>2, Queued
  <1> QED BY <1>2, <1>4, <1>5, <1>6, <1>7, <1>8, <1>9, <1>10, <1>11, <1>12

\* A client's step in which its connection changes, put together.
LEMMA ClientStepKeeps ==
    ASSUME IInv, NEW c \in Clients, Others(c),
           conn' \in [Conns -> Links], mine' \in [Clients -> Conns], backlog' \in Seq(Conns),
           UNCHANGED daemon,
           pc' \in [Clients -> {"idle", "dial", "redial", "retry", "send", "recv"}],
           attempt' \in [Clients -> {1, 2}],
           asked' \in [Clients -> Requests \cup {Nothing}],
           result' \in [Clients -> [outcome : {"none", "ok", "err", "killed"},
                                    of : Requests \cup {Nothing}]],
           ran' \in [Clients -> 0..3],
           EndsOK', QuietOK', MineOK(c)', CallOK(c)', RunOK(c)'
    PROVE  IInv'
  <1>1. TypeOK'
    BY DEF IInv, TypeOK, Others, Links
  <1>2. ClientOK(c)'
    BY DEF ClientOK
  <1> QED BY <1>1, <1>2, OthersKept DEF IInv

\* The call ends; what is left of the connection is settled.
LEMMA ReturnKeeps ==
    ASSUME IInv, NEW c \in Clients, NEW outcome \in {"ok", "err", "killed"}, NEW x,
           pc[c] # "idle", Return(c, outcome, asked[c]), LinkChanges(c, x), UNCHANGED ran,
           x.near = "open" => x.req = <<>> /\ x.rep = <<>> /\ ~Busy(mine[c]),
           outcome = "ok" => ran[c] >= 1
    PROVE  IInv'
  <1>1. /\ pc' = [pc EXCEPT ![c] = "idle"]
        /\ result' = [result EXCEPT ![c] = [outcome |-> outcome, of |-> asked[c]]]
        /\ UNCHANGED <<attempt, asked>>
    BY DEF Return
  <1>2. UNCHANGED <<daemon, backlog, serving, job, mine>>
    BY DEF LinkChanges, daemonVars
  <1>3. /\ pc' \in [Clients -> {"idle", "dial", "redial", "retry", "send", "recv"}]
        /\ pc'[c] = "idle" /\ \A d \in Clients \ {c} : pc'[d] = pc[d]
    BY <1>1 DEF IInv, TypeOK
  <1>4. [outcome |-> outcome, of |-> asked[c]] \in [outcome : {"none", "ok", "err", "killed"},
                                                    of : Requests \cup {Nothing}]
    BY ClientFacts
  <1>5. /\ result' \in [Clients -> [outcome : {"none", "ok", "err", "killed"},
                                    of : Requests \cup {Nothing}]]
        /\ result'[c].outcome = outcome /\ result'[c].of = asked[c]
        /\ \A d \in Clients \ {c} : result'[d] = result[d]
    BY <1>1, <1>4 DEF IInv, TypeOK
  <1>6. Others(c)
    BY <1>1, <1>2, <1>3, <1>5, LinkKept DEF Others
  <1>7. CallOK(c)'
    BY <1>1, <1>2, <1>3, <1>5, LinkKept, ClientFacts DEF CallOK, connected, Busy
  <1>8. RunOK(c)'
    BY <1>1, <1>3, <1>5, ClientFacts DEF RunOK
  <1> QED BY <1>1, <1>2, <1>3, <1>5, <1>6, <1>7, <1>8, LinkKept, ClientStepKeeps DEF IInv, TypeOK

\* The call goes on to place p.
LEMMA MoveKeeps ==
    ASSUME IInv, NEW c \in Clients, NEW p \in {"dial", "redial", "retry", "send", "recv"}, NEW x,
           pc[c] # "idle", pc' = [pc EXCEPT ![c] = p], UNCHANGED callVars, UNCHANGED ran,
           LinkChanges(c, x),
           p \in {"send", "recv"} => x.near = "open",
           x.near = "open" /\ p # "recv" => x.req = <<>> /\ x.rep = <<>> /\ ~Busy(mine[c]),
           p = "recv" => x.req = <<asked[c]>> /\ x.rep = <<>> /\ ~Busy(mine[c]),
           p # "retry" => ran[c] < attempt[c],
           p \in {"dial", "redial", "retry"} => attempt[c] = 1,
           p \in {"redial", "retry"} => c \in Retriers
    PROVE  IInv'
  <1>1. UNCHANGED <<attempt, asked, result>>
    BY DEF callVars
  <1>2. UNCHANGED <<daemon, backlog, serving, job, mine>>
    BY DEF LinkChanges, daemonVars
  <1>3. /\ pc' \in [Clients -> {"idle", "dial", "redial", "retry", "send", "recv"}]
        /\ pc'[c] = p /\ \A d \in Clients \ {c} : pc'[d] = pc[d]
    BY DEF IInv, TypeOK
  <1>4. Others(c)
    BY <1>1, <1>2, <1>3, LinkKept DEF Others
  <1>5. CallOK(c)'
    BY <1>1, <1>2, <1>3, LinkKept, ClientFacts DEF CallOK, InFlight, connected, Busy
  <1>6. RunOK(c)'
    BY <1>1, <1>2, <1>3, LinkKept, ClientFacts DEF RunOK, CallOK, Busy
  <1> QED BY <1>1, <1>2, <1>3, <1>4, <1>5, <1>6, LinkKept, ClientStepKeeps DEF IInv, TypeOK

\* What a client that returns leaves of its connection.
LEMMA LeaveKeeps ==
    ASSUME IInv, NEW c \in Clients, NEW x, conn' = [conn EXCEPT ![mine[c]] = Leave(c, x)],
           UNCHANGED <<daemonVars, mine>>,
           x \in Links, x.far = conn[mine[c]].far, x.near = conn[mine[c]].near,
           x.near = "open" => x.req = <<>> /\ x.rep = <<>> /\ ~Busy(mine[c]),
           x.near = "closed" => x.rep = <<>>,
           x.far = "closed" => x.req = <<>>
    PROVE  /\ LinkChanges(c, Leave(c, x))
           /\ Leave(c, x).near = "open" =>
                  Leave(c, x).req = <<>> /\ Leave(c, x).rep = <<>> /\ ~Busy(mine[c])
  <1>1. CASE c \in Keepers
    <2>1. Leave(c, x) = x
      BY <1>1 DEF Leave
    <2> QED BY <2>1 DEF LinkChanges
  <1>2. CASE c \notin Keepers
    <2>1. Leave(c, x) = close(x)
      BY <1>2 DEF Leave
    <2> QED BY <2>1, CloseOne DEF LinkChanges
  <1> QED BY <1>1, <1>2

LEMMA FailsKeeps ==
    ASSUME IInv, NEW c \in Clients, NEW x, pc[c] \in {"redial", "send", "recv"}, Fails(c, x),
           UNCHANGED <<daemonVars, mine, ran>>,
           x \in Links, x.far = conn[mine[c]].far, x.near = conn[mine[c]].near,
           x.near = "open" => x.req = <<>> /\ x.rep = <<>> /\ ~Busy(mine[c]),
           x.near = "closed" => x.rep = <<>>,
           x.far = "closed" => x.req = <<>>
    PROVE  IInv'
  <1>1. CASE c \in Retriers /\ attempt[c] = 1
    <2>1. pc' = [pc EXCEPT ![c] = "retry"] /\ LinkChanges(c, x) /\ UNCHANGED callVars
      BY <1>1 DEF Fails, LinkChanges
    <2> QED BY <1>1, <2>1, MoveKeeps
  <1>2. CASE ~(c \in Retriers /\ attempt[c] = 1)
    <2>1. Return(c, "err", asked[c]) /\ conn' = [conn EXCEPT ![mine[c]] = Leave(c, x)]
      BY <1>2 DEF Fails
    <2>2. /\ LinkChanges(c, Leave(c, x))
          /\ Leave(c, x).near = "open" =>
                 Leave(c, x).req = <<>> /\ Leave(c, x).rep = <<>> /\ ~Busy(mine[c])
      BY <2>1, LeaveKeeps
    <2> QED BY <2>1, <2>2, ReturnKeeps
  <1> QED BY <1>1, <1>2
-----------------------------------------------------------------------------
(***************************************************************************)
(* The steps of a client.                                                  *)
(***************************************************************************)
\* Nothing happens to the connection.
LEMMA LinkStays ==
    ASSUME IInv, NEW c \in Clients, UNCHANGED <<conn, mine, daemonVars>>
    PROVE  LinkChanges(c, conn[mine[c]])
  <1>1. /\ conn[mine[c]] \in Links /\ mine[c] \in Conns /\ conn \in [Conns -> Links]
        /\ (conn[mine[c]].far = "closed" => conn[mine[c]].req = <<>>)
        /\ (conn[mine[c]].near = "closed" => conn[mine[c]].rep = <<>>)
    BY ClientFacts DEF IInv, QuietOK, TypeOK, Links
  <1>2. conn' = [conn EXCEPT ![mine[c]] = conn[mine[c]]]
    BY <1>1
  <1> QED BY <1>1, <1>2 DEF LinkChanges

\* A connection is made and the request is to be written next.
LEMMA ConnectKeeps ==
    ASSUME IInv, NEW c \in Clients, connect(c), pc[c] \in {"dial", "redial", "retry"},
           pc' = [pc EXCEPT ![c] = "send"], UNCHANGED <<asked, result, ran>>,
           attempt' \in [Clients -> {1, 2}],
           \A d \in Clients \ {c} : attempt'[d] = attempt[d],
           ran[c] < attempt'[c],
           attempt'[c] = 2 => c \in Retriers
    PROVE  IInv'
  <1>1. /\ pc' \in [Clients -> {"idle", "dial", "redial", "retry", "send", "recv"}]
        /\ pc'[c] = "send" /\ \A d \in Clients \ {c} : pc'[d] = pc[d]
    BY DEF IInv, TypeOK
  <1>2. Others(c)
    BY <1>1, Connects DEF Others
  <1>3. CallOK(c)'
    BY <1>1, Connects, ClientFacts DEF CallOK, connected, Busy, Opened
  <1>4. RunOK(c)'
    BY <1>1, ClientFacts DEF RunOK, CallOK
  <1> QED BY <1>1, <1>2, <1>3, <1>4, Connects, ClientStepKeeps DEF IInv, TypeOK

\* A call ends at the cost of its connection.
LEMMA ClosingReturns ==
    ASSUME IInv, NEW c \in Clients, pc[c] # "idle", NEW outcome \in {"err", "killed"},
           conn' = [conn EXCEPT ![mine[c]] = close(@)], UNCHANGED <<mine, daemonVars, ran>>,
           Return(c, outcome, asked[c])
    PROVE  IInv'
  <1>1. LinkChanges(c, close(conn[mine[c]])) /\ close(conn[mine[c]]).near = "closed"
    BY Closing
  <1> QED BY <1>1, ReturnKeeps

LEMMA CallKeeps ==
    ASSUME IInv, NEW c \in Clients, NEW r \in Requests, Call(c, r)
    PROVE  IInv'
  <1>1. /\ pc[c] = "idle" /\ pc' = [pc EXCEPT ![c] = "dial"]
        /\ asked' = [asked EXCEPT ![c] = r] /\ attempt' = [attempt EXCEPT ![c] = 1]
        /\ result' = [result EXCEPT ![c] = None] /\ ran' = [ran EXCEPT ![c] = 0]
        /\ UNCHANGED <<daemon, backlog, serving, job, conn, mine>>
    BY DEF Call, Goto, daemonVars
  <1>2. /\ None \in [outcome : {"none", "ok", "err", "killed"}, of : Requests \cup {Nothing}]
        /\ None.outcome # "ok"
    BY DEF None
  <1>3. /\ pc' \in [Clients -> {"idle", "dial", "redial", "retry", "send", "recv"}]
        /\ attempt' \in [Clients -> {1, 2}]
        /\ asked' \in [Clients -> Requests \cup {Nothing}]
        /\ result' \in [Clients -> [outcome : {"none", "ok", "err", "killed"},
                                    of : Requests \cup {Nothing}]]
        /\ ran' \in [Clients -> 0..3]
        /\ conn' \in [Conns -> Links] /\ mine' \in [Clients -> Conns] /\ backlog' \in Seq(Conns)
    BY <1>1, <1>2 DEF IInv, TypeOK, Links
  <1>4. /\ pc'[c] = "dial" /\ attempt'[c] = 1 /\ asked'[c] = r /\ result'[c] = None /\ ran'[c] = 0
        /\ \A d \in Clients \ {c} : /\ pc'[d] = pc[d] /\ attempt'[d] = attempt[d]
                                    /\ asked'[d] = asked[d] /\ result'[d] = result[d]
                                    /\ ran'[d] = ran[d]
    BY <1>1, <1>2 DEF IInv, TypeOK
  <1>5. Others(c)
    BY <1>1, <1>4 DEF Others
  <1>6. CallOK(c)'
    BY <1>1, <1>2, <1>4, ClientFacts DEF CallOK, connected, Busy
  <1>7. RunOK(c)'
    BY <1>1, <1>2, <1>4 DEF RunOK
  <1>8. EndsOK' /\ QuietOK' /\ MineOK(c)'
    BY <1>1, ClientFacts DEF IInv, EndsOK, QuietOK, MineOK
  <1> QED BY <1>1, <1>3, <1>5, <1>6, <1>7, <1>8, ClientStepKeeps

LEMMA DialKeeps ==
    ASSUME IInv, NEW c \in Clients, Dial(c)
    PROVE  IInv'
  <1>1. pc[c] = "dial" /\ UNCHANGED ran /\ ran[c] < attempt[c] /\ attempt[c] = 1
    BY ClientFacts DEF Dial, RunOK
  <1>2. CASE /\ connected(c) /\ Goto(c, "dial", "send")
             /\ UNCHANGED <<conn, mine, daemonVars, callVars>>
    <2>1. LinkChanges(c, conn[mine[c]])
      BY <1>2, LinkStays DEF callVars
    <2>2. /\ conn[mine[c]].near = "open" /\ conn[mine[c]].req = <<>> /\ conn[mine[c]].rep = <<>>
          /\ ~Busy(mine[c])
      BY <1>1, <1>2, ClientFacts DEF CallOK, connected
    <2> QED BY <1>1, <1>2, <2>1, <2>2, MoveKeeps DEF Goto
  <1>3. CASE ~connected(c) /\ Goto(c, "dial", "send") /\ connect(c) /\ UNCHANGED callVars
    <2>1. /\ attempt' \in [Clients -> {1, 2}] /\ attempt' = attempt
          /\ pc' = [pc EXCEPT ![c] = "send"] /\ UNCHANGED <<asked, result, ran>>
      BY <1>1, <1>3 DEF Goto, callVars, IInv, TypeOK
    <2>2. /\ ran[c] < attempt'[c] /\ attempt'[c] # 2
          /\ \A d \in Clients \ {c} : attempt'[d] = attempt[d]
      BY <1>1, <2>1
    <2> QED BY <1>1, <1>3, <2>1, <2>2, ConnectKeeps
  <1>4. CASE /\ ~connected(c) /\ c \in Retriers /\ Goto(c, "dial", "redial")
             /\ connectFails(c) /\ UNCHANGED callVars
    <2>1. LinkChanges(c, close(conn[mine[c]])) /\ close(conn[mine[c]]).near = "closed"
      BY <1>4, Closing DEF connectFails
    <2> QED BY <1>1, <1>4, <2>1, MoveKeeps DEF Goto
  <1>5. CASE ~connected(c) /\ c \notin Retriers /\ Return(c, "err", asked[c]) /\ connectFails(c)
    BY <1>1, <1>5, ClosingReturns DEF connectFails
  <1> QED BY <1>2, <1>3, <1>4, <1>5 DEF Dial

LEMMA RedialKeeps ==
    ASSUME IInv, NEW c \in Clients, Redial(c)
    PROVE  IInv'
  <1>1. pc[c] = "redial" /\ UNCHANGED ran /\ ran[c] < attempt[c]
    BY ClientFacts DEF Redial, RunOK
  <1>2. CASE Goto(c, "redial", "send") /\ connect(c) /\ UNCHANGED callVars
    BY <1>1, <1>2, ConnectKeeps, ClientFacts DEF Goto, callVars, IInv, TypeOK, RunOK
  <1>3. CASE Fails(c, conn[mine[c]]) /\ UNCHANGED <<mine, daemonVars>>
    <2>1. /\ conn[mine[c]] \in Links
          /\ conn[mine[c]].near = "open" => /\ conn[mine[c]].req = <<>>
                                            /\ conn[mine[c]].rep = <<>> /\ ~Busy(mine[c])
          /\ conn[mine[c]].near = "closed" => conn[mine[c]].rep = <<>>
          /\ conn[mine[c]].far = "closed" => conn[mine[c]].req = <<>>
      BY <1>1, ClientFacts DEF CallOK, connected, IInv, QuietOK
    <2> QED BY <1>1, <1>3, <2>1, FailsKeeps
  <1> QED BY <1>2, <1>3 DEF Redial

LEMMA RetryKeeps ==
    ASSUME IInv, NEW c \in Clients, Retry(c)
    PROVE  IInv'
  <1>1. pc[c] = "retry" /\ UNCHANGED ran /\ ran[c] <= attempt[c] /\ attempt[c] = 1 /\ c \in Retriers
    BY ClientFacts DEF Retry, RunOK
  <1>2. CASE /\ Goto(c, "retry", "send") /\ connect(c)
             /\ attempt' = [attempt EXCEPT ![c] = @ + 1] /\ UNCHANGED <<asked, result>>
    <2>1. /\ attempt' \in [Clients -> {1, 2}] /\ attempt'[c] = 2
          /\ \A d \in Clients \ {c} : attempt'[d] = attempt[d]
      BY <1>1, <1>2 DEF IInv, TypeOK
    <2>2. ran[c] < attempt'[c]
      BY <1>1, <2>1, ClientFacts
    <2> QED BY <1>1, <1>2, <2>1, <2>2, ConnectKeeps DEF Goto
  <1>3. CASE connectFails(c) /\ Return(c, "err", asked[c])
    BY <1>1, <1>3, ClosingReturns DEF connectFails
  <1> QED BY <1>2, <1>3 DEF Retry

LEMMA SendKeeps ==
    ASSUME IInv, NEW c \in Clients, Send(c)
    PROVE  IInv'
  <1> DEFINE k == conn[mine[c]]
  <1>1. pc[c] = "send" /\ UNCHANGED <<daemonVars, mine, ran>>
    BY DEF Send
  <1>2. /\ k \in Links /\ k.near = "open" /\ k.req = <<>> /\ k.rep = <<>> /\ ~Busy(mine[c])
        /\ asked[c] \in Requests /\ ran[c] < attempt[c] /\ mine[c] \in Conns
    BY <1>1, ClientFacts DEF CallOK, RunOK, connected
  <1>3. CASE /\ k.far = "open" /\ Goto(c, "send", "recv") /\ UNCHANGED callVars
             /\ conn' = [conn EXCEPT ![mine[c]].req = Append(@, asked[c])]
    <2> DEFINE x == [k EXCEPT !.req = Append(@, asked[c])]
    <2>1. conn' = [conn EXCEPT ![mine[c]] = x]
      BY <1>3
    <2>2. /\ x.near = "open" /\ x.far = "open" /\ x.req = <<asked[c]>> /\ x.rep = <<>>
          /\ x \in Links
      <3>1. Append(k.req, asked[c]) = <<asked[c]>> /\ <<asked[c]>> \in Seq(Requests)
        BY <1>2, Single
      <3>2. x = [k EXCEPT !.req = <<asked[c]>>]
        BY <3>1
      <3> HIDE DEF x
      <3> QED BY <1>2, <1>3, <3>1, <3>2, Relined, EmptyLines
    <2>3. LinkChanges(c, x)
      BY <1>1, <1>2, <1>3, <2>1, <2>2 DEF LinkChanges
    <2> HIDE DEF x
    <2> QED BY <1>1, <1>2, <1>3, <2>2, <2>3, MoveKeeps DEF Goto
  <1>4. CASE k.far = "closed" /\ Fails(c, k)
    BY <1>1, <1>2, <1>4, FailsKeeps
  <1>5. CASE Return(c, "killed", asked[c]) /\ conn' = [conn EXCEPT ![mine[c]] = close(@)]
    BY <1>1, <1>5, ClosingReturns
  <1> QED BY <1>3, <1>4, <1>5 DEF Send

LEMMA RecvKeeps ==
    ASSUME IInv, NEW c \in Clients, Recv(c)
    PROVE  IInv'
  <1> DEFINE k == conn[mine[c]]
             rest == [k EXCEPT !.rep = Tail(@)]
  <1>1. pc[c] = "recv" /\ UNCHANGED <<daemonVars, mine, ran>>
    BY DEF Recv
  <1>2. k \in Links /\ k.near = "open" /\ mine[c] \in Conns /\ InFlight(c)
    BY <1>1, ClientFacts DEF CallOK, connected
  <1>3. k.rep # <<>> => /\ Head(k.rep).of = asked[c] /\ k.req = <<>> /\ ~Busy(mine[c])
                        /\ ran[c] >= 1
                        /\ rest \in Links /\ rest.near = k.near /\ rest.far = k.far
                        /\ rest.req = <<>> /\ rest.rep = <<>>
    <2>1. SUFFICES ASSUME k.rep # <<>>
                   PROVE  /\ Head(k.rep).of = asked[c] /\ k.req = <<>> /\ ~Busy(mine[c])
                          /\ ran[c] >= 1
                          /\ rest \in Links /\ rest.near = k.near /\ rest.far = k.far
                          /\ rest.req = <<>> /\ rest.rep = <<>>
      OBVIOUS
    <2>2. PICK r \in Line : r.of = asked[c] /\ k.rep = <<r>> /\ k.req = <<>> /\ ~Busy(mine[c])
      BY <1>2, <2>1 DEF InFlight
    <2>3. Head(k.rep) = r /\ Tail(k.rep) = <<>>
      BY <2>2, Single
    <2>4. rest \in Links /\ rest.near = k.near /\ rest.far = k.far /\ rest.req = k.req
          /\ rest.rep = <<>>
      <3>1. rest = [k EXCEPT !.rep = <<>>]
        BY <2>3
      <3> HIDE DEF rest
      <3> QED BY <1>2, <3>1, Relined, EmptyLines
    <2>5. ran[c] >= 1
      BY <1>1, <2>1, ClientFacts DEF RunOK
    <2> QED BY <2>2, <2>3, <2>4, <2>5
  <1> HIDE DEF rest
  <1>4. CASE /\ k.rep # <<>> /\ Return(c, "ok", Head(k.rep).of)
             /\ conn' = [conn EXCEPT ![mine[c]] = Leave(c, rest)]
    <2>1. /\ LinkChanges(c, Leave(c, rest))
          /\ Leave(c, rest).near = "open" =>
                 Leave(c, rest).req = <<>> /\ Leave(c, rest).rep = <<>> /\ ~Busy(mine[c])
      BY <1>1, <1>2, <1>3, <1>4, LeaveKeeps
    <2> QED BY <1>1, <1>3, <1>4, <2>1, ReturnKeeps
  <1>5. CASE k.rep # <<>> /\ Fails(c, rest)
    BY <1>1, <1>2, <1>3, <1>5, FailsKeeps
  <1>6. CASE k.rep = <<>> /\ k.far = "closed" /\ Fails(c, k)
    <2>1. k.req = <<>> /\ ~Busy(mine[c])
      BY <1>2, <1>6 DEF IInv, QuietOK, EndsOK, Busy
    <2> QED BY <1>1, <1>2, <1>6, <2>1, FailsKeeps
  <1> QED BY <1>4, <1>5, <1>6 DEF Recv, rest

LEMMA QuitKeeps ==
    ASSUME IInv, NEW c \in Clients, Quit(c)
    PROVE  IInv'
  <1>1. /\ pc' = [pc EXCEPT ![c] = "idle"] /\ asked' = [asked EXCEPT ![c] = Nothing]
        /\ result' = [result EXCEPT ![c] = None] /\ conn' = [conn EXCEPT ![mine[c]] = close(@)]
        /\ UNCHANGED <<daemon, backlog, serving, job, mine, attempt, ran>>
        /\ UNCHANGED <<daemonVars, mine>>
    BY DEF Quit, daemonVars
  <1>2. LinkChanges(c, close(conn[mine[c]])) /\ close(conn[mine[c]]).near = "closed"
    BY <1>1, Closing
  <1>3. /\ None \in [outcome : {"none", "ok", "err", "killed"}, of : Requests \cup {Nothing}]
        /\ None.outcome # "ok"
    BY DEF None
  <1>4. /\ pc' \in [Clients -> {"idle", "dial", "redial", "retry", "send", "recv"}]
        /\ asked' \in [Clients -> Requests \cup {Nothing}]
        /\ result' \in [Clients -> [outcome : {"none", "ok", "err", "killed"},
                                    of : Requests \cup {Nothing}]]
    BY <1>1, <1>3 DEF IInv, TypeOK
  <1>5. /\ pc'[c] = "idle" /\ result'[c] = None
        /\ \A d \in Clients \ {c} : pc'[d] = pc[d] /\ asked'[d] = asked[d] /\ result'[d] = result[d]
    BY <1>1, <1>3 DEF IInv, TypeOK
  <1>6. Others(c)
    BY <1>1, <1>2, <1>5, LinkKept DEF Others
  <1>7. CallOK(c)'
    BY <1>1, <1>2, <1>3, <1>5, LinkKept DEF CallOK, connected
  <1>8. RunOK(c)'
    BY <1>1, <1>3, <1>5, ClientFacts DEF RunOK
  <1>9. /\ conn' \in [Conns -> Links] /\ EndsOK' /\ QuietOK' /\ MineOK(c)'
    BY <1>2, LinkKept
  <1>10. /\ mine' \in [Clients -> Conns] /\ backlog' \in Seq(Conns) /\ UNCHANGED daemon
         /\ attempt' \in [Clients -> {1, 2}] /\ ran' \in [Clients -> 0..3]
    BY <1>1 DEF IInv, TypeOK
  <1> QED BY <1>4, <1>6, <1>7, <1>8, <1>9, <1>10, ClientStepKeeps
-----------------------------------------------------------------------------
(***************************************************************************)
(* The steps of the daemon.                                                *)
(***************************************************************************)
\* A client with no connection open has none afterwards, whatever the daemon does.
LEMMA Unconnected ==
    ASSUME NEW d \in Clients, ClientOK(d), ~connected(d), ~connected(d)',
           mine'[d] = mine[d], pc'[d] = pc[d], attempt'[d] = attempt[d], asked'[d] = asked[d],
           result'[d] = result[d], ran'[d] = ran[d],
           \A k \in {d} \X {0, 1} : conn'[k].near = "open" => conn[k].near = "open"
    PROVE  ClientOK(d)'
  <1>1. MineOK(d)'
    BY DEF ClientOK, MineOK
  <1>2. CallOK(d)'
    BY DEF ClientOK, CallOK, connected
  <1>3. RunOK(d)'
    BY <1>2 DEF ClientOK, RunOK, CallOK, connected
  <1> QED BY <1>1, <1>2, <1>3 DEF ClientOK

\* The daemon works on one connection, x afterwards; the clients go nowhere.
Serves(x) ==
    /\ serving \in Conns
    /\ conn' = [conn EXCEPT ![serving] = x]
    /\ x \in Links
    /\ x.near = "open" => conn[serving].near = "open"
    /\ serving' \in {serving, Nothing}
    /\ UNCHANGED <<daemon, backlog, mine, callVars, pc>>

LEMMA ServesKeeps ==
    ASSUME IInv, NEW x, Serves(x),
           job' \in Requests \cup {Nothing}, ran' \in [Clients -> 0..3],
           serving' = Nothing => job' = Nothing,
           x.far = "open" <=> serving' = serving,
           x.near = "closed" => x.rep = <<>>, x.far = "closed" => x.req = <<>>,
           \A c \in Clients : ~(mine[c] = serving /\ connected(c)) => ran'[c] = ran[c],
           x.near = conn[serving].near \/ conn[serving].near = "closed",
           \A c \in Clients : mine[c] = serving /\ connected(c) => ClientOK(c)'
    PROVE  IInv'
  <1>1. /\ conn \in [Conns -> Links] /\ conn' \in [Conns -> Links] /\ conn'[serving] = x
        /\ \A k \in Conns : k # serving => conn'[k] = conn[k]
    BY DEF IInv, TypeOK, Serves, Links
  <1>2. TypeOK'
    BY <1>1 DEF IInv, TypeOK, Serves, Links, callVars
  <1>3. EndsOK'
    <2>1. Nothing \notin Conns /\ ~Among(backlog, serving) /\ backlog' = backlog /\ daemon' = daemon
      BY OwnersDiffer DEF Serves, IInv, EndsOK
    <2>2. ~Among(backlog, Nothing)
      BY OwnersDiffer DEF IInv, TypeOK, Among
    <2> QED BY <1>1, <2>1, <2>2 DEF IInv, EndsOK, Serves, Among
  <1>4. QuietOK'
    BY <1>1 DEF IInv, QuietOK
  <1>5. ASSUME NEW c \in Clients PROVE ClientOK(c)'
    <2>1. /\ mine'[c] = mine[c] /\ pc'[c] = pc[c] /\ attempt'[c] = attempt[c]
          /\ asked'[c] = asked[c] /\ result'[c] = result[c]
      BY DEF Serves, callVars
    <2>2. \A k \in {c} \X {0, 1} : conn'[k].near = "open" => conn[k].near = "open"
      BY <1>1, OwnersDiffer DEF Serves
    <2>3. mine[c] \in Conns /\ ClientOK(c)
      BY ClientFacts DEF IInv
    <2>4. CASE mine[c] = serving /\ connected(c)
      BY <2>4
    <2>5. CASE ~connected(c)
      <3>1. conn'[mine[c]].near # "open"
        BY <1>1, <2>3, <2>5 DEF connected, Serves
      <3>2. ~connected(c)' /\ ran'[c] = ran[c]
        BY <2>1, <2>5, <3>1 DEF connected
      <3> QED BY <2>1, <2>2, <2>3, <2>5, <3>2, Unconnected
    <2>6. CASE mine[c] # serving
      <3>1. ~Busy(mine[c]) /\ ~Busy(mine[c])'
        BY <2>1, <2>3, <2>6, OwnersDiffer DEF Busy, Serves
      <3>2. conn'[mine[c]] = conn[mine[c]] /\ ran'[c] = ran[c]
        BY <1>1, <2>3, <2>6
      <3> QED BY <2>1, <2>2, <2>3, <3>1, <3>2, Untouched
    <2> QED BY <2>4, <2>5, <2>6
  <1> QED BY <1>2, <1>3, <1>4, <1>5 DEF IInv

LEMMA AcceptKeeps ==
    ASSUME IInv, Accept
    PROVE  IInv'
  <1>1. /\ serving = Nothing /\ backlog # <<>> /\ daemon = "up"
        /\ serving' = Head(backlog) /\ backlog' = Tail(backlog)
        /\ UNCHANGED <<daemon, job, conn, mine, attempt, asked, result, pc, ran>>
    BY DEF Accept, callVars
  <1>2. /\ backlog \in Seq(Conns) /\ Head(backlog) \in Conns /\ Tail(backlog) \in Seq(Conns)
        /\ \A j : Among(backlog, j) <=> Among(Tail(backlog), j) \/ j = Head(backlog)
        /\ Distinct(Tail(backlog)) /\ ~Among(Tail(backlog), Head(backlog)) /\ job = Nothing
    BY <1>1, Dequeued DEF IInv, TypeOK, EndsOK
  <1>3. TypeOK'
    BY <1>1, <1>2 DEF IInv, TypeOK
  <1>4. EndsOK'
    BY <1>1, <1>2, OwnersDiffer DEF IInv, EndsOK
  <1>5. QuietOK'
    BY <1>1 DEF IInv, QuietOK
  <1>6. ASSUME NEW c \in Clients PROVE ClientOK(c)'
    BY <1>1, <1>2, Untouched DEF IInv, Busy
  <1> QED BY <1>3, <1>4, <1>5, <1>6 DEF IInv

LEMMA TakeKeeps ==
    ASSUME IInv, Take
    PROVE  IInv'
  <1> DEFINE k == conn[serving]
             x == [k EXCEPT !.req = Tail(@)]
  <1>1. /\ serving \in Conns /\ job = Nothing /\ k.req # <<>> /\ k \in Links
        /\ job' = Head(k.req) /\ conn' = [conn EXCEPT ![serving] = x]
        /\ UNCHANGED <<serving, daemon, backlog, mine, callVars, pc>>
    BY DEF Take, IInv, TypeOK, Links
  <1>2. Head(k.req) \in Requests /\ Tail(k.req) \in Seq(Requests)
    BY <1>1 DEF Links
  <1>3. /\ x \in Links /\ x.near = k.near /\ x.far = k.far /\ x.rep = k.rep
        /\ x.req = Tail(k.req)
    BY <1>1, <1>2, Relined, EmptyLines
  <1> HIDE DEF x
  <1>4. k.far = "open" /\ (k.near = "closed" => k.rep = <<>>)
    BY <1>1 DEF IInv, EndsOK, QuietOK
  <1>5. /\ ran' \in [Clients -> 0..3]
        /\ \A c \in Clients : ~(mine[c] = serving /\ connected(c)) => ran'[c] = ran[c]
        /\ \A c \in Clients : mine[c] = serving /\ connected(c) /\ ran[c] < 3 =>
               ran'[c] = ran[c] + 1
    <2>1. ran \in [Clients -> 0..3]
      BY DEF IInv, TypeOK
    <2>2. ran' = [c \in Clients |-> IF mine[c] = serving /\ k.near = "open" /\ ran[c] < 3
                                    THEN ran[c] + 1 ELSE ran[c]]
      BY DEF Take
    <2> QED BY <2>1, <2>2 DEF connected
  <1>6. Serves(x)
    BY <1>1, <1>3 DEF Serves
  <1>7. ASSUME NEW c \in Clients, mine[c] = serving, connected(c) PROVE ClientOK(c)'
    <2>1. /\ MineOK(c) /\ CallOK(c) /\ RunOK(c) /\ ran[c] \in 0..3 /\ attempt[c] \in {1, 2}
          /\ mine'[c] = mine[c] /\ pc'[c] = pc[c] /\ attempt'[c] = attempt[c]
          /\ asked'[c] = asked[c] /\ result'[c] = result[c]
      BY <1>1, ClientFacts DEF callVars
    <2>2. pc[c] = "recv" /\ k.req = <<asked[c]>> /\ k.rep = <<>> /\ ran[c] < attempt[c]
      BY <1>1, <1>7, <2>1, Single DEF CallOK, InFlight, RunOK
    <2>3. x.req = <<>> /\ job' = asked[c] /\ asked[c] \in Requests
      BY <1>1, <1>3, <2>1, <2>2, Single DEF CallOK
    <2>4. conn'[serving] = x /\ serving' = serving
          /\ \A j \in Conns : conn'[j].near = conn[j].near
      BY <1>1, <1>3 DEF IInv, TypeOK
    <2>5. Busy(mine[c])'
      BY <1>7, <2>1, <2>3, <2>4, ClientAssumption DEF Busy
    <2>6. ran'[c] = ran[c] + 1
      BY <1>5, <1>7, <2>1, <2>2
    <2>7. MineOK(c)'
      BY <2>1, <2>4, OwnersDiffer DEF MineOK
    <2>8. CallOK(c)'
      BY <1>3, <1>7, <2>1, <2>2, <2>3, <2>4, <2>5 DEF CallOK, InFlight, connected
    <2>9. RunOK(c)'
      BY <1>3, <1>7, <2>1, <2>2, <2>3, <2>4, <2>6 DEF RunOK
    <2> QED BY <2>7, <2>8, <2>9 DEF ClientOK
  <1>8. serving' # Nothing /\ serving' = serving
    BY <1>1, OwnersDiffer
  <1> QED BY <1>1, <1>2, <1>3, <1>4, <1>5, <1>6, <1>7, <1>8, ServesKeeps

LEMMA AnswerKeeps ==
    ASSUME IInv, Answer
    PROVE  IInv'
  <1> DEFINE k == conn[serving]
  <1>1. /\ job # Nothing /\ job \in Requests /\ job' = Nothing /\ serving \in Conns /\ k \in Links
        /\ k.far = "open" /\ UNCHANGED <<daemon, backlog, mine, callVars, pc, ran>>
        /\ ran \in [Clients -> 0..3] /\ ~Busy(serving)'
    BY DEF Answer, IInv, TypeOK, EndsOK, Links, Busy
  <1>2. CASE /\ k.near = "open" /\ UNCHANGED serving
             /\ \E r \in Replies : conn' = [conn EXCEPT ![serving].rep = Append(@, r)]
    <2>1. PICK r \in Replies : conn' = [conn EXCEPT ![serving].rep = Append(@, r)]
      BY <1>2
    <2>2. r \in Line /\ r.of = job
      BY <1>1 DEF Replies, Line
    <2> DEFINE x == [k EXCEPT !.rep = Append(@, r)]
    <2>3. /\ x \in Links /\ x.near = "open" /\ x.far = "open" /\ x.req = k.req
          /\ x.rep = Append(k.rep, r) /\ Append(k.rep, r) # <<>>
      <3>1. Append(k.rep, r) \in Seq(Line) /\ Append(k.rep, r) # <<>>
        BY <1>1, <2>2 DEF Links
      <3>2. x = [k EXCEPT !.rep = Append(k.rep, r)]
        OBVIOUS
      <3> HIDE DEF x
      <3> QED BY <1>1, <1>2, <3>1, <3>2, Relined, EmptyLines
    <2>4. conn' = [conn EXCEPT ![serving] = x]
      BY <2>1
    <2> HIDE DEF x
    <2>5. Serves(x)
      BY <1>1, <1>2, <2>3, <2>4 DEF Serves
    <2>6. ASSUME NEW c \in Clients, mine[c] = serving, connected(c) PROVE ClientOK(c)'
      <3>1. /\ MineOK(c) /\ CallOK(c) /\ RunOK(c) /\ Busy(mine[c])
            /\ mine'[c] = mine[c] /\ pc'[c] = pc[c] /\ attempt'[c] = attempt[c]
            /\ asked'[c] = asked[c] /\ result'[c] = result[c] /\ ran'[c] = ran[c]
        BY <1>1, <2>6, ClientFacts DEF callVars, Busy
      <3>2. pc[c] = "recv" /\ k.req = <<>> /\ k.rep = <<>> /\ job = asked[c] /\ ran[c] >= 1
        BY <2>6, <3>1, <1>1 DEF CallOK, InFlight, RunOK
      <3>3. x.rep = <<r>> /\ x.req = <<>>
        BY <2>3, <3>2, Single
      <3>4. conn'[serving] = x /\ \A j \in Conns : conn'[j].near = conn[j].near
        BY <1>1, <1>2, <2>3, <2>4 DEF IInv, TypeOK
      <3>5. MineOK(c)'
        BY <3>1, <3>4, OwnersDiffer DEF MineOK
      <3>6. InFlight(c)'
        <4>1. /\ conn'[mine'[c]].req = <<>> /\ conn'[mine'[c]].rep = <<r>>
              /\ ~Busy(mine[c])' /\ r.of = asked'[c]
          BY <1>1, <2>2, <2>6, <3>1, <3>2, <3>3, <3>4 DEF Busy
        <4> QED BY <2>2, <4>1 DEF InFlight
      <3>7. CallOK(c)'
        BY <2>3, <2>6, <3>1, <3>2, <3>4, <3>6 DEF CallOK, connected
      <3>8. RunOK(c)'
        BY <2>6, <3>1, <3>2, <3>3, <3>4 DEF RunOK
      <3> QED BY <3>5, <3>7, <3>8 DEF ClientOK
    <2> QED BY <1>1, <1>2, <2>3, <2>5, <2>6, ServesKeeps, OwnersDiffer
  <1>3. CASE k.near = "closed" /\ conn' = [conn EXCEPT ![serving] = Closed] /\ serving' = Nothing
    <2>1. Closed \in Links /\ Closed.near = "closed" /\ Closed.far = "closed"
          /\ Closed.req = <<>> /\ Closed.rep = <<>>
      BY NewLinks DEF Closed
    <2>2. Serves(Closed)
      BY <1>1, <1>3, <2>1 DEF Serves
    <2> QED BY <1>1, <1>3, <2>1, <2>2, ServesKeeps, OwnersDiffer DEF connected
  <1> QED BY <1>2, <1>3 DEF Answer

LEMMA HangupKeeps ==
    ASSUME IInv, Hangup
    PROVE  IInv'
  <1>1. /\ job = Nothing /\ serving \in Conns /\ conn[serving].near = "closed"
        /\ conn' = [conn EXCEPT ![serving] = Closed] /\ serving' = Nothing
        /\ UNCHANGED <<daemon, backlog, job, mine, callVars, pc, ran>>
        /\ ran \in [Clients -> 0..3]
    BY DEF Hangup, IInv, TypeOK
  <1>2. Closed \in Links /\ Closed.near = "closed" /\ Closed.far = "closed"
        /\ Closed.req = <<>> /\ Closed.rep = <<>>
    BY NewLinks DEF Closed
  <1>3. Serves(Closed)
    BY <1>1, <1>2 DEF Serves
  <1> QED BY <1>1, <1>2, <1>3, ServesKeeps, OwnersDiffer DEF connected

LEMMA DieKeeps ==
    ASSUME IInv, Die
    PROVE  IInv'
  <1>1. /\ daemon' = "down" /\ backlog' = <<>> /\ serving' = Nothing /\ job' = Nothing
        /\ conn' = [k \in Conns |-> [conn[k] EXCEPT !.far = "closed", !.req = <<>>]]
        /\ UNCHANGED <<mine, attempt, asked, result, pc, ran>>
    BY DEF Die, callVars
  <1>2. ASSUME NEW k \in Conns
        PROVE  /\ conn[k] \in Links /\ conn'[k] \in Links /\ conn'[k].far = "closed"
               /\ conn'[k].req = <<>> /\ conn'[k].near = conn[k].near /\ conn'[k].rep = conn[k].rep
    <2>1. conn[k] \in Links
      BY DEF IInv, TypeOK, Links
    <2>2. conn'[k] = [conn[k] EXCEPT !.far = "closed", !.req = <<>>]
      BY <1>1
    <2> QED BY <2>1, <2>2, EmptyLines DEF Links
  <1>3. TypeOK'
    <2>1. conn' \in [Conns -> Links]
      BY <1>1, <1>2
    <2>2. conn' \in [Conns -> [near : {"open", "closed"}, far : {"open", "closed"},
                               req : Seq(Requests), rep : Seq(Line)]]
      BY <2>1 DEF Links
    <2>3. <<>> \in Seq(Conns)
      OBVIOUS
    <2> QED BY <1>1, <2>2, <2>3 DEF IInv, TypeOK
  <1>4. EndsOK'
    BY <1>1, <1>2, EmptyQueue, OwnersDiffer DEF EndsOK
  <1>5. QuietOK'
    BY <1>2 DEF IInv, QuietOK
  <1>6. ASSUME NEW c \in Clients PROVE ClientOK(c)'
    <2>1. mine[c] \in Conns /\ MineOK(c) /\ CallOK(c) /\ RunOK(c) /\ ~Busy(mine[c])'
      BY <1>1, ClientFacts DEF Busy
    <2>2. MineOK(c)'
      BY <1>1, <1>2, <2>1, OwnersDiffer DEF MineOK
    <2>3. CallOK(c)'
      BY <1>1, <1>2, <2>1 DEF CallOK, InFlight, connected
    <2>4. RunOK(c)'
      BY <1>1, <1>2, <2>1 DEF RunOK
    <2> QED BY <2>2, <2>3, <2>4 DEF ClientOK
  <1> QED BY <1>3, <1>4, <1>5, <1>6 DEF IInv

LEMMA RestartKeeps ==
    ASSUME IInv, Restart
    PROVE  IInv'
  <1>1. /\ daemon' = "up"
        /\ UNCHANGED <<backlog, serving, job, conn, mine, attempt, asked, result, pc, ran>>
    BY DEF Restart, callVars
  <1>2. TypeOK' /\ EndsOK' /\ QuietOK'
    BY <1>1 DEF IInv, TypeOK, EndsOK, QuietOK
  <1>3. ASSUME NEW c \in Clients PROVE ClientOK(c)'
    BY <1>1, Untouched DEF IInv, Busy
  <1> QED BY <1>2, <1>3 DEF IInv

LEMMA StutterKeeps ==
    ASSUME IInv, UNCHANGED vars
    PROVE  IInv'
  <1>1. UNCHANGED <<daemon, backlog, serving, job, conn, mine, attempt, asked, result, pc, ran>>
    BY DEF vars, daemonVars, callVars
  <1>2. TypeOK' /\ EndsOK' /\ QuietOK'
    BY <1>1 DEF IInv, TypeOK, EndsOK, QuietOK
  <1>3. ASSUME NEW c \in Clients PROVE ClientOK(c)'
    BY <1>1, Untouched DEF IInv, Busy
  <1> QED BY <1>2, <1>3 DEF IInv

LEMMA AlwaysIInv == Spec => []IInv
  <1>1. ASSUME IInv, Next PROVE IInv'
    <2>1. ASSUME NEW c \in Clients, Dial(c) PROVE IInv'
      BY <1>1, <2>1, DialKeeps
    <2>2. ASSUME NEW c \in Clients, Redial(c) PROVE IInv'
      BY <1>1, <2>2, RedialKeeps
    <2>3. ASSUME NEW c \in Clients, Retry(c) PROVE IInv'
      BY <1>1, <2>3, RetryKeeps
    <2>4. ASSUME NEW c \in Clients, Send(c) PROVE IInv'
      BY <1>1, <2>4, SendKeeps
    <2>5. ASSUME NEW c \in Clients, Recv(c) PROVE IInv'
      BY <1>1, <2>5, RecvKeeps
    <2>6. ASSUME NEW c \in Clients, Quit(c) PROVE IInv'
      BY <1>1, <2>6, QuitKeeps
    <2>7. ASSUME NEW c \in Clients, NEW r \in Requests, Call(c, r) PROVE IInv'
      BY <1>1, <2>7, CallKeeps
    <2>8. CASE Accept
      BY <1>1, <2>8, AcceptKeeps
    <2>9. CASE Take
      BY <1>1, <2>9, TakeKeeps
    <2>10. CASE Answer
      BY <1>1, <2>10, AnswerKeeps
    <2>11. CASE Hangup
      BY <1>1, <2>11, HangupKeeps
    <2>12. CASE Die
      BY <1>1, <2>12, DieKeeps
    <2>13. CASE Restart
      BY <1>1, <2>13, RestartKeeps
    <2> QED BY <1>1, <2>1, <2>2, <2>3, <2>4, <2>5, <2>6, <2>7, <2>8, <2>9, <2>10, <2>11,
               <2>12, <2>13 DEF Next, ClientStep, DaemonStep
  <1>2. IInv /\ [Next]_vars => IInv'
    BY <1>1, StutterKeeps
  <1> QED BY InitIInv, <1>2, PTL DEF Spec
-----------------------------------------------------------------------------
(***************************************************************************)
(* The theorems.                                                           *)
(***************************************************************************)
\* Whatever connections are made and dropped and whoever dies, the reply a client reads next is
\* the reply to what it asked: recv_line after send_line needs no number to match them by.
THEOREM RepliesMatch == Spec => []OwnAnswer
  <1>1. IInv => OwnAnswer
    BY DEF IInv, ClientOK, CallOK, OwnAnswer
  <1> QED BY <1>1, AlwaysIInv, PTL

\* The range of a sequence without repetition has as many elements as the sequence is long.
LEMMA AsManyAsLong ==
    ASSUME NEW s \in Seq(Conns), Distinct(s)
    PROVE  /\ IsFiniteSet({s[i] : i \in DOMAIN s})
           /\ Cardinality({s[i] : i \in DOMAIN s}) = Len(s)
  <1> DEFINE S == {s[i] : i \in DOMAIN s}
             f == [i \in 1..Len(s) |-> s[i]]
  <1>1. Len(s) \in Nat /\ DOMAIN s = 1..Len(s)
    OBVIOUS
  <1>2. f \in Bijection(1..Len(s), S)
    <2>1. f \in [1..Len(s) -> S] /\ \A y \in S : \E i \in 1..Len(s) : f[i] = y
      BY <1>1
    <2>2. \A i, j \in 1..Len(s) : f[i] = f[j] => i = j
      BY <1>1 DEF Distinct
    <2> QED BY <2>1, <2>2 DEF Bijection, Injection, Surjection, IsInjective
  <1> HIDE DEF S, f
  <1>3. ExistsBijection(1..Len(s), S)
    BY <1>2 DEF ExistsBijection
  <1>4. IsFiniteSet(S) /\ Cardinality(S) = Len(s)
    BY <1>1, <1>3, FS_CountingElements, FS_NatBijection
  <1> QED BY <1>4 DEF S

LEMMA Held ==
    ASSUME IInv
    PROVE  FarEndsOwned
  <1> DEFINE B == {backlog[i] : i \in DOMAIN backlog}
             held == B \cup ({serving} \ {Nothing})
  <1>1. backlog \in Seq(Conns) /\ Distinct(backlog) /\ (serving = Nothing \/ serving \in Conns)
        /\ serving \notin B
    BY DEF IInv, TypeOK, EndsOK, Among
  <1>2. \A k \in Conns : conn[k].far = "open" <=> k \in held
    BY OwnersDiffer DEF IInv, EndsOK, Among
  <1>3. IsFiniteSet(B) /\ Cardinality(B) = Len(backlog) /\ Len(backlog) \in Nat
    BY <1>1, AsManyAsLong
  <1>4. Cardinality(held) = Len(backlog) + (IF serving = Nothing THEN 0 ELSE 1)
    <2> HIDE DEF B
    <2>1. CASE serving = Nothing
      <3>1. held = B
        BY <2>1
      <3> HIDE DEF held
      <3> QED BY <1>3, <2>1, <3>1
    <2>2. CASE serving # Nothing
      <3>1. held = B \cup {serving}
        BY <2>2
      <3>2. Cardinality(B \cup {serving}) = Cardinality(B) + 1
        BY <1>1, <1>3, FS_AddElement
      <3> HIDE DEF held
      <3> QED BY <1>3, <2>2, <3>1, <3>2
    <2> QED BY <2>1, <2>2
  <1> QED BY <1>2, <1>4 DEF FarEndsOwned

\* The daemon holds the far ends of the connections that wait and of the one it serves, no other
\* and each once, whoever leaves or dies; and it begins a request at most twice for one call,
\* once for a host that does not retry (frontend_posix.cpp:36).
THEOREM SocketsAreKept == Spec => []Consistent
  <1>1. IInv => RunAtMostTwice
    <2> SUFFICES ASSUME IInv, NEW c \in Clients
                 PROVE  /\ ran[c] <= (IF c \in Retriers THEN 2 ELSE 1)
                        /\ result[c].outcome = "ok" => ran[c] >= 1
      BY DEF RunAtMostTwice
    <2> QED BY ClientFacts DEF RunOK
  <1>2. IInv => Consistent
    BY <1>1, Held DEF IInv, Consistent
  <1> QED BY <1>2, AlwaysIInv, PTL
=============================================================================
