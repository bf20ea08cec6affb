------------------------ MODULE HarnessProcessProofs ------------------------
(***************************************************************************)
(* What the steps of HarnessProcess do to the lines on their way from a    *)
(* worker to the engine, whatever these lines are: lemmas for the proofs   *)
(* about the two engines.                                                  *)
(***************************************************************************)
EXTENDS HarnessProcess, SequenceTheorems, TLAPS

\* Every line is one of Q.
Only(s, Q) == \A i \in DOMAIN s : s[i] \in Q

\* After a line of E there is nothing but lines of Q.
Last(s, E, Q) == \A i, j \in DOMAIN s : i < j /\ s[i] \in E => s[j] \in Q

\* The pipes hold lines of L, and those it has yet to print are such lines too.
Typed(L) == rbuf \in Seq(L) /\ stdout \in Seq(L) /\ worker.todo \in Seq(L)

Workers(L) == [state : {"none", "alive", "dead"}, todo : Seq(L)]

-----------------------------------------------------------------------------
(***************************************************************************)
(* Sequences.                                                              *)
(***************************************************************************)
LEMMA OnlyNothing == ASSUME NEW Q, NEW E PROVE Only(<<>>, Q) /\ Last(<<>>, E, Q)
  BY DEF Only, Last

LEMMA OnlyOne == ASSUME NEW Q, NEW x \in Q PROVE Only(<<x>>, Q)
  BY DEF Only

\* Where there are only lines of Q, there are only such lines after one of E.
LEMMA OnlyLast == ASSUME NEW s, NEW E, NEW Q, Only(s, Q) PROVE Last(s, E, Q)
  BY DEF Only, Last

\* Two sequences together have only lines of Q when each has.
LEMMA OnlyConcat ==
    ASSUME NEW S, NEW Q, NEW s \in Seq(S), NEW t \in Seq(S)
    PROVE  Only(s \o t, Q) <=> Only(s, Q) /\ Only(t, Q)
  <1>1. /\ s \o t \in Seq(S) /\ Len(s \o t) = Len(s) + Len(t)
        /\ \A i \in 1..Len(s) + Len(t) :
               (s \o t)[i] = IF i <= Len(s) THEN s[i] ELSE t[i - Len(s)]
    BY ConcatProperties
  <1>2. /\ Len(s) \in Nat /\ Len(t) \in Nat
        /\ DOMAIN s = 1..Len(s) /\ DOMAIN t = 1..Len(t)
        /\ DOMAIN (s \o t) = 1..Len(s) + Len(t)
    BY <1>1, LenProperties
  <1>3. ASSUME Only(s, Q), Only(t, Q) PROVE Only(s \o t, Q)
    <2> SUFFICES ASSUME NEW i \in DOMAIN (s \o t) PROVE (s \o t)[i] \in Q
      BY DEF Only
    <2>1. CASE i <= Len(s)
      BY <1>1, <1>2, <1>3, <2>1 DEF Only
    <2>2. CASE ~(i <= Len(s))
      <3>1. i - Len(s) \in DOMAIN t
        BY <1>2, <2>2
      <3> QED BY <1>1, <1>2, <1>3, <2>2, <3>1 DEF Only
    <2> QED BY <2>1, <2>2
  <1>4. ASSUME Only(s \o t, Q) PROVE Only(s, Q) /\ Only(t, Q)
    <2>1. ASSUME NEW i \in DOMAIN s PROVE s[i] \in Q
      BY <1>1, <1>2, <1>4, <2>1 DEF Only
    <2>2. ASSUME NEW i \in DOMAIN t PROVE t[i] \in Q
      <3>1. i + Len(s) \in DOMAIN (s \o t) /\ (i + Len(s)) - Len(s) = i /\ ~(i + Len(s) <= Len(s))
        BY <1>2, <2>2
      <3> QED BY <1>1, <1>2, <1>4, <3>1 DEF Only
    <2> QED BY <2>1, <2>2 DEF Only
  <1> QED BY <1>3, <1>4

\* A sequence cut short keeps its order.
LEMMA LastPrefix ==
    ASSUME NEW S, NEW E, NEW Q, NEW s \in Seq(S), NEW t \in Seq(S), Last(s \o t, E, Q)
    PROVE  Last(s, E, Q)
  <1>1. /\ s \o t \in Seq(S) /\ Len(s \o t) = Len(s) + Len(t)
        /\ \A i \in 1..Len(s) + Len(t) :
               (s \o t)[i] = IF i <= Len(s) THEN s[i] ELSE t[i - Len(s)]
    BY ConcatProperties
  <1>2. /\ Len(s) \in Nat /\ Len(t) \in Nat
        /\ DOMAIN s = 1..Len(s) /\ DOMAIN (s \o t) = 1..Len(s) + Len(t)
    BY <1>1, LenProperties
  <1>3. \A i \in DOMAIN s : i \in DOMAIN (s \o t) /\ (s \o t)[i] = s[i]
    BY <1>1, <1>2
  <1> QED BY <1>3 DEF Last

\* Lines of Q, none of them of E, before a sequence.
LEMMA OnlyBefore ==
    ASSUME NEW S, NEW E, NEW Q, Q \cap E = {}, NEW s \in Seq(S), NEW t \in Seq(S), Only(s, Q), Last(t, E, Q)
    PROVE  Last(s \o t, E, Q)
  <1>1. /\ s \o t \in Seq(S) /\ Len(s \o t) = Len(s) + Len(t)
        /\ \A i \in 1..Len(s) + Len(t) :
               (s \o t)[i] = IF i <= Len(s) THEN s[i] ELSE t[i - Len(s)]
    BY ConcatProperties
  <1>2. /\ Len(s) \in Nat /\ Len(t) \in Nat
        /\ DOMAIN s = 1..Len(s) /\ DOMAIN t = 1..Len(t)
        /\ DOMAIN (s \o t) = 1..Len(s) + Len(t)
    BY <1>1, LenProperties
  <1> SUFFICES ASSUME NEW i \in DOMAIN (s \o t), NEW j \in DOMAIN (s \o t),
                      i < j, (s \o t)[i] \in E
               PROVE  (s \o t)[j] \in Q
    BY DEF Last
  <1>3. ~(i <= Len(s))
    BY <1>1, <1>2 DEF Only
  <1>4. i - Len(s) \in DOMAIN t /\ j - Len(s) \in DOMAIN t /\ i - Len(s) < j - Len(s)
        /\ (s \o t)[i] = t[i - Len(s)] /\ (s \o t)[j] = t[j - Len(s)]
    BY <1>1, <1>2, <1>3
  <1> QED BY <1>4 DEF Last

\* Reading the first line of two sequences.
LEMMA FirstRead ==
    ASSUME NEW S, NEW E, NEW Q, NEW s \in Seq(S), NEW t \in Seq(S), s # <<>>
    PROVE  /\ Tail(s) \o t \in Seq(S)
           /\ Only(s \o t, Q) => Head(s) \in Q /\ Only(Tail(s) \o t, Q)
           /\ Last(s \o t, E, Q) => Last(Tail(s) \o t, E, Q)
           /\ Last(s \o t, E, Q) /\ Head(s) \in E
                => Only(Tail(s) \o t, Q)
  <1> DEFINE u == s \o t
             v == Tail(s) \o t
  <1>1. Len(s) \in Nat /\ Len(s) >= 1 /\ Len(t) \in Nat
    BY LenProperties, EmptySeq
  <1>2. /\ Tail(s) \in Seq(S) /\ Len(Tail(s)) = Len(s) - 1 /\ Head(s) = s[1]
        /\ \A i \in 1..Len(s) - 1 : Tail(s)[i] = s[i + 1]
    BY HeadTailProperties
  <1>3. /\ u \in Seq(S) /\ Len(u) = Len(s) + Len(t)
        /\ \A i \in 1..Len(s) + Len(t) : u[i] = IF i <= Len(s) THEN s[i] ELSE t[i - Len(s)]
    BY ConcatProperties
  <1>4. /\ v \in Seq(S) /\ Len(v) = Len(Tail(s)) + Len(t)
        /\ \A i \in 1..Len(Tail(s)) + Len(t) :
               v[i] = IF i <= Len(Tail(s)) THEN Tail(s)[i] ELSE t[i - Len(Tail(s))]
    BY <1>2, ConcatProperties
  <1>5. DOMAIN u = 1..Len(s) + Len(t) /\ DOMAIN v = 1..Len(s) + Len(t) - 1
    BY <1>1, <1>2, <1>3, <1>4, LenProperties
  <1>6. ASSUME NEW i \in DOMAIN v PROVE i + 1 \in DOMAIN u /\ v[i] = u[i + 1] /\ i \in Nat
    <2>1. i \in 1..Len(s) + Len(t) - 1 /\ i + 1 \in 1..Len(s) + Len(t)
      BY <1>1, <1>5
    <2>2. CASE i <= Len(s) - 1
      <3>1. v[i] = s[i + 1] /\ u[i + 1] = s[i + 1]
        BY <1>1, <1>2, <1>3, <1>4, <2>1, <2>2
      <3> QED BY <1>5, <2>1, <3>1
    <2>3. CASE ~(i <= Len(s) - 1)
      <3>1. v[i] = t[i - (Len(s) - 1)] /\ u[i + 1] = t[(i + 1) - Len(s)]
        BY <1>1, <1>2, <1>3, <1>4, <2>1, <2>3
      <3>2. i - (Len(s) - 1) = (i + 1) - Len(s)
        BY <1>1, <2>1
      <3> QED BY <1>5, <2>1, <3>1, <3>2
    <2> QED BY <2>2, <2>3
  <1>7. 1 \in DOMAIN u /\ u[1] = Head(s) /\ \A i \in DOMAIN v : 1 < i + 1
    BY <1>1, <1>2, <1>3, <1>5, <1>6
  <1>8. \A i, j \in DOMAIN v : i < j => i + 1 < j + 1
    BY <1>6
  <1> HIDE DEF u, v
  <1>9. Only(u, Q) => Head(s) \in Q /\ Only(v, Q)
    BY <1>6, <1>7 DEF Only
  <1>10. Last(u, E, Q) => Last(v, E, Q)
    BY <1>6, <1>8 DEF Last
  <1>11. Last(u, E, Q) /\ Head(s) \in E => Only(v, Q)
    BY <1>6, <1>7 DEF Last, Only
  <1> QED BY <1>4, <1>9, <1>10, <1>11 DEF u, v

-----------------------------------------------------------------------------
(***************************************************************************)
(* Steps.                                                                  *)
(***************************************************************************)
LEMMA StreamTyped ==
    ASSUME NEW L, Typed(L)
    PROVE  /\ rbuf \o stdout \in Seq(L) /\ Stream \in Seq(L) /\ stdout \o worker.todo \in Seq(L)
           /\ Stream = rbuf \o (stdout \o worker.todo)
  <1>1. rbuf \in Seq(L) /\ stdout \in Seq(L) /\ worker.todo \in Seq(L)
    BY DEF Typed
  <1>2. rbuf \o stdout \in Seq(L) /\ stdout \o worker.todo \in Seq(L)
    BY <1>1, ConcatProperties
  <1>3. (rbuf \o stdout) \o worker.todo \in Seq(L)
    BY <1>1, <1>2, ConcatProperties
  <1>4. (rbuf \o stdout) \o worker.todo = rbuf \o (stdout \o worker.todo)
    <2>1. ASSUME NEW x \in Seq(L), NEW y \in Seq(L), NEW z \in Seq(L)
          PROVE  (x \o y) \o z = x \o (y \o z)
      OBVIOUS
    <2> QED BY <1>1, <2>1, Zenon
  <1> QED BY <1>1, <1>2, <1>3, <1>4 DEF Stream

\* A new worker has Ready to print, and nothing else.
LEMMA SpawnStream ==
    ASSUME NEW L, Ready \in L, spawn, rbuf' = <<>>
    PROVE  Stream' = <<Ready>> /\ Typed(L)' /\ stdin' = <<>>
  <1>1. <<>> \in Seq(L) /\ <<Ready>> \in Seq(L)
    OBVIOUS
  <1>2. rbuf' = <<>> /\ stdout' = <<>> /\ worker'.todo = <<Ready>>
    BY DEF spawn
  <1>3. (<<>> \o <<>>) \o <<Ready>> = <<Ready>>
    BY <1>1, ConcatEmptySeq
  <1> QED BY <1>1, <1>2, <1>3 DEF Stream, Typed, spawn

\* The worker is dropped: what was read and not examined stays.
LEMMA TerminateStream ==
    ASSUME NEW L, Typed(L), terminate, UNCHANGED rbuf
    PROVE  Stream' = rbuf /\ Typed(L)' /\ stdin' = <<>>
  <1>1. rbuf \in Seq(L) /\ <<>> \in Seq(L)
    BY EmptySeq DEF Typed
  <1>2. rbuf \o <<>> = rbuf
    BY <1>1, ConcatEmptySeq
  <1> QED BY <1>1, <1>2 DEF Stream, Typed, terminate, NoWorker

\* Lines that are read stay on their way.
LEMMA ReadKeepsStream ==
    ASSUME NEW L, Typed(L), ReadSome
    PROVE  Stream' = Stream /\ Typed(L)'
  <1>1. rbuf = <<>> /\ stdout \in Seq(L) /\ Len(stdout) \in Nat
    BY LenProperties DEF ReadSome, Typed
  <1>2. PICK n \in 1..Len(stdout) :
            rbuf' = SubSeq(stdout, 1, n) /\ stdout' = SubSeq(stdout, n + 1, Len(stdout))
    BY DEF ReadSome
  <1>3. \A i \in 1..Len(stdout) : stdout[i] \in L
    BY <1>1, ElementOfSeq
  <1>4. rbuf' \in Seq(L)
    BY <1>1, <1>2, <1>3, SubSeqProperties
  <1>5. stdout' \in Seq(L)
    BY <1>1, <1>2, <1>3, SubSeqProperties
  <1>6. SubSeq(stdout, 1, n) \o SubSeq(stdout, n + 1, Len(stdout)) = SubSeq(stdout, 1, Len(stdout))
    BY <1>1, ConcatAdjacentSubSeq
  <1>7. SubSeq(stdout, 1, Len(stdout)) = stdout /\ rbuf \o stdout = stdout
    BY <1>1, SubSeqFull, ConcatEmptySeq
  <1>8. rbuf' \o stdout' = rbuf \o stdout
    BY <1>2, <1>6, <1>7
  <1> QED BY <1>4, <1>5, <1>8 DEF Stream, Typed, ReadSome

\* A line that is printed stays on its way.
LEMMA PrintKeepsStream ==
    ASSUME NEW L, Typed(L), worker \in Workers(L), WorkerPrint, UNCHANGED rbuf
    PROVE  Stream' = Stream /\ Typed(L)' /\ worker' \in Workers(L)
  <1>1. /\ rbuf \in Seq(L) /\ stdout \in Seq(L)
        /\ worker.todo \in Seq(L) /\ worker.todo # <<>>
    BY DEF Typed, WorkerPrint
  <1>2. Head(worker.todo) \in L /\ Tail(worker.todo) \in Seq(L)
    BY <1>1, HeadTailProperties
  <1>3. /\ stdout' = Append(stdout, Head(worker.todo)) /\ stdout' \in Seq(L)
        /\ worker'.todo = Tail(worker.todo)
        /\ worker' \in Workers(L)
    BY <1>1, <1>2, AppendProperties DEF WorkerPrint, Workers
  <1>4. <<Head(worker.todo)>> \in Seq(L) /\ rbuf \o stdout \in Seq(L)
    BY <1>1, <1>2, ConcatProperties
  <1>5. <<Head(worker.todo)>> \o Tail(worker.todo) = worker.todo
    BY <1>1
  <1>6. Append(stdout, Head(worker.todo)) = stdout \o <<Head(worker.todo)>>
    BY <1>1, <1>2, AppendIsConcat
  <1>7. ASSUME NEW x \in Seq(L), NEW y \in Seq(L), NEW z \in Seq(L)
        PROVE  (x \o y) \o z = x \o (y \o z)
    OBVIOUS
  <1>8. (rbuf \o stdout) \o <<Head(worker.todo)>> = rbuf \o (stdout \o <<Head(worker.todo)>>)
    BY <1>1, <1>4, <1>7, ZenonT(40)
  <1>9. ((rbuf \o stdout) \o <<Head(worker.todo)>>) \o Tail(worker.todo)
            = (rbuf \o stdout) \o (<<Head(worker.todo)>> \o Tail(worker.todo))
    BY <1>2, <1>4, <1>7, Zenon
  <1>10. (rbuf \o Append(stdout, Head(worker.todo))) \o Tail(worker.todo)
             = (rbuf \o stdout) \o worker.todo
    BY <1>5, <1>6, <1>8, <1>9, Zenon
  <1> QED BY <1>1, <1>2, <1>3, <1>10 DEF Stream, Typed

\* What a dying worker had yet to print is lost.
LEMMA DieKeepsOrder ==
    ASSUME NEW L, NEW E, NEW Q, Typed(L), WorkerDie, UNCHANGED rbuf
    PROVE  /\ Only(Stream, Q) => Only(Stream', Q)
           /\ Last(Stream, E, Q) => Last(Stream', E, Q)
           /\ Typed(L)'
  <1> DEFINE s == rbuf \o stdout
  <1>1. s \in Seq(L) /\ worker.todo \in Seq(L) /\ <<>> \in Seq(L)
    BY StreamTyped, EmptySeq DEF Typed
  <1>2. Stream = s \o worker.todo /\ Stream' = s \o <<>>
    BY DEF Stream, WorkerDie
  <1>3. s \o <<>> = s
    BY <1>1, ConcatEmptySeq
  <1> HIDE DEF s
  <1>4. Stream' = s
    BY <1>2, <1>3
  <1>5. Only(Stream, Q) => Only(Stream', Q)
    BY <1>1, <1>2, <1>4, OnlyConcat
  <1>6. Last(Stream, E, Q) => Last(Stream', E, Q)
    BY <1>1, <1>2, <1>4, LastPrefix
  <1> QED BY <1>1, <1>5, <1>6 DEF WorkerDie, Typed

\* The worker takes a command: what it prints comes last.
LEMMA TakeStream ==
    ASSUME NEW L, NEW lines, Append(lines, Ready) \in Seq(L), Typed(L), WorkerTake(lines),
           UNCHANGED rbuf, worker \in Workers(L)
    PROVE  /\ Stream = rbuf \o stdout /\ Stream' = Stream \o Append(lines, Ready)
           /\ Typed(L)' /\ worker' \in Workers(L)
  <1>1. rbuf \o stdout \in Seq(L)
    BY StreamTyped
  <1>2. (rbuf \o stdout) \o <<>> = rbuf \o stdout
    BY <1>1, ConcatEmptySeq
  <1>3. worker.todo = <<>> /\ worker'.todo = Append(lines, Ready) /\ UNCHANGED stdout /\ worker' \in Workers(L)
    BY DEF WorkerTake, Workers
  <1> QED BY <1>2, <1>3 DEF Stream, Typed

\* A line is examined.
LEMMA LineRead ==
    ASSUME NEW L, NEW E, NEW Q, Typed(L), rbuf # <<>>, rbuf' = Tail(rbuf), UNCHANGED <<stdout, worker>>
    PROVE  /\ Head(rbuf) \in L /\ Typed(L)'
           /\ Only(Stream, Q) => Head(rbuf) \in Q /\ Only(Stream', Q)
           /\ Last(Stream, E, Q) => Last(Stream', E, Q)
           /\ Last(Stream, E, Q) /\ Head(rbuf) \in E => Only(Stream', Q)
  <1> DEFINE t == stdout \o worker.todo
  <1>1. rbuf \in Seq(L) /\ t \in Seq(L) /\ Stream = rbuf \o t
        /\ stdout \in Seq(L) /\ worker.todo \in Seq(L)
    BY StreamTyped DEF Typed
  <1>2. Head(rbuf) \in L /\ Tail(rbuf) \in Seq(L)
    BY <1>1, HeadTailProperties
  <1>3. ASSUME NEW x \in Seq(L), NEW y \in Seq(L), NEW z \in Seq(L)
        PROVE  (x \o y) \o z = x \o (y \o z)
    OBVIOUS
  <1>4. (Tail(rbuf) \o stdout) \o worker.todo = Tail(rbuf) \o t
    BY <1>1, <1>2, <1>3, ZenonT(40)
  <1>5. Stream' = Tail(rbuf) \o t
    BY <1>4 DEF Stream
  <1>6. Typed(L)'
    BY <1>1, <1>2 DEF Typed
  <1> HIDE DEF t
  <1> QED BY <1>1, <1>2, <1>5, <1>6, FirstRead
=============================================================================
