------------------------- MODULE BatchSessionProofs -------------------------
(***************************************************************************)
(* Proofs about BatchSession for any number of callers and readings, any   *)
(* engine answers and any cache bound.                                     *)
(***************************************************************************)
EXTENDS BatchSessionHistory, SequenceTheorems, FiniteSetTheorems, WellFoundedInduction, TLAPS

CallerPCs == {"idle", "top1_lock", "top1_run", "top1_remember", "top1_cached",
              "top1_queue", "top1_notify", "cand_get", "cand_want", "cand_lock",
              "recheck", "take", "henkan", "reconv", "put"}
WorkerPCs == {"wait", "asleep", "has", "yield", "lock", "recheck", "take", "henkan",
              "reconv", "put", "done"}
Answered == {"top1_remember", "top1_cached", "top1_queue", "top1_notify"}
Resting == {"idle", "wait", "asleep", "done"}

\* What thread t knows of its locals l when it is at p: between calls they are
\* blank; in a call the top-1 it carries is one henkan gave for its reading,
\* and a list it is about to put is a list of that reading.
Fits(t, p, l) ==
    /\ p \in IF t = Worker THEN WorkerPCs ELSE CallerPCs
    /\ p \in PCs
    /\ l \in Locals
    /\ p \in Resting => l.t1 = NoText
    /\ p \notin Resting => l.reading \in Readings
    /\ p \notin Resting => l.t1 \in Tops[l.reading] \cup {NoText}
    /\ p \in Answered => l.t1 \in Tops[l.reading]
    /\ p = "reconv" => l.hex \in 0..Len(HenkanEx[l.reading])
    /\ p = "put" => l.built \in ListsOf(l.reading)

LocalsOK == /\ pc  \in [Threads -> PCs]
            /\ loc \in [Threads -> Locals]
            /\ \A t \in Threads : Fits(t, pc[t], loc[t])

\* A remembered top-1 is one that henkan gave for that reading.
HintsOK == \A r \in Readings : hint[r] \in Tops[r] \cup {Unset}

Typing == TypeOK /\ LocalsOK /\ HintsOK

LEMMA BlankIsLocal == Blank \in Locals
  BY ValueAssumption DEF Blank, Locals

\* A step that moves one thread keeps LocalsOK if the thread fits its new place.
LEMMA MoveOne ==
    ASSUME NEW t \in Threads, NEW p, NEW l, LocalsOK, Fits(t, p, l),
           pc' = [pc EXCEPT ![t] = p], loc' = [loc EXCEPT ![t] = l]
    PROVE  LocalsOK'
  <1>1. p \in PCs /\ l \in Locals
    BY DEF Fits
  <1>2. pc' \in [Threads -> PCs] /\ loc' \in [Threads -> Locals]
    BY <1>1 DEF LocalsOK
  <1>3. ASSUME NEW u \in Threads PROVE Fits(u, pc'[u], loc'[u])
    BY <1>3 DEF LocalsOK
  <1> QED BY <1>2, <1>3 DEF LocalsOK

LEMMA MovePC ==
    ASSUME NEW t \in Threads, NEW p, LocalsOK, Fits(t, p, loc[t]),
           pc' = [pc EXCEPT ![t] = p], loc' = loc
    PROVE  LocalsOK'
  <1>1. loc' = [loc EXCEPT ![t] = loc[t]]
    BY DEF LocalsOK
  <1> QED BY <1>1, MoveOne

LEMMA BlankFits == \A t \in Threads : Fits(t, Home(t), Blank)
  BY BlankIsLocal, ThreadAssumption
     DEF Fits, Blank, Home, Threads, PCs, WorkerPCs, CallerPCs, Resting, Answered

\* A notification leaves the worker where it fits.
LEMMA WakeLocals ==
    ASSUME LocalsOK, pc' = [pc EXCEPT ![Worker] = Woken(@)], loc' = loc
    PROVE  LocalsOK'
  <1>1. Worker \in Threads
    BY DEF Threads
  <1>2. Fits(Worker, Woken(pc[Worker]), loc[Worker])
    BY <1>1 DEF LocalsOK, Fits, Woken, PCs, WorkerPCs, Resting, Answered
  <1> QED BY <1>1, <1>2, MovePC

LEMMA MergedInLists ==
    \A r \in Readings : \A top \in Tops[r] \cup {NoText}, n \in 0..Len(HenkanEx[r]) :
        MergedList(r, top, n) \in ListsOf(r)
  BY DEF ListsOf

LEMMA InitTyping == Init => Typing
  <1> SUFFICES ASSUME Init PROVE Typing
    OBVIOUS
  <1>1. LocalsOK
    <2>1. \A t \in Threads : pc[t] = Home(t) /\ loc[t] = Blank
      BY DEF Init, Home
    <2>2. pc \in [Threads -> PCs] /\ loc \in [Threads -> Locals]
      BY BlankIsLocal DEF Init, PCs
    <2> QED BY <2>1, <2>2, BlankFits DEF LocalsOK
  <1>2. TypeOK
    BY <1>1, BoundAssumption DEF LocalsOK, Init, TypeOK
  <1>3. HintsOK
    BY DEF Init, HintsOK
  <1> QED BY <1>1, <1>2, <1>3 DEF Typing

LEMMA StepLocals == Typing /\ [Next]_vars => LocalsOK'
  <1> SUFFICES ASSUME Typing, [Next]_vars PROVE LocalsOK'
    OBVIOUS
  <1>0. LocalsOK /\ HintsOK /\ TypeOK
    BY DEF Typing
  <1> USE <1>0
  <1>1. ASSUME NEW c \in Callers, NEW r \in Readings, Top1Call(c, r) PROVE LocalsOK'
    <2>0. c \in Threads /\ pc[c] = "idle"
      BY <1>1 DEF Top1Call, Goto, Threads
    <2>1. pc' = [pc EXCEPT ![c] = "top1_lock"] /\ loc' = [loc EXCEPT ![c].reading = r]
      BY <1>1 DEF Top1Call, Goto
    <2>2. LocalsOK'
      <3>1. Fits(c, "top1_lock", [loc[c] EXCEPT !.reading = r])
        <4>1. loc[c] \in Locals /\ loc[c].t1 = NoText
          BY <2>0 DEF LocalsOK, Fits, Resting
        <4>2. PICK l \in Locals : l = [loc[c] EXCEPT !.reading = r] /\ l.reading = r /\ l.t1 = NoText
          <5> DEFINE k == [loc[c] EXCEPT !.reading = r]
          <5>1. k \in Locals
            BY <4>1 DEF Locals
          <5>2. k.reading = r /\ k.t1 = loc[c].t1
            BY <4>1 DEF Locals
          <5> HIDE DEF k
          <5> QED BY <4>1, <5>1, <5>2 DEF k
        <4>3. c # Worker
          BY <1>1, ThreadAssumption
        <4>4. "top1_lock" \in CallerPCs /\ "top1_lock" \in PCs
          BY DEF CallerPCs, PCs
        <4>5. "top1_lock" \notin Resting /\ "top1_lock" \notin Answered /\ "top1_lock" \notin {"reconv", "put"}
          BY DEF Resting, Answered
        <4>6. Fits(c, "top1_lock", l)
          BY <4>2, <4>3, <4>4, <4>5 DEF Fits
        <4> QED BY <4>2, <4>6
      <3> QED BY <2>0, <3>1, <2>1, MoveOne
    <2> QED BY <2>1, <2>2
  <1>2. ASSUME NEW c \in Callers, Top1Lock(c) PROVE LocalsOK'
    <2>1. pc[c] = "top1_lock" /\ pc' = [pc EXCEPT ![c] = "top1_run"] /\ loc' = loc
      BY <1>2 DEF Top1Lock, Goto, localVars
    <2>2. c \in Threads /\ Fits(c, "top1_run", loc[c])
      BY <2>1, ThreadAssumption DEF Threads, LocalsOK, Fits, PCs, CallerPCs, WorkerPCs, Resting, Answered
    <2> QED BY <2>1, <2>2, MovePC
  <1>3. ASSUME NEW c \in Callers, Top1Run(c) PROVE LocalsOK'
    <2>0. c \in Threads /\ pc[c] = "top1_run"
      BY <1>3 DEF Top1Run, Goto, Threads
    <2>1. \/ \E top \in Tops[loc[c].reading] :
                 pc' = [pc EXCEPT ![c] = "top1_remember"] /\ loc' = [loc EXCEPT ![c].t1 = top]
          \/ pc' = [pc EXCEPT ![c] = "idle"] /\ loc' = [loc EXCEPT ![c] = Blank]
      BY <1>3 DEF Top1Run, ClearLocals, Goto
    <2>2. ASSUME NEW top \in Tops[loc[c].reading],
                 pc' = [pc EXCEPT ![c] = "top1_remember"] /\ loc' = [loc EXCEPT ![c].t1 = top]
          PROVE  LocalsOK'
      <3>1. Fits(c, "top1_remember", [loc[c] EXCEPT !.t1 = top])
        BY <2>0, <2>2, ValueAssumption, BoundAssumption, ThreadAssumption
           DEF Threads, Locals, HintsOK, LocalsOK, Fits, PCs, CallerPCs, WorkerPCs, Resting, Answered
      <3> QED BY <2>0, <3>1, <2>2, MoveOne
    <2>3. CASE pc' = [pc EXCEPT ![c] = "idle"] /\ loc' = [loc EXCEPT ![c] = Blank]
      BY <2>0, <2>3, BlankFits, MoveOne, ThreadAssumption DEF Home
    <2> QED BY <2>1, <2>2, <2>3
  <1>4. ASSUME NEW c \in Callers, Top1Remember(c) PROVE LocalsOK'
    <2>1. pc[c] = "top1_remember" /\ pc' = [pc EXCEPT ![c] = "top1_cached"] /\ loc' = loc
      BY <1>4 DEF Top1Remember, Goto, localVars
    <2>2. c \in Threads /\ Fits(c, "top1_cached", loc[c])
      BY <2>1, ThreadAssumption DEF Threads, LocalsOK, Fits, PCs, CallerPCs, WorkerPCs, Resting, Answered
    <2> QED BY <2>1, <2>2, MovePC
  <1>5. ASSUME NEW c \in Callers, Top1Cached(c) PROVE LocalsOK'
    <2>0. c \in Threads /\ pc[c] = "top1_cached"
      BY <1>5 DEF Top1Cached, Goto, Threads
    <2>1. \/ pc' = [pc EXCEPT ![c] = "idle"] /\ loc' = [loc EXCEPT ![c] = Blank]
          \/ pc' = [pc EXCEPT ![c] = "top1_queue"] /\ loc' = loc
      BY <1>5 DEF Top1Cached, ReturnTop1, ClearLocals, Goto
    <2>2. CASE pc' = [pc EXCEPT ![c] = "idle"] /\ loc' = [loc EXCEPT ![c] = Blank]
      BY <2>0, <2>2, BlankFits, MoveOne, ThreadAssumption DEF Home
    <2>3. CASE pc' = [pc EXCEPT ![c] = "top1_queue"] /\ loc' = loc
      <3>1. Fits(c, "top1_queue", loc[c])
        BY <2>0, ThreadAssumption DEF Threads, LocalsOK, Fits, PCs, CallerPCs, WorkerPCs, Resting, Answered
      <3> QED BY <2>0, <3>1, <2>3, MovePC
    <2> QED BY <2>1, <2>2, <2>3
  <1>6. ASSUME NEW c \in Callers, Top1Queue(c) PROVE LocalsOK'
    <2>1. pc[c] = "top1_queue" /\ pc' = [pc EXCEPT ![c] = "top1_notify"] /\ loc' = loc
      BY <1>6 DEF Top1Queue, Goto, localVars
    <2>2. c \in Threads /\ Fits(c, "top1_notify", loc[c])
      BY <2>1, ThreadAssumption DEF Threads, LocalsOK, Fits, PCs, CallerPCs, WorkerPCs, Resting, Answered
    <2> QED BY <2>1, <2>2, MovePC
  <1>7. ASSUME NEW c \in Callers, Top1Notify(c) PROVE LocalsOK'
    <2>1. /\ pc' = [pc EXCEPT ![c] = "idle", ![Worker] = Woken(@)]
          /\ loc' = [loc EXCEPT ![c] = Blank]
      BY <1>7 DEF Top1Notify, ReturnTop1, ClearLocals
    <2>2. c \in Threads /\ Worker \in Threads /\ c # Worker
      BY ThreadAssumption DEF Threads
    <2>3. Fits(c, pc'[c], loc'[c])
      BY <2>1, <2>2, BlankFits DEF LocalsOK, Home
    <2>4. Fits(Worker, pc'[Worker], loc'[Worker])
      BY <2>1, <2>2 DEF Woken, LocalsOK, Fits, PCs, CallerPCs, WorkerPCs, Resting, Answered
    <2>5. ASSUME NEW u \in Threads, u # c, u # Worker
          PROVE  Fits(u, pc'[u], loc'[u])
      BY <2>1, <2>5 DEF LocalsOK
    <2>6. pc' \in [Threads -> PCs] /\ loc' \in [Threads -> Locals]
      BY <2>1, <2>2, BlankIsLocal DEF LocalsOK, Woken, PCs
    <2> QED BY <2>3, <2>4, <2>5, <2>6 DEF LocalsOK
  <1>8. ASSUME NEW c \in Callers, NEW r \in Readings, NEW max \in Limits,
             CandidatesCall(c, r, max)
       PROVE LocalsOK'
    <2>0. c \in Threads /\ pc[c] = "idle"
      BY <1>8 DEF CandidatesCall, Goto, Threads
    <2>1. pc' = [pc EXCEPT ![c] = "cand_get"] /\ loc' = [loc EXCEPT ![c].reading = r, ![c].limit = max]
      BY <1>8 DEF CandidatesCall, Goto
    <2>2. LocalsOK'
      <3>1. Fits(c, "cand_get", [loc[c] EXCEPT !.reading = r, !.limit = max])
        <4>1. loc[c] \in Locals /\ loc[c].t1 = NoText
          BY <2>0 DEF LocalsOK, Fits, Resting
        <4>2. PICK l \in Locals :
                  l = [loc[c] EXCEPT !.reading = r, !.limit = max] /\ l.reading = r /\ l.t1 = NoText
          <5> DEFINE k == [loc[c] EXCEPT !.reading = r, !.limit = max]
          <5>1. k \in Locals
            <6>1. max \in Nat
              BY <1>8, BoundAssumption
            <6> QED BY <4>1, <6>1 DEF Locals
          <5>2. k.reading = r /\ k.t1 = loc[c].t1
            BY <4>1 DEF Locals
          <5> HIDE DEF k
          <5> QED BY <4>1, <5>1, <5>2 DEF k
        <4>3. c # Worker
          BY <1>8, ThreadAssumption
        <4>4. "cand_get" \in CallerPCs /\ "cand_get" \in PCs
          BY DEF CallerPCs, PCs
        <4>5. "cand_get" \notin Resting /\ "cand_get" \notin Answered /\ "cand_get" \notin {"reconv", "put"}
          BY DEF Resting, Answered
        <4>6. Fits(c, "cand_get", l)
          BY <4>2, <4>3, <4>4, <4>5 DEF Fits
        <4> QED BY <4>2, <4>6
      <3> QED BY <2>0, <3>1, <2>1, MoveOne
    <2> QED BY <2>1, <2>2
  <1>9. ASSUME NEW c \in Callers, CandidatesGet(c) PROVE LocalsOK'
    <2>0. c \in Threads /\ pc[c] = "cand_get"
      BY <1>9 DEF CandidatesGet, Goto, Threads
    <2>1. \/ pc' = [pc EXCEPT ![c] = "idle"] /\ loc' = [loc EXCEPT ![c] = Blank]
          \/ pc' = [pc EXCEPT ![c] = "cand_want"] /\ loc' = loc
      BY <1>9 DEF CandidatesGet, ClearLocals, Goto
    <2>2. CASE pc' = [pc EXCEPT ![c] = "idle"] /\ loc' = [loc EXCEPT ![c] = Blank]
      BY <2>0, <2>2, BlankFits, MoveOne, ThreadAssumption DEF Home
    <2>3. CASE pc' = [pc EXCEPT ![c] = "cand_want"] /\ loc' = loc
      <3>1. Fits(c, "cand_want", loc[c])
        BY <2>0, ThreadAssumption DEF Threads, LocalsOK, Fits, PCs, CallerPCs, WorkerPCs, Resting, Answered
      <3> QED BY <2>0, <3>1, <2>3, MovePC
    <2> QED BY <2>1, <2>2, <2>3
  <1>10. ASSUME NEW c \in Callers, CandidatesWant(c) PROVE LocalsOK'
    <2>1. pc[c] = "cand_want" /\ pc' = [pc EXCEPT ![c] = "cand_lock"] /\ loc' = loc
      BY <1>10 DEF CandidatesWant, Goto, localVars
    <2>2. c \in Threads /\ Fits(c, "cand_lock", loc[c])
      BY <2>1, ThreadAssumption DEF Threads, LocalsOK, Fits, PCs, CallerPCs, WorkerPCs, Resting, Answered
    <2> QED BY <2>1, <2>2, MovePC
  <1>11. ASSUME NEW c \in Callers, CandidatesLock(c) PROVE LocalsOK'
    <2>1. pc[c] = "cand_lock" /\ pc' = [pc EXCEPT ![c] = "recheck"] /\ loc' = loc
      BY <1>11 DEF CandidatesLock, Goto, localVars
    <2>2. c \in Threads /\ Fits(c, "recheck", loc[c])
      BY <2>1, ThreadAssumption DEF Threads, LocalsOK, Fits, PCs, CallerPCs, WorkerPCs, Resting, Answered
    <2> QED BY <2>1, <2>2, MovePC
  <1>12. ASSUME NEW c \in Callers, CandidatesRecheck(c) PROVE LocalsOK'
    <2>0. c \in Threads /\ pc[c] = "recheck"
      BY <1>12 DEF CandidatesRecheck, Goto, Threads
    <2>1. \/ pc' = [pc EXCEPT ![c] = "idle"] /\ loc' = [loc EXCEPT ![c] = Blank]
          \/ pc' = [pc EXCEPT ![c] = "take"] /\ loc' = loc
      BY <1>12 DEF CandidatesRecheck, ClearLocals, Goto
    <2>2. CASE pc' = [pc EXCEPT ![c] = "idle"] /\ loc' = [loc EXCEPT ![c] = Blank]
      BY <2>0, <2>2, BlankFits, MoveOne, ThreadAssumption DEF Home
    <2>3. CASE pc' = [pc EXCEPT ![c] = "take"] /\ loc' = loc
      <3>1. Fits(c, "take", loc[c])
        BY <2>0, ThreadAssumption DEF Threads, LocalsOK, Fits, PCs, CallerPCs, WorkerPCs, Resting, Answered
      <3> QED BY <2>0, <3>1, <2>3, MovePC
    <2> QED BY <2>1, <2>2, <2>3
  <1>13. ASSUME NEW c \in Callers, CandidatesPut(c) PROVE LocalsOK'
    <2>0. c \in Threads /\ pc[c] = "put"
      BY <1>13 DEF CandidatesPut, Goto, Threads
    <2>1. pc' = [pc EXCEPT ![c] = "idle"] /\ loc' = [loc EXCEPT ![c] = Blank]
      BY <1>13 DEF CandidatesPut, ClearLocals, Goto
    <2>2. LocalsOK'
      BY <2>0, <2>1, BlankFits, MoveOne, ThreadAssumption DEF Home
    <2> QED BY <2>1, <2>2
  <1>14. ASSUME NEW t \in Threads, BuildTake(t) PROVE LocalsOK'
    <2>0. t \in Threads /\ pc[t] = "take"
      BY <1>14 DEF BuildTake, Goto, Threads
    <2>1. pc' = [pc EXCEPT ![t] = "henkan"] /\ loc' = [loc EXCEPT ![t].t1 = IF hint[loc[t].reading] = Unset THEN NoText ELSE hint[loc[t].reading]]
      BY <1>14 DEF BuildTake, Goto
    <2>2. LocalsOK'
      <3>1. Fits(t, "henkan", [loc[t] EXCEPT !.t1 = IF hint[loc[t].reading] = Unset THEN NoText ELSE hint[loc[t].reading]])
        BY <2>0, <2>1, ValueAssumption, BoundAssumption, ThreadAssumption
           DEF Threads, Locals, HintsOK, LocalsOK, Fits, PCs, CallerPCs, WorkerPCs, Resting, Answered
      <3> QED BY <2>0, <3>1, <2>1, MoveOne
    <2> QED BY <2>1, <2>2
  <1>15. ASSUME NEW t \in Threads, BuildHenkan(t) PROVE LocalsOK'
    <2>0. t \in Threads /\ pc[t] = "henkan"
      BY <1>15 DEF BuildHenkan, Goto, Threads
    <2>1. \/ \E top \in Tops[loc[t].reading] :
                 pc' = [pc EXCEPT ![t] = "reconv"] /\ loc' = [loc EXCEPT ![t].t1 = IF @ = NoText THEN top ELSE @, ![t].hex = Len(HenkanEx[loc[t].reading])]
          \/ \E n \in 0..Len(HenkanEx[loc[t].reading]) :
                 pc' = [pc EXCEPT ![t] = "reconv"] /\ loc' = [loc EXCEPT ![t].hex = n]
      BY <1>15 DEF BuildHenkan, Goto
    <2>2. ASSUME NEW top \in Tops[loc[t].reading],
                 pc' = [pc EXCEPT ![t] = "reconv"] /\ loc' = [loc EXCEPT ![t].t1 = IF @ = NoText THEN top ELSE @, ![t].hex = Len(HenkanEx[loc[t].reading])]
          PROVE  LocalsOK'
      <3> DEFINE m == Len(HenkanEx[loc[t].reading])
                 h == IF loc[t].t1 = NoText THEN top ELSE loc[t].t1
      <3>0. /\ loc[t] \in Locals
            /\ loc[t].reading \in Readings
            /\ loc[t].t1 \in Tops[loc[t].reading] \cup {NoText}
        BY <2>0 DEF LocalsOK, Fits, Resting
      <3>a. m \in Nat /\ h \in Texts /\ h \in Tops[loc[t].reading] \cup {NoText}
        BY <3>0, ValueAssumption
      <3>b. loc' = [loc EXCEPT ![t] = [loc[t] EXCEPT !.t1 = h, !.hex = m]]
        BY <2>2, <3>0
      <3> HIDE DEF m, h
      <3>c. [loc[t] EXCEPT !.t1 = h, !.hex = m] \in Locals
        BY <3>0, <3>a DEF Locals
      <3>d. m \in 0..Len(HenkanEx[loc[t].reading])
        BY <3>a DEF m
      <3>1. Fits(t, "reconv", [loc[t] EXCEPT !.t1 = h, !.hex = m])
        BY <2>0, <3>0, <3>a, <3>c, <3>d, ThreadAssumption
           DEF Threads, Locals, LocalsOK, Fits, PCs, CallerPCs, WorkerPCs, Resting,
               Answered
      <3> QED BY <2>0, <3>1, <2>2, <3>b, MoveOne
    <2>3. ASSUME NEW n \in 0..Len(HenkanEx[loc[t].reading]),
                 pc' = [pc EXCEPT ![t] = "reconv"] /\ loc' = [loc EXCEPT ![t].hex = n]
          PROVE  LocalsOK'
      <3>1. Fits(t, "reconv", [loc[t] EXCEPT !.hex = n])
        BY <2>0, <2>3, ValueAssumption, BoundAssumption, ThreadAssumption
           DEF Threads, Locals, HintsOK, LocalsOK, Fits, PCs, CallerPCs, WorkerPCs, Resting, Answered
      <3> QED BY <2>0, <3>1, <2>3, MoveOne
    <2> QED BY <2>1, <2>2, <2>3
  <1>16. ASSUME NEW t \in Threads, BuildReconv(t) PROVE LocalsOK'
    <2>0. t \in Threads /\ pc[t] = "reconv"
      BY <1>16 DEF BuildReconv, Goto, Threads
    <2>1. \/ pc' = [pc EXCEPT ![t] = "put"] /\ loc' = [loc EXCEPT ![t].built = MergedList(loc[t].reading, loc[t].t1, loc[t].hex)]
          \/ pc' = [pc EXCEPT ![t] = Home(t)] /\ loc' = [loc EXCEPT ![t] = Blank]
      BY <1>16 DEF BuildReconv, ClearLocals, Goto
    <2>2. CASE pc' = [pc EXCEPT ![t] = "put"] /\ loc' = [loc EXCEPT ![t].built = MergedList(loc[t].reading, loc[t].t1, loc[t].hex)]
      <3> DEFINE list == MergedList(loc[t].reading, loc[t].t1, loc[t].hex)
      <3>1. loc[t] \in Locals /\ loc[t].reading \in Readings
        BY <2>0 DEF LocalsOK, Fits, Resting
      <3>a. /\ loc[t].t1 \in Tops[loc[t].reading] \cup {NoText}
            /\ loc[t].hex \in 0..Len(HenkanEx[loc[t].reading])
        BY <2>0 DEF LocalsOK, Fits, Resting
      <3>2. list \in ListsOf(loc[t].reading)
        BY <3>1, <3>a, MergedInLists
      <3>3. list \in Lists
        BY <3>1, <3>2 DEF Lists
      <3> HIDE DEF list
      <3>4. Fits(t, "put", [loc[t] EXCEPT !.built = list])
        BY <2>0, <3>1, <3>2, <3>3, ThreadAssumption DEF Locals, Threads, LocalsOK, Fits,
           PCs, CallerPCs, WorkerPCs, Resting, Answered
      <3> QED BY <2>0, <3>4, <2>2, MoveOne DEF list
    <2>3. CASE pc' = [pc EXCEPT ![t] = Home(t)] /\ loc' = [loc EXCEPT ![t] = Blank]
      BY <2>0, <2>3, BlankFits, MoveOne, ThreadAssumption DEF Home
    <2> QED BY <2>1, <2>2, <2>3
  <1>17. ASSUME PrefetchWait PROVE LocalsOK'
    <2>0. Worker \in Threads /\ pc[Worker] = "wait"
      BY <1>17 DEF PrefetchWait, Goto, Threads
    <2>1. \/ /\ pc' = [pc EXCEPT ![Worker] = "has"]
             /\ loc' = [loc EXCEPT ![Worker].reading = pending]
             /\ pending \in Readings
          \/ \E p \in {"done", "asleep"} :
                 pc' = [pc EXCEPT ![Worker] = p] /\ loc' = loc
      BY <1>17 DEF PrefetchWait, Goto, TypeOK
    <2>2. CASE /\ pc' = [pc EXCEPT ![Worker] = "has"]
               /\ loc' = [loc EXCEPT ![Worker].reading = pending]
               /\ pending \in Readings
      <3>1. Fits(Worker, "has", [loc[Worker] EXCEPT !.reading = pending])
        BY <2>0, <2>2, ValueAssumption
           DEF Locals, LocalsOK, Fits, PCs, WorkerPCs, Resting, Answered
      <3> QED BY <2>0, <3>1, <2>2, MoveOne
    <2>3. ASSUME NEW p \in {"done", "asleep"},
                 pc' = [pc EXCEPT ![Worker] = p] /\ loc' = loc
          PROVE  LocalsOK'
      <3>1. Fits(Worker, p, loc[Worker])
        BY <2>0 DEF LocalsOK, Fits, PCs, WorkerPCs, Resting, Answered
      <3> QED BY <2>0, <3>1, <2>3, MovePC
    <2> QED BY <2>1, <2>2, <2>3
  <1>18. ASSUME PrefetchHas PROVE LocalsOK'
    <2>0. Worker \in Threads /\ pc[Worker] = "has"
      BY <1>18 DEF PrefetchHas, Goto, Threads
    <2>1. \/ pc' = [pc EXCEPT ![Worker] = "wait"] /\ loc' = [loc EXCEPT ![Worker] = Blank]
          \/ pc' = [pc EXCEPT ![Worker] = "yield"] /\ loc' = loc
      BY <1>18 DEF PrefetchHas, ClearLocals, Goto
    <2>2. CASE pc' = [pc EXCEPT ![Worker] = "wait"] /\ loc' = [loc EXCEPT ![Worker] = Blank]
      BY <2>0, <2>2, BlankFits, MoveOne, ThreadAssumption DEF Home
    <2>3. CASE pc' = [pc EXCEPT ![Worker] = "yield"] /\ loc' = loc
      <3>1. Fits(Worker, "yield", loc[Worker])
        BY <2>0, ThreadAssumption DEF Threads, LocalsOK, Fits, PCs, CallerPCs, WorkerPCs, Resting, Answered
      <3> QED BY <2>0, <3>1, <2>3, MovePC
    <2> QED BY <2>1, <2>2, <2>3
  <1>19. ASSUME PrefetchYield PROVE LocalsOK'
    <2>0. Worker \in Threads /\ pc[Worker] = "yield"
      BY <1>19 DEF PrefetchYield, Goto, Threads
    <2>1. \/ pc' = pc /\ loc' = loc
          \/ pc' = [pc EXCEPT ![Worker] = "lock"] /\ loc' = loc
      BY <1>19 DEF PrefetchYield, Goto
    <2>2. CASE pc' = pc /\ loc' = loc
      BY <2>2 DEF LocalsOK
    <2>3. CASE pc' = [pc EXCEPT ![Worker] = "lock"] /\ loc' = loc
      <3>1. Fits(Worker, "lock", loc[Worker])
        BY <2>0 DEF LocalsOK, Fits, PCs, WorkerPCs, Resting, Answered
      <3> QED BY <2>0, <3>1, <2>3, MovePC
    <2> QED BY <2>1, <2>2, <2>3
  <1>20. ASSUME PrefetchLock PROVE LocalsOK'
    <2>1. pc[Worker] = "lock" /\ pc' = [pc EXCEPT ![Worker] = "recheck"] /\ loc' = loc
      BY <1>20 DEF PrefetchLock, Goto, localVars
    <2>2. Worker \in Threads /\ Fits(Worker, "recheck", loc[Worker])
      BY <2>1, ThreadAssumption DEF Threads, LocalsOK, Fits, PCs, CallerPCs, WorkerPCs, Resting, Answered
    <2> QED BY <2>1, <2>2, MovePC
  <1>21. ASSUME PrefetchRecheck PROVE LocalsOK'
    <2>0. Worker \in Threads /\ pc[Worker] = "recheck"
      BY <1>21 DEF PrefetchRecheck, Goto, Threads
    <2>1. \/ pc' = [pc EXCEPT ![Worker] = "wait"] /\ loc' = [loc EXCEPT ![Worker] = Blank]
          \/ pc' = [pc EXCEPT ![Worker] = "take"] /\ loc' = loc
      BY <1>21 DEF PrefetchRecheck, ClearLocals, Goto
    <2>2. CASE pc' = [pc EXCEPT ![Worker] = "wait"] /\ loc' = [loc EXCEPT ![Worker] = Blank]
      BY <2>0, <2>2, BlankFits, MoveOne, ThreadAssumption DEF Home
    <2>3. CASE pc' = [pc EXCEPT ![Worker] = "take"] /\ loc' = loc
      <3>1. Fits(Worker, "take", loc[Worker])
        BY <2>0, ThreadAssumption DEF Threads, LocalsOK, Fits, PCs, CallerPCs, WorkerPCs, Resting, Answered
      <3> QED BY <2>0, <3>1, <2>3, MovePC
    <2> QED BY <2>1, <2>2, <2>3
  <1>22. ASSUME PrefetchPut PROVE LocalsOK'
    <2>0. Worker \in Threads /\ pc[Worker] = "put"
      BY <1>22 DEF PrefetchPut, Goto, Threads
    <2>1. pc' = [pc EXCEPT ![Worker] = "wait"] /\ loc' = [loc EXCEPT ![Worker] = Blank]
      BY <1>22 DEF PrefetchPut, ClearLocals, Goto
    <2>2. LocalsOK'
      BY <2>0, <2>1, BlankFits, MoveOne, ThreadAssumption DEF Home
    <2> QED BY <2>1, <2>2
  <1>23. CASE DestroyNotify
    BY <1>23, WakeLocals DEF DestroyNotify, localVars
  <1>24. CASE Destroy \/ DestroyJoin \/ UNCHANGED vars
    BY <1>24 DEF Destroy, DestroyJoin, localVars, vars, LocalsOK
  <1> QED
    BY <1>1, <1>2, <1>3, <1>4, <1>5, <1>6, <1>7, <1>8, <1>9, <1>10,
       <1>11, <1>12, <1>13, <1>14, <1>15, <1>16, <1>17, <1>18, <1>19,
       <1>20, <1>21, <1>22, <1>23, <1>24
       DEF Next, Request, CallerStep, WorkerStep, Build, Gone, Threads

\* cachePut keeps the maps typed and in agreement.
LEMMA CachePutKeeps ==
    ASSUME NEW r \in Readings, NEW list \in ListsOf(r), cachePut(r, list),
           cache \in [Readings -> Lists \cup {Unset}], lru \in Seq(Readings),
           CacheMatchesOrder, CacheHoldsWholeLists
    PROVE  /\ cache' \in [Readings -> Lists \cup {Unset}]
           /\ lru' \in Seq(Readings)
           /\ CacheMatchesOrder'
           /\ CacheHoldsWholeLists'
  <1>0. list # Unset /\ list \in Lists
    BY ListAssumption DEF Lists
  <1>1. CASE cacheHas(r)
    <2>1. cache' = [cache EXCEPT ![r] = list] /\ lru' = lru
      BY <1>1 DEF cachePut
    <2> QED
      BY <1>0, <1>1, <2>1 DEF CacheMatchesOrder, CacheHoldsWholeLists, cacheHas
  <1>2. CASE ~cacheHas(r) /\ Len(lru) < CacheMax
    <2>0. Append(lru, r) \in Seq(Readings) /\ Len(Append(lru, r)) <= CacheMax
      BY <1>2, BoundAssumption
    <2>a. SubSeq(Append(lru, r), 1, Len(Append(lru, r))) = Append(lru, r)
      BY <2>0, SubSeqFull
    <2>b. ~(Len(Append(lru, r)) > CacheMax)
      BY <2>0, BoundAssumption
    <2>c. lru' = SubSeq(Append(lru, r), 0 + 1, Len(Append(lru, r)))
      BY <1>2, <2>b, Zenon DEF cachePut
    <2>1. lru' = Append(lru, r)
      BY <2>a, <2>c
    <2>2. cache' = [cache EXCEPT ![r] = list]
      BY <1>2, BoundAssumption DEF cachePut
    <2>3. CacheMatchesOrder'
      BY <1>0, <1>2, <2>1, <2>2, BoundAssumption DEF CacheMatchesOrder, cacheHas
    <2> QED
      BY <1>0, <2>1, <2>2, <2>3 DEF CacheHoldsWholeLists, cacheHas
  <1>3. CASE ~cacheHas(r) /\ Len(lru) = CacheMax
    <2> DEFINE pushed == Append(lru, r)
    <2>1. /\ pushed \in Seq(Readings)
          /\ Len(pushed) = CacheMax + 1
          /\ \A i \in 1..CacheMax : pushed[i] = lru[i]
          /\ pushed[CacheMax + 1] = r
          /\ CacheMax \in Nat /\ CacheMax >= 1
      BY <1>3, BoundAssumption
    <2>a. Len(pushed) > CacheMax /\ Len(pushed) - CacheMax = 1 /\ 1 + 1 = 2
      BY <2>1
    <2>b. lru' = SubSeq(pushed, (Len(pushed) - CacheMax) + 1, Len(pushed))
      BY <1>3, <2>a, Zenon DEF cachePut
    <2>2. lru' = SubSeq(pushed, 2, CacheMax + 1)
      BY <2>1, <2>a, <2>b
    <2>3. cache' = [k \in Readings |-> IF k = r THEN list
                                      ELSE IF k = lru[1] THEN Unset ELSE cache[k]]
      BY <1>3, <2>1 DEF cachePut
    <2> HIDE DEF pushed
    <2>4. /\ lru' \in Seq(Readings)
          /\ Len(lru') = CacheMax
          /\ \A i \in 1..CacheMax : lru'[i] = pushed[i + 1]
      <3>1. \A i \in 2..(CacheMax + 1) : pushed[i] \in Readings
        BY <2>1
      <3>2. /\ SubSeq(pushed, 2, CacheMax + 1) \in Seq(Readings)
            /\ Len(SubSeq(pushed, 2, CacheMax + 1)) = CacheMax
            /\ \A i \in 1..CacheMax :
                   SubSeq(pushed, 2, CacheMax + 1)[i] = pushed[2 + i - 1]
        BY <2>1, <3>1, SubSeqProperties, SMTT(30)
      <3> QED BY <2>1, <2>2, <3>2
    <2>5. \A i \in 1..CacheMax : lru'[i] = IF i = CacheMax THEN r ELSE lru[i + 1]
      BY <2>1, <2>4
    <2>d. DOMAIN lru' = 1..CacheMax /\ DOMAIN lru = 1..CacheMax
      BY <1>3, <2>1, <2>4
    <2>e. \A i \in 1..CacheMax : lru[i] # r
      BY <1>3, <2>d DEF CacheMatchesOrder
    <2>f. \A i, j \in 1..CacheMax : lru[i] = lru[j] => i = j
      BY <2>d DEF CacheMatchesOrder
    <2>g. \A i \in 1..CacheMax : i # CacheMax => i + 1 \in 1..CacheMax
      BY <2>1
    <2>6. ASSUME NEW i \in 1..CacheMax, NEW j \in 1..CacheMax, lru'[i] = lru'[j]
          PROVE  i = j
      <3>1. CASE i = CacheMax \/ j = CacheMax
        BY <2>5, <2>6, <2>e, <2>g, <3>1
      <3>2. CASE i # CacheMax /\ j # CacheMax
        <4>1. lru[i + 1] = lru[j + 1]
          BY <2>5, <2>6, <3>2
        <4>2. i + 1 = j + 1
          BY <4>1, <2>f, <2>g, <3>2
        <4> QED BY <4>2, <2>1
      <3> QED BY <3>1, <3>2
    <2>7. ASSUME NEW k \in Readings
          PROVE  cache'[k] # Unset <=> \E i \in DOMAIN lru' : lru'[i] = k
      <3>1. CASE k = r
        <4>1. CacheMax \in DOMAIN lru' /\ lru'[CacheMax] = r
          BY <2>1, <2>5, <2>d
        <4> QED BY <1>0, <2>3, <3>1, <4>1
      <3>2. CASE k # r /\ k = lru[1]
        <4>1. \A i \in 1..CacheMax : lru'[i] # k
          <5> SUFFICES ASSUME NEW i \in 1..CacheMax, lru'[i] = k PROVE FALSE
            OBVIOUS
          <5>1. i # CacheMax /\ lru[i + 1] = lru[1]
            BY <2>5, <3>2
          <5>2. i + 1 = 1
            BY <5>1, <2>f, <2>g, <2>1
          <5> QED BY <5>2, <2>1
        <4> QED BY <2>3, <2>d, <3>2, <4>1
      <3>3. CASE k # r /\ k # lru[1]
        <4>1. cache'[k] = cache[k]
          BY <2>3, <3>3
        <4>2. ASSUME NEW i \in DOMAIN lru, lru[i] = k
              PROVE  \E j \in DOMAIN lru' : lru'[j] = k
          <5>1. i - 1 \in 1..CacheMax /\ i - 1 # CacheMax
            BY <2>1, <2>d, <3>3, <4>2
          <5>2. lru'[i - 1] = lru[(i - 1) + 1]
            BY <5>1, <2>5
          <5> QED BY <5>1, <5>2, <2>1, <2>d, <4>2
        <4>3. ASSUME NEW j \in DOMAIN lru', lru'[j] = k
              PROVE  \E i \in DOMAIN lru : lru[i] = k
          BY <2>5, <2>d, <2>g, <3>3, <4>3
        <4> QED BY <4>1, <4>2, <4>3 DEF CacheMatchesOrder, cacheHas
      <3> QED BY <3>1, <3>2, <3>3
    <2>8. CacheMatchesOrder'
      BY <2>1, <2>4, <2>6, <2>7, <2>d DEF CacheMatchesOrder, cacheHas
    <2>9. cache' \in [Readings -> Lists \cup {Unset}] /\ CacheHoldsWholeLists'
      BY <1>0, <2>3 DEF CacheHoldsWholeLists, cacheHas
    <2> QED BY <2>4, <2>8, <2>9
  <1> QED BY <1>1, <1>2, <1>3, BoundAssumption DEF CacheMatchesOrder

\* The parts of TypeOK that are not about one thread's place and locals.
SharedOK ==
    /\ engineOwner \in Threads \cup {Nobody}
    /\ fgWaiting \in Int
    /\ hint \in [Readings -> Texts \cup {Unset}]
    /\ pending \in Readings \cup {NoReading}
    /\ dtor \in {"no", "notify", "join", "gone"}
    /\ yields \in 0..MaxYields
    /\ HintsOK

\* cache_ and lru_: typed, in agreement, whole lists.
CacheOK ==
    /\ cache \in [Readings -> Lists \cup {Unset}]
    /\ lru \in Seq(Readings)
    /\ CacheMatchesOrder
    /\ CacheHoldsWholeLists

\* The inductive invariant.
IInv == LocalsOK /\ SharedOK /\ CacheOK /\ EngineExclusive

LEMMA StepShared == IInv /\ [Next]_vars => SharedOK'
  <1> SUFFICES ASSUME IInv, [Next]_vars PROVE SharedOK'
    OBVIOUS
  <1> USE DEF IInv, engineVars, cacheVars, queueVars, localVars
  <1>1. ASSUME NEW c \in Callers, NEW r \in Readings, Top1Call(c, r) PROVE SharedOK'
    BY <1>1, BoundAssumption DEF Top1Call, SharedOK, HintsOK, Threads
  <1>2. ASSUME NEW c \in Callers, NEW r \in Readings, NEW max \in Limits,
             CandidatesCall(c, r, max)
       PROVE SharedOK'
    BY <1>2, BoundAssumption DEF CandidatesCall, SharedOK, HintsOK, Threads
  <1>3. ASSUME NEW c \in Callers, Top1Lock(c) PROVE SharedOK'
    BY <1>3, BoundAssumption DEF Top1Lock, SharedOK, HintsOK, Threads, Acquire
  <1>4. ASSUME NEW c \in Callers, Top1Run(c) PROVE SharedOK'
    BY <1>4, BoundAssumption DEF Top1Run, SharedOK, HintsOK, Threads, Release
  <1>5. ASSUME NEW c \in Callers, Top1Remember(c) PROVE SharedOK'
    <2>1. loc[c].reading \in Readings /\ loc[c].t1 \in Tops[loc[c].reading]
      BY <1>5 DEF Top1Remember, Goto, LocalsOK, Fits, Resting, Answered, Threads
    <2> QED BY <1>5, <2>1, ValueAssumption DEF Top1Remember, SharedOK, HintsOK, rememberTop1
  <1>6. ASSUME NEW c \in Callers, Top1Cached(c) PROVE SharedOK'
    BY <1>6, BoundAssumption DEF Top1Cached, SharedOK, HintsOK, Threads
  <1>7. ASSUME NEW c \in Callers, Top1Queue(c) PROVE SharedOK'
    <2>1. loc[c].reading \in Readings /\ loc[c].t1 \in Tops[loc[c].reading]
      BY <1>7 DEF Top1Queue, Goto, LocalsOK, Fits, Resting, Answered, Threads
    <2> QED BY <1>7, <2>1, ValueAssumption DEF Top1Queue, SharedOK, HintsOK
  <1>8. ASSUME NEW c \in Callers, Top1Notify(c) PROVE SharedOK'
    BY <1>8, BoundAssumption DEF Top1Notify, SharedOK, HintsOK, Threads
  <1>9. ASSUME NEW c \in Callers, CandidatesGet(c) PROVE SharedOK'
    BY <1>9, BoundAssumption DEF CandidatesGet, SharedOK, HintsOK, Threads
  <1>10. ASSUME NEW c \in Callers, CandidatesWant(c) PROVE SharedOK'
    BY <1>10, BoundAssumption DEF CandidatesWant, SharedOK, HintsOK, Threads
  <1>11. ASSUME NEW c \in Callers, CandidatesLock(c) PROVE SharedOK'
    BY <1>11, BoundAssumption DEF CandidatesLock, SharedOK, HintsOK, Threads, Acquire
  <1>12. ASSUME NEW c \in Callers, CandidatesRecheck(c) PROVE SharedOK'
    BY <1>12, BoundAssumption DEF CandidatesRecheck, SharedOK, HintsOK, Threads, Release
  <1>13. ASSUME NEW c \in Callers, CandidatesPut(c) PROVE SharedOK'
    BY <1>13, BoundAssumption DEF CandidatesPut, SharedOK, HintsOK, Threads
  <1>14. ASSUME NEW t \in Threads, BuildTake(t) PROVE SharedOK'
    <2>1. loc[t].reading \in Readings /\ t \in Threads
      BY <1>14 DEF BuildTake, Goto, LocalsOK, Fits, Resting, Answered, Threads
    <2> QED BY <1>14, <2>1, ValueAssumption DEF BuildTake, SharedOK, HintsOK, takeTop1
  <1>15. ASSUME NEW t \in Threads, BuildHenkan(t) PROVE SharedOK'
    BY <1>15, BoundAssumption DEF BuildHenkan, SharedOK, HintsOK, Threads
  <1>16. ASSUME NEW t \in Threads, BuildReconv(t) PROVE SharedOK'
    BY <1>16, BoundAssumption DEF BuildReconv, SharedOK, HintsOK, Threads, Release
  <1>17. CASE PrefetchWait
    BY <1>17, BoundAssumption DEF PrefetchWait, SharedOK, HintsOK, Threads
  <1>18. CASE PrefetchHas
    BY <1>18, BoundAssumption DEF PrefetchHas, SharedOK, HintsOK, Threads
  <1>19. CASE PrefetchYield
    BY <1>19, BoundAssumption DEF PrefetchYield, SharedOK, HintsOK, Threads
  <1>20. CASE PrefetchLock
    BY <1>20, BoundAssumption DEF PrefetchLock, SharedOK, HintsOK, Threads, Acquire
  <1>21. CASE PrefetchRecheck
    BY <1>21, BoundAssumption DEF PrefetchRecheck, SharedOK, HintsOK, Threads, Release
  <1>22. CASE PrefetchPut
    BY <1>22, BoundAssumption DEF PrefetchPut, SharedOK, HintsOK, Threads
  <1>23. CASE Destroy
    BY <1>23, BoundAssumption DEF Destroy, SharedOK, HintsOK, Threads
  <1>24. CASE DestroyNotify
    BY <1>24, BoundAssumption DEF DestroyNotify, SharedOK, HintsOK, Threads
  <1>25. CASE DestroyJoin
    BY <1>25, BoundAssumption DEF DestroyJoin, SharedOK, HintsOK, Threads
  <1>26. CASE UNCHANGED vars
    BY <1>26 DEF vars, SharedOK, HintsOK
  <1> QED
    BY <1>1, <1>2, <1>3, <1>4, <1>5, <1>6, <1>7, <1>8, <1>9, <1>10,
       <1>11, <1>12, <1>13, <1>14, <1>15, <1>16, <1>17, <1>18, <1>19,
       <1>20, <1>21, <1>22, <1>23, <1>24, <1>25, <1>26
       DEF Next, Request, CallerStep, WorkerStep, Build, Gone, Threads

LEMMA SameCache == CacheOK /\ UNCHANGED <<cache, lru>> => CacheOK'
  BY DEF CacheOK, CacheMatchesOrder, CacheHoldsWholeLists, cacheHas

LEMMA StepCache == IInv /\ [Next]_vars => CacheOK'
  <1> SUFFICES ASSUME IInv, [Next]_vars PROVE CacheOK'
    OBVIOUS
  <1> USE DEF IInv
  <1>1. ASSUME NEW c \in Callers, NEW r \in Readings, Top1Call(c, r) PROVE CacheOK'
    BY <1>1, SameCache DEF Top1Call, cacheVars
  <1>2. ASSUME NEW c \in Callers, NEW r \in Readings, NEW max \in Limits,
             CandidatesCall(c, r, max)
       PROVE CacheOK'
    BY <1>2, SameCache DEF CandidatesCall, cacheVars
  <1>3. ASSUME NEW c \in Callers, Top1Lock(c) PROVE CacheOK'
    BY <1>3, SameCache DEF Top1Lock, cacheVars
  <1>4. ASSUME NEW c \in Callers, Top1Run(c) PROVE CacheOK'
    BY <1>4, SameCache DEF Top1Run, cacheVars
  <1>5. ASSUME NEW c \in Callers, Top1Remember(c) PROVE CacheOK'
    BY <1>5, SameCache DEF Top1Remember, cacheVars
  <1>6. ASSUME NEW c \in Callers, Top1Cached(c) PROVE CacheOK'
    BY <1>6, SameCache DEF Top1Cached, cacheVars
  <1>7. ASSUME NEW c \in Callers, Top1Queue(c) PROVE CacheOK'
    BY <1>7, SameCache DEF Top1Queue, cacheVars
  <1>8. ASSUME NEW c \in Callers, Top1Notify(c) PROVE CacheOK'
    BY <1>8, SameCache DEF Top1Notify, cacheVars
  <1>9. ASSUME NEW c \in Callers, CandidatesGet(c) PROVE CacheOK'
    BY <1>9, SameCache DEF CandidatesGet, cacheVars
  <1>10. ASSUME NEW c \in Callers, CandidatesWant(c) PROVE CacheOK'
    BY <1>10, SameCache DEF CandidatesWant, cacheVars
  <1>11. ASSUME NEW c \in Callers, CandidatesLock(c) PROVE CacheOK'
    BY <1>11, SameCache DEF CandidatesLock, cacheVars
  <1>12. ASSUME NEW c \in Callers, CandidatesRecheck(c) PROVE CacheOK'
    BY <1>12, SameCache DEF CandidatesRecheck, cacheVars
  <1>13. ASSUME NEW c \in Callers, CandidatesPut(c) PROVE CacheOK'
    <2>1. loc[c].reading \in Readings /\ loc[c].built \in ListsOf(loc[c].reading)
      BY <1>13 DEF CandidatesPut, Goto, LocalsOK, Fits, Resting, Threads
    <2>2. cachePut(loc[c].reading, loc[c].built)
      BY <1>13 DEF CandidatesPut
    <2> QED BY <2>1, <2>2, CachePutKeeps DEF CacheOK
  <1>14. ASSUME NEW t \in Threads, BuildTake(t) PROVE CacheOK'
    BY <1>14, SameCache DEF BuildTake, cacheVars
  <1>15. ASSUME NEW t \in Threads, BuildHenkan(t) PROVE CacheOK'
    BY <1>15, SameCache DEF BuildHenkan, cacheVars
  <1>16. ASSUME NEW t \in Threads, BuildReconv(t) PROVE CacheOK'
    BY <1>16, SameCache DEF BuildReconv, cacheVars
  <1>17. CASE PrefetchWait
    BY <1>17, SameCache DEF PrefetchWait, cacheVars
  <1>18. CASE PrefetchHas
    BY <1>18, SameCache DEF PrefetchHas, cacheVars
  <1>19. CASE PrefetchYield
    BY <1>19, SameCache DEF PrefetchYield, cacheVars
  <1>20. CASE PrefetchLock
    BY <1>20, SameCache DEF PrefetchLock, cacheVars
  <1>21. CASE PrefetchRecheck
    BY <1>21, SameCache DEF PrefetchRecheck, cacheVars
  <1>22. CASE PrefetchPut
    <2>1. loc[Worker].reading \in Readings /\ loc[Worker].built \in ListsOf(loc[Worker].reading)
      BY <1>22 DEF PrefetchPut, Goto, LocalsOK, Fits, Resting, Threads
    <2>2. cachePut(loc[Worker].reading, loc[Worker].built)
      BY <1>22 DEF PrefetchPut
    <2> QED BY <2>1, <2>2, CachePutKeeps DEF CacheOK
  <1>23. CASE Destroy
    BY <1>23, SameCache DEF Destroy, cacheVars
  <1>24. CASE DestroyNotify
    BY <1>24, SameCache DEF DestroyNotify, cacheVars
  <1>25. CASE DestroyJoin
    BY <1>25, SameCache DEF DestroyJoin, cacheVars
  <1>26. CASE UNCHANGED vars
    BY <1>26, SameCache DEF vars, cacheVars
  <1> QED
    BY <1>1, <1>2, <1>3, <1>4, <1>5, <1>6, <1>7, <1>8, <1>9, <1>10,
       <1>11, <1>12, <1>13, <1>14, <1>15, <1>16, <1>17, <1>18, <1>19,
       <1>20, <1>21, <1>22, <1>23, <1>24, <1>25, <1>26
       DEF Next, Request, CallerStep, WorkerStep, Build, Gone, Threads

LEMMA StepEngine == IInv /\ [Next]_vars => EngineExclusive'
  <1> SUFFICES ASSUME IInv, [Next]_vars PROVE EngineExclusive'
    OBVIOUS
  <1> USE DEF IInv, LocalsOK, EngineSteps, Goto, Threads, engineVars
  <1>1. ASSUME NEW c \in Callers, NEW r \in Readings, Top1Call(c, r) PROVE EngineExclusive'
    BY <1>1, ThreadAssumption DEF Top1Call, EngineExclusive
  <1>2. ASSUME NEW c \in Callers, NEW r \in Readings, NEW max \in Limits,
             CandidatesCall(c, r, max)
       PROVE EngineExclusive'
    BY <1>2, ThreadAssumption DEF CandidatesCall, EngineExclusive
  <1>3. ASSUME NEW c \in Callers, Top1Lock(c) PROVE EngineExclusive'
    BY <1>3, ThreadAssumption DEF Top1Lock, EngineExclusive, Acquire
  <1>4. ASSUME NEW c \in Callers, Top1Run(c) PROVE EngineExclusive'
    BY <1>4, ThreadAssumption DEF Top1Run, EngineExclusive, Release
  <1>5. ASSUME NEW c \in Callers, Top1Remember(c) PROVE EngineExclusive'
    BY <1>5, ThreadAssumption DEF Top1Remember, EngineExclusive
  <1>6. ASSUME NEW c \in Callers, Top1Cached(c) PROVE EngineExclusive'
    BY <1>6, ThreadAssumption DEF Top1Cached, EngineExclusive
  <1>7. ASSUME NEW c \in Callers, Top1Queue(c) PROVE EngineExclusive'
    BY <1>7, ThreadAssumption DEF Top1Queue, EngineExclusive
  <1>8. ASSUME NEW c \in Callers, Top1Notify(c) PROVE EngineExclusive'
    BY <1>8, ThreadAssumption DEF Top1Notify, EngineExclusive, Woken
  <1>9. ASSUME NEW c \in Callers, CandidatesGet(c) PROVE EngineExclusive'
    BY <1>9, ThreadAssumption DEF CandidatesGet, EngineExclusive
  <1>10. ASSUME NEW c \in Callers, CandidatesWant(c) PROVE EngineExclusive'
    BY <1>10, ThreadAssumption DEF CandidatesWant, EngineExclusive
  <1>11. ASSUME NEW c \in Callers, CandidatesLock(c) PROVE EngineExclusive'
    BY <1>11, ThreadAssumption DEF CandidatesLock, EngineExclusive, Acquire
  <1>12. ASSUME NEW c \in Callers, CandidatesRecheck(c) PROVE EngineExclusive'
    BY <1>12, ThreadAssumption DEF CandidatesRecheck, EngineExclusive, Release
  <1>13. ASSUME NEW c \in Callers, CandidatesPut(c) PROVE EngineExclusive'
    BY <1>13, ThreadAssumption DEF CandidatesPut, EngineExclusive
  <1>14. ASSUME NEW t \in Threads, BuildTake(t) PROVE EngineExclusive'
    BY <1>14, ThreadAssumption DEF BuildTake, EngineExclusive
  <1>15. ASSUME NEW t \in Threads, BuildHenkan(t) PROVE EngineExclusive'
    BY <1>15, ThreadAssumption DEF BuildHenkan, EngineExclusive
  <1>16. ASSUME NEW t \in Threads, BuildReconv(t) PROVE EngineExclusive'
    BY <1>16, ThreadAssumption DEF BuildReconv, EngineExclusive, Release, Home
  <1>17. CASE PrefetchWait
    BY <1>17, ThreadAssumption DEF PrefetchWait, EngineExclusive
  <1>18. CASE PrefetchHas
    BY <1>18, ThreadAssumption DEF PrefetchHas, EngineExclusive
  <1>19. CASE PrefetchYield
    BY <1>19, ThreadAssumption DEF PrefetchYield, EngineExclusive
  <1>20. CASE PrefetchLock
    BY <1>20, ThreadAssumption DEF PrefetchLock, EngineExclusive, Acquire
  <1>21. CASE PrefetchRecheck
    BY <1>21, ThreadAssumption DEF PrefetchRecheck, EngineExclusive, Release
  <1>22. CASE PrefetchPut
    BY <1>22, ThreadAssumption DEF PrefetchPut, EngineExclusive
  <1>23. CASE Destroy
    BY <1>23, ThreadAssumption DEF Destroy, EngineExclusive
  <1>24. CASE DestroyNotify
    BY <1>24, ThreadAssumption DEF DestroyNotify, EngineExclusive, Woken
  <1>25. CASE DestroyJoin
    BY <1>25, ThreadAssumption DEF DestroyJoin, EngineExclusive
  <1>26. CASE UNCHANGED vars
    BY <1>26 DEF vars, EngineExclusive
  <1> QED
    BY <1>1, <1>2, <1>3, <1>4, <1>5, <1>6, <1>7, <1>8, <1>9, <1>10,
       <1>11, <1>12, <1>13, <1>14, <1>15, <1>16, <1>17, <1>18, <1>19,
       <1>20, <1>21, <1>22, <1>23, <1>24, <1>25, <1>26
       DEF Next, Request, CallerStep, WorkerStep, Build, Gone, Threads

LEMMA InitIInv == Init => IInv
  <1> SUFFICES ASSUME Init PROVE IInv
    OBVIOUS
  <1>1. LocalsOK
    BY InitTyping DEF Typing
  <1>2. SharedOK
    BY BoundAssumption DEF Init, SharedOK, HintsOK
  <1>3. CacheOK
    BY BoundAssumption
       DEF Init, CacheOK, CacheMatchesOrder, CacheHoldsWholeLists, cacheHas
  <1>4. EngineExclusive
    BY ThreadAssumption DEF Init, EngineExclusive, EngineSteps, Threads
  <1> QED BY <1>1, <1>2, <1>3, <1>4 DEF IInv

LEMMA Inductive == IInv /\ [Next]_vars => IInv'
  <1> SUFFICES ASSUME IInv, [Next]_vars PROVE IInv'
    OBVIOUS
  <1>1. Typing
    BY DEF IInv, Typing, TypeOK, SharedOK, LocalsOK, CacheOK
  <1> QED BY <1>1, StepLocals, StepShared, StepCache, StepEngine DEF IInv

LEMMA Invariant == Spec => []IInv
  BY InitIInv, Inductive, PTL DEF Spec

\* Every reachable state of the session is well typed.
THEOREM TypeCorrect == Spec => []TypeOK
  <1>1. IInv => TypeOK
    BY DEF IInv, TypeOK, SharedOK, LocalsOK, CacheOK
  <1> QED BY <1>1, Invariant, PTL

\* session.h: "a mutex serializes access".  However many threads call, the
\* engine runs one conversion at a time, and whoever runs one holds engine_mu_.
THEOREM EngineMutualExclusion == Spec => []EngineExclusive
  <1>1. IInv => EngineExclusive
    BY DEF IInv
  <1> QED BY <1>1, Invariant, PTL

\* cache_ and lru_ agree and stay within kCacheMax, although a list is put
\* after engine_mu_ is released and the same list may be put twice.
THEOREM CacheAgreesWithOrder == Spec => []CacheMatchesOrder
  <1>1. IInv => CacheMatchesOrder
    BY DEF IInv, CacheOK
  <1> QED BY <1>1, Invariant, PTL

\* Nothing but a whole list of the reading itself is ever cached.
THEOREM CacheIsWhole == Spec => []CacheHoldsWholeLists
  <1>1. IInv => CacheHoldsWholeLists
    BY DEF IInv, CacheOK
  <1> QED BY <1>1, Invariant, PTL
-----------------------------------------------------------------------------
(***************************************************************************)
(* Recursive functions on 0..n: that there is one, and induction along it. *)
(***************************************************************************)

\* Every set of natural numbers that has a member has a least one.
LEMMA LeastNat ==
    ASSUME NEW T, T \subseteq Nat, T # {}
    PROVE  \E n \in T : \A m \in T : n <= m
  <1>1. \E x \in T : \A y \in T : <<y, x>> \notin OpToRel(<, Nat)
    <2>1. IsWellFoundedOn(OpToRel(<, Nat), Nat)
      BY NatLessThanWellFounded
    <2> QED BY <2>1, WFMin, Zenon
  <1>2. \A x, y \in Nat : y < x => <<y, x>> \in OpToRel(<, Nat)
    BY Zenon DEF OpToRel
  <1>3. \E x \in T : \A y \in T : ~(y < x)
    BY <1>1, <1>2, Zenon
  <1> QED BY <1>3

LEMMA UpTo ==
    ASSUME NEW L \in Nat, NEW T, 0 \in T, \A n \in 1..L : n - 1 \in T => n \in T
    PROVE  0..L \subseteq T
  <1> SUFFICES ASSUME NEW k \in 0..L, k \notin T PROVE FALSE
    OBVIOUS
  <1> DEFINE B == {n \in 0..L : n \notin T}
  <1>1. B \subseteq Nat /\ B # {}
    OBVIOUS
  <1>2. PICK n \in B : \A m \in B : n <= m
    BY <1>1, LeastNat, Zenon
  <1>3. n \in 1..L /\ n - 1 \in 0..L /\ n - 1 \notin B
    BY <1>2
  <1> QED BY <1>2, <1>3

\* F[<<n, v>>] is the value at n when the one before it is v.
Computes(f, V, v0, L, F) == /\ f \in [0..L -> V]
                            /\ f[0] = v0
                            /\ \A n \in 1..L : f[n] = F[<<n, f[n-1]>>]

LEMMA RecursionExists ==
    ASSUME NEW V, NEW v0 \in V, NEW L \in Nat, NEW F \in [(1..L) \X V -> V]
    PROVE  \E f : Computes(f, V, v0, L, F)
  <1> DEFINE Is(f, m) == /\ f \in [0..m -> V] /\ f[0] = v0
                         /\ \A n \in 1..m : f[n] = F[<<n, f[n-1]>>]
             T == {m \in 0..L : \E f : Is(f, m)}
  <1>1. 0 \in T
    <2> DEFINE g == [n \in 0..0 |-> v0]
    <2>1. Is(g, 0)
      OBVIOUS
    <2>2. 0 \in 0..L
      OBVIOUS
    <2> HIDE DEF g, Is
    <2> QED BY <2>1, <2>2
  <1>2. ASSUME NEW m \in 1..L, m - 1 \in T PROVE m \in T
    <2>1. PICK f : Is(f, m - 1)
      BY <1>2
    <2> DEFINE w == F[<<m, f[m-1]>>]
               g == [n \in 0..m |-> IF n = m THEN w ELSE f[n]]
    <2>2. f[m-1] \in V /\ w \in V
      BY <2>1
    <2> HIDE DEF w
    <2>3. g \in [0..m -> V] /\ g[0] = v0
      BY <2>1, <2>2
    <2>4. \A n \in 0..m-1 : g[n] = f[n]
      OBVIOUS
    <2>5. ASSUME NEW n \in 1..m PROVE g[n] = F[<<n, g[n-1]>>]
      <3>1. g[n-1] = f[n-1]
        OBVIOUS
      <3>2. CASE n = m
        BY <3>1, <3>2 DEF w
      <3>3. CASE n # m
        BY <2>1, <3>1, <3>3
      <3> QED BY <3>2, <3>3
    <2> HIDE DEF g
    <2>6. Is(g, m)
      BY <2>3, <2>5
    <2> QED BY <2>6
  <1> HIDE DEF T
  <1>3. 0..L \subseteq T
    BY <1>1, <1>2, UpTo
  <1>4. L \in T
    BY <1>3
  <1> QED BY <1>4 DEF T, Computes

\* The elements other than x of a prefix: what the loop over s has built.
LEMMA WithoutIs ==
    ASSUME NEW S, NEW s \in Seq(S), NEW x
    PROVE  \E f \in [0..Len(s) -> Seq(S)] :
              /\ f[0] = <<>>
              /\ \A n \in 1..Len(s) :
                    f[n] = IF s[n] # x THEN Append(f[n-1], s[n]) ELSE f[n-1]
              /\ Without(s, x) = f[Len(s)]
  <1> DEFINE L == Len(s)
             V == Seq(S)
             F == [q \in (1..L) \X V |-> IF s[q[1]] # x THEN Append(q[2], s[q[1]]) ELSE q[2]]
             Body(f) == [n \in 0..Len(s) |->
                            IF n = 0 THEN <<>>
                            ELSE IF s[n] # x THEN Append(f[n-1], s[n]) ELSE f[n-1]]
  <1>1. F \in [(1..L) \X V -> V]
    <2>1. ASSUME NEW q \in (1..L) \X V
          PROVE  (IF s[q[1]] # x THEN Append(q[2], s[q[1]]) ELSE q[2]) \in V
      BY <2>1
    <2> QED BY <2>1
  <1>2. <<>> \in V /\ L \in Nat
    OBVIOUS
  <1>3. \A n \in 1..L, v \in V : F[<<n, v>>] = IF s[n] # x THEN Append(v, s[n]) ELSE v
    OBVIOUS
  <1> HIDE DEF F
  <1>4. PICK f \in [0..L -> V] : f[0] = <<>> /\ \A n \in 1..L : f[n] = F[<<n, f[n-1]>>]
    <2> HIDE DEF V, L
    <2>1. PICK f : Computes(f, V, <<>>, L, F)
      BY <1>1, <1>2, RecursionExists, Zenon
    <2> QED BY <2>1 DEF Computes
  <1>5. \A n \in 1..L : n - 1 \in 0..L /\ f[n-1] \in V
    BY <1>2
  <1>6. \A n \in 1..L : f[n] = IF s[n] # x THEN Append(f[n-1], s[n]) ELSE f[n-1]
    BY <1>3, <1>4, <1>5
  <1>7. f = Body(f)
    <2>1. ASSUME NEW n \in 0..L
          PROVE  f[n] = IF n = 0 THEN <<>>
                        ELSE IF s[n] # x THEN Append(f[n-1], s[n]) ELSE f[n-1]
      <3>1. n = 0 \/ n \in 1..L
        BY <1>2
      <3> QED BY <1>4, <1>6, <3>1
    <2> QED BY <1>4, <2>1
  <1> DEFINE k == CHOOSE g : g = Body(g)
  <1>8. k = Body(k)
    BY <1>7
  <1>9. Without(s, x) = k[L]
    BY DEF Without
  <1> HIDE DEF k
  <1>10. \A n \in 0..L : k[n] = f[n]
    <2> DEFINE T == {n \in 0..L : k[n] = f[n]}
    <2>1. k[0] = <<>> /\ \A n \in 1..L : k[n] = IF s[n] # x THEN Append(k[n-1], s[n]) ELSE k[n-1]
      <3>1. \A n \in 0..L : k[n] = IF n = 0 THEN <<>>
                       ELSE IF s[n] # x THEN Append(k[n-1], s[n]) ELSE k[n-1]
        BY <1>8
      <3> QED BY <3>1, <1>2
    <2>2. 0 \in T
      BY <2>1, <1>4, <1>2
    <2>3. \A n \in 1..L : n - 1 \in T => n \in T
      BY <2>1, <1>6, <1>5
    <2> HIDE DEF T
    <2>4. 0..L \subseteq T
      BY <2>2, <2>3, <1>2, UpTo
    <2> QED BY <2>4 DEF T
  <1> QED BY <1>4, <1>6, <1>9, <1>10, <1>2

\* Without drops x, and nothing else.
LEMMA WithoutKeeps ==
    ASSUME NEW S, NEW s \in Seq(S), NEW x
    PROVE  /\ Without(s, x) \in Seq(S)
           /\ \A i \in DOMAIN Without(s, x) : Without(s, x)[i] # x
           /\ \A i \in DOMAIN s : s[i] # x =>
                 \E j \in DOMAIN Without(s, x) : Without(s, x)[j] = s[i]
  <1>1. PICK f \in [0..Len(s) -> Seq(S)] :
           /\ f[0] = <<>>
           /\ \A n \in 1..Len(s) :
                 f[n] = IF s[n] # x THEN Append(f[n-1], s[n]) ELSE f[n-1]
           /\ Without(s, x) = f[Len(s)]
    BY WithoutIs
  <1> DEFINE Good(n) == /\ f[n] \in Seq(S)
                        /\ \A i \in DOMAIN f[n] : f[n][i] # x
                        /\ \A i \in 1..n : s[i] # x => \E j \in DOMAIN f[n] : f[n][j] = s[i]
             T == {n \in 0..Len(s) : Good(n)}
  <1>2. 0 \in T
    BY <1>1
  <1>3. ASSUME NEW n \in 1..Len(s), n - 1 \in T PROVE n \in T
    <2>1. n - 1 \in 0..Len(s) /\ Good(n-1) /\ s[n] \in S /\ \A i \in 1..n : i \in 1..n-1 \/ i = n
      BY <1>3
    <2>2. f[n] \in Seq(S)
      BY <1>1, <2>1
    <2>3. CASE s[n] = x
      <3>1. f[n] = f[n-1]
        BY <1>1, <2>3
      <3> QED BY <2>1, <2>2, <2>3, <3>1
    <2>4. CASE s[n] # x
      <3> DEFINE p == f[n-1]
                 q == f[n]
      <3>1. p \in Seq(S) /\ q = Append(p, s[n])
        BY <1>1, <2>1, <2>4
      <3>2. /\ Len(q) = Len(p) + 1 /\ Len(p) \in Nat
            /\ DOMAIN p = 1..Len(p) /\ DOMAIN q = 1..Len(q)
            /\ q[Len(q)] = s[n] /\ \A i \in 1..Len(p) : q[i] = p[i]
        BY <3>1, <2>1, <2>2
      <3>3. \A i \in DOMAIN p : p[i] # x
        BY <2>1
      <3>4. \A i \in 1..n-1 : s[i] # x => \E j \in DOMAIN p : p[j] = s[i]
        BY <2>1
      <3> HIDE DEF p, q
      <3>5. \A i \in DOMAIN q : q[i] # x
        BY <3>2, <3>3, <2>4
      <3>6. \A i \in 1..n : s[i] # x => \E j \in DOMAIN q : q[j] = s[i]
        <4>1. \A j \in DOMAIN p : j \in DOMAIN q /\ q[j] = p[j]
          BY <3>2
        <4>2. Len(q) \in DOMAIN q
          BY <3>2
        <4> SUFFICES ASSUME NEW i \in 1..n, s[i] # x PROVE \E j \in DOMAIN q : q[j] = s[i]
          OBVIOUS
        <4>3. CASE i \in 1..n-1
          <5>1. PICK j \in DOMAIN p : p[j] = s[i]
            BY <3>4, <4>3
          <5> QED BY <4>1, <5>1
        <4>4. CASE i = n
          <5>1. q[Len(q)] = s[i]
            BY <3>2, <4>4
          <5> QED BY <4>2, <5>1
        <4> QED BY <2>1, <4>3, <4>4
      <3> QED BY <2>1, <2>2, <3>5, <3>6 DEF q
    <2> QED BY <2>3, <2>4
  <1>4. Len(s) \in Nat
    OBVIOUS
  <1>5. 0..Len(s) \subseteq T
    <2> HIDE DEF T
    <2> QED BY <1>2, <1>3, <1>4, UpTo
  <1>6. Good(Len(s))
    BY <1>4, <1>5
  <1> QED BY <1>1, <1>6

\* The elements of s, each once, in the order of their first occurrence.
LEMMA FirstOfEachIs ==
    ASSUME NEW S, NEW s \in Seq(S)
    PROVE  \E f \in [0..Len(s) -> Seq(S)] :
              /\ f[0] = <<>>
              /\ \A n \in 1..Len(s) :
                    f[n] = IF \E i \in DOMAIN f[n-1] : f[n-1][i] = s[n]
                           THEN f[n-1] ELSE Append(f[n-1], s[n])
              /\ FirstOfEachSurface(s) = f[Len(s)]
  <1> DEFINE L == Len(s)
             V == Seq(S)
             Add(v, e) == IF \E i \in DOMAIN v : v[i] = e THEN v ELSE Append(v, e)
             F == [q \in (1..L) \X V |-> Add(q[2], s[q[1]])]
             Body(f) == [n \in 0..Len(s) |->
                            IF n = 0 THEN <<>>
                            ELSE IF \E i \in DOMAIN f[n-1] : f[n-1][i] = s[n]
                                 THEN f[n-1] ELSE Append(f[n-1], s[n])]
  <1>1. F \in [(1..L) \X V -> V]
    <2>1. ASSUME NEW q \in (1..L) \X V
          PROVE  Add(q[2], s[q[1]]) \in V
      BY <2>1
    <2> HIDE DEF Add
    <2> QED BY <2>1
  <1>2. <<>> \in V /\ L \in Nat
    OBVIOUS
  <1>3. \A n \in 1..L, v \in V : F[<<n, v>>] = Add(v, s[n])
    <2> HIDE DEF Add
    <2> QED OBVIOUS
  <1> HIDE DEF F
  <1>4. PICK f \in [0..L -> V] : f[0] = <<>> /\ \A n \in 1..L : f[n] = F[<<n, f[n-1]>>]
    <2> HIDE DEF V, L
    <2>1. PICK f : Computes(f, V, <<>>, L, F)
      BY <1>1, <1>2, RecursionExists, Zenon
    <2> QED BY <2>1 DEF Computes
  <1>5. \A n \in 1..L : n - 1 \in 0..L /\ f[n-1] \in V
    BY <1>2
  <1>6. \A n \in 1..L : f[n] = Add(f[n-1], s[n])
    <2> HIDE DEF Add
    <2> QED BY <1>3, <1>4, <1>5
  <1>7. f = Body(f)
    <2>1. ASSUME NEW n \in 0..L
          PROVE  f[n] = IF n = 0 THEN <<>> ELSE Add(f[n-1], s[n])
      <3>1. n = 0 \/ n \in 1..L
        BY <1>2
      <3> HIDE DEF Add
      <3> QED BY <1>4, <1>6, <3>1
    <2> QED BY <1>4, <2>1
  <1> DEFINE k == CHOOSE g : g = Body(g)
  <1>8. k = Body(k)
    BY <1>7
  <1>9. FirstOfEachSurface(s) = k[L]
    BY DEF FirstOfEachSurface
  <1> HIDE DEF k
  <1>10. \A n \in 0..L : k[n] = f[n]
    <2> DEFINE T == {n \in 0..L : k[n] = f[n]}
    <2>1. k[0] = <<>> /\ \A n \in 1..L : k[n] = Add(k[n-1], s[n])
      <3>1. \A n \in 0..L : k[n] = IF n = 0 THEN <<>> ELSE Add(k[n-1], s[n])
        BY <1>8
      <3> HIDE DEF Add
      <3> QED BY <3>1, <1>2
    <2> HIDE DEF Add
    <2>2. 0 \in T
      BY <2>1, <1>4, <1>2
    <2>3. \A n \in 1..L : n - 1 \in T => n \in T
      BY <2>1, <1>6, <1>5
    <2> HIDE DEF T
    <2>4. 0..L \subseteq T
      BY <2>2, <2>3, <1>2, UpTo
    <2> QED BY <2>4 DEF T
  <1>11. L \in 0..L
    BY <1>2
  <1>12. FirstOfEachSurface(s) = f[L]
    <2> HIDE DEF L
    <2> QED BY <1>9, <1>10, <1>11
  <1>13. \A n \in 1..L : f[n] = IF \E i \in DOMAIN f[n-1] : f[n-1][i] = s[n]
                               THEN f[n-1] ELSE Append(f[n-1], s[n])
    BY <1>6
  <1> QED BY <1>4, <1>12, <1>13, Zenon

\* One entry per surface, and every surface has one.
LEMMA FirstOfEachKeeps ==
    ASSUME NEW S, NEW s \in Seq(S)
    PROVE  LET u == FirstOfEachSurface(s)
           IN  /\ u \in Seq(S)
               /\ \A i, j \in DOMAIN u : u[i] = u[j] => i = j
               /\ \A i \in DOMAIN s : \E j \in DOMAIN u : u[j] = s[i]
  <1>1. PICK f \in [0..Len(s) -> Seq(S)] :
           /\ f[0] = <<>>
           /\ \A n \in 1..Len(s) :
                 f[n] = IF \E i \in DOMAIN f[n-1] : f[n-1][i] = s[n]
                        THEN f[n-1] ELSE Append(f[n-1], s[n])
           /\ FirstOfEachSurface(s) = f[Len(s)]
    BY FirstOfEachIs
  <1> DEFINE Good(n) == /\ f[n] \in Seq(S)
                        /\ \A i, j \in DOMAIN f[n] : f[n][i] = f[n][j] => i = j
                        /\ \A i \in 1..n : \E j \in DOMAIN f[n] : f[n][j] = s[i]
             T == {n \in 0..Len(s) : Good(n)}
  <1>2. 0 \in T
    BY <1>1
  <1>3. ASSUME NEW n \in 1..Len(s), n - 1 \in T PROVE n \in T
    <2>1. n - 1 \in 0..Len(s) /\ Good(n-1) /\ s[n] \in S /\ \A i \in 1..n : i \in 1..n-1 \/ i = n
      BY <1>3
    <2>2. f[n] \in Seq(S)
      <3>1. n \in 0..Len(s)
        OBVIOUS
      <3> QED BY <1>1, <3>1, Zenon
    <2>3. CASE \E i \in DOMAIN f[n-1] : f[n-1][i] = s[n]
      <3>1. f[n] = f[n-1]
        BY <1>1, <2>3
      <3> QED BY <2>1, <2>2, <2>3, <3>1
    <2>4. CASE ~ \E i \in DOMAIN f[n-1] : f[n-1][i] = s[n]
      <3> DEFINE p == f[n-1]
                 q == f[n]
      <3>1. p \in Seq(S) /\ q = Append(p, s[n])
        BY <1>1, <2>1, <2>4
      <3>2. /\ Len(q) = Len(p) + 1 /\ Len(p) \in Nat
            /\ DOMAIN p = 1..Len(p) /\ DOMAIN q = 1..Len(q)
            /\ q[Len(q)] = s[n] /\ \A i \in 1..Len(p) : q[i] = p[i]
        BY <3>1, <2>1, <2>2
      <3>3. \A i, j \in DOMAIN p : p[i] = p[j] => i = j
        BY <2>1
      <3>4. \A i \in 1..n-1 : \E j \in DOMAIN p : p[j] = s[i]
        BY <2>1
      <3>7. \A i \in DOMAIN p : p[i] # s[n]
        BY <2>4
      <3> HIDE DEF p, q
      <3>5. ASSUME NEW i \in DOMAIN q, NEW j \in DOMAIN q, q[i] = q[j] PROVE i = j
        <4>1. /\ i \in DOMAIN p \/ i = Len(q)
              /\ j \in DOMAIN p \/ j = Len(q)
          BY <3>2
        <4> QED BY <3>2, <3>3, <3>5, <3>7, <4>1
      <3>6. \A i \in 1..n : \E j \in DOMAIN q : q[j] = s[i]
        <4>1. \A j \in DOMAIN p : j \in DOMAIN q /\ q[j] = p[j]
          BY <3>2
        <4>2. Len(q) \in DOMAIN q
          BY <3>2
        <4>3. ASSUME NEW i \in 1..n PROVE \E j \in DOMAIN q : q[j] = s[i]
          <5>1. CASE i = n
            BY <3>2, <4>2, <5>1
          <5>2. CASE i \in 1..n-1
            BY <3>4, <4>1, <5>2
          <5> QED BY <2>1, <5>1, <5>2
        <4> QED BY <4>3
      <3> QED BY <2>1, <2>2, <3>5, <3>6 DEF q
    <2> QED BY <2>3, <2>4
  <1>4. Len(s) \in Nat
    OBVIOUS
  <1>5. 0..Len(s) \subseteq T
    <2> HIDE DEF T
    <2> QED BY <1>2, <1>3, <1>4, UpTo
  <1>6. Good(Len(s))
    BY <1>4, <1>5
  <1> QED BY <1>1, <1>6

\* What ListsWellFormed asks of the list l cached for r.
WellFormed(r, l) ==
    LET occurrences == {i \in DOMAIN l.candidates : l.candidates[i] = l.commit}
    IN  /\ l.commit # NoText => occurrences = {1}
        /\ \A i \in DOMAIN Reconv[r] :
               \E j \in DOMAIN l.candidates : l.candidates[j] = Reconv[r][i]
        /\ \A i, j \in DOMAIN l.ex : l.ex[i] = l.ex[j] => i = j
        /\ \A i \in DOMAIN ReconvEx[r] :
               \E j \in DOMAIN l.ex : l.ex[j] = ReconvEx[r][i]

\* Every list buildCandidates can return, whatever the engine answered, is well formed.
LEMMA ListsAreWellFormed ==
    ASSUME NEW r \in Readings, NEW top \in Tops[r] \cup {NoText},
           NEW n \in 0..Len(HenkanEx[r])
    PROVE  WellFormed(r, MergedList(r, top, n))
  <1> DEFINE S == Texts \ {NoText}
             v == Reconv[r]
             commit == IF top # NoText THEN top
                       ELSE IF v # <<>> THEN Head(v) ELSE NoText
             w == Without(v, commit)
             lead == IF commit # NoText THEN <<commit>> ELSE <<>>
             both == SubSeq(HenkanEx[r], 1, n) \o ReconvEx[r]
             l == MergedList(r, top, n)
  <1>1. /\ v \in Seq(S) /\ HenkanEx[r] \in Seq(S) /\ ReconvEx[r] \in Seq(S)
        /\ commit \in Texts /\ NoText \in Texts
        /\ \A i \in DOMAIN v : v[i] # NoText
    <2>1. /\ v \in Seq(S) /\ HenkanEx[r] \in Seq(S) /\ ReconvEx[r] \in Seq(S)
          /\ top \in Texts /\ NoText \in Texts
      BY ValueAssumption
    <2>2. v # <<>> => Head(v) \in S
      BY <2>1
    <2>3. \A i \in DOMAIN v : v[i] \in S
      BY <2>1
    <2> QED BY <2>1, <2>2, <2>3
  <1>2. /\ l.commit = commit
        /\ l.candidates = lead \o w
        /\ l.ex = FirstOfEachSurface(both)
    BY DEF MergedList
  <1>3. /\ w \in Seq(S)
        /\ \A i \in DOMAIN w : w[i] # commit
        /\ \A i \in DOMAIN v : v[i] # commit => \E j \in DOMAIN w : w[j] = v[i]
    <2> HIDE DEF commit, v, S
    <2> QED BY <1>1, WithoutKeeps
  <1> HIDE DEF w, S, l, commit
  <1>4. /\ commit # NoText => {i \in DOMAIN (lead \o w) : (lead \o w)[i] = commit} = {1}
        /\ \A i \in DOMAIN v : \E j \in DOMAIN (lead \o w) : (lead \o w)[j] = v[i]
    <2>1. CASE commit = NoText
      <3>1. lead \o w = w
        BY <1>3, <2>1
      <3> QED BY <1>1, <1>3, <2>1, <3>1
    <2>2. CASE commit # NoText
      <3> DEFINE c == lead \o w
      <3>1. c = <<commit>> \o w /\ w \in Seq(Texts) /\ <<commit>> \in Seq(Texts)
        BY <1>1, <1>3, <2>2 DEF S
      <3>2. /\ DOMAIN w = 1..Len(w) /\ Len(w) \in Nat
            /\ DOMAIN c = 1..(Len(w) + 1)
            /\ c[1] = commit
            /\ \A i \in 1..Len(w) : c[i+1] = w[i]
        BY <3>1
      <3> HIDE DEF c
      <3>3. ASSUME NEW i \in DOMAIN c, c[i] = commit PROVE i = 1
        <4>1. i = 1 \/ (i - 1 \in DOMAIN w /\ c[(i-1)+1] = w[i-1] /\ (i-1)+1 = i)
          BY <3>2
        <4> QED BY <1>3, <3>3, <4>1
      <3>4. 1 \in DOMAIN c
        BY <3>2
      <3>5. \A i \in DOMAIN w : i + 1 \in DOMAIN c /\ c[i+1] = w[i]
        BY <3>2
      <3>6. {i \in DOMAIN c : c[i] = commit} = {1}
        BY <3>2, <3>3, <3>4
      <3>7. ASSUME NEW i \in DOMAIN v PROVE \E j \in DOMAIN c : c[j] = v[i]
        <4>1. CASE v[i] = commit
          BY <3>2, <3>4, <4>1
        <4>2. CASE v[i] # commit
          BY <1>3, <3>5, <4>2
        <4> QED BY <4>1, <4>2
      <3> QED BY <3>6, <3>7 DEF c
    <2> QED BY <2>1, <2>2
  <1>5. /\ \A i, j \in DOMAIN l.ex : l.ex[i] = l.ex[j] => i = j
        /\ \A i \in DOMAIN ReconvEx[r] : \E j \in DOMAIN l.ex : l.ex[j] = ReconvEx[r][i]
    <2> DEFINE h == SubSeq(HenkanEx[r], 1, n)
               e == ReconvEx[r]
    <2>1. h \in Seq(S) /\ e \in Seq(S)
      BY <1>1
    <2> HIDE DEF h
    <2>2. both = h \o e /\ both \in Seq(S)
      BY <2>1 DEF h
    <2>3. \A i \in DOMAIN e : Len(h) + i \in DOMAIN both /\ both[Len(h) + i] = e[i]
      <3>1. h \o e \in Seq(S) /\ DOMAIN e = 1..Len(e) /\ DOMAIN (h \o e) = 1..(Len(h) + Len(e))
        BY <2>1
      <3>2. \A i \in 1..Len(e) : (h \o e)[Len(h) + i] = e[i]
        BY <2>1
      <3>3. Len(h) \in Nat /\ Len(e) \in Nat
        BY <2>1
      <3> HIDE DEF both, e
      <3> QED BY <2>2, <3>1, <3>2, <3>3
    <2> HIDE DEF both
    <2>4. /\ \A i, j \in DOMAIN l.ex : l.ex[i] = l.ex[j] => i = j
          /\ \A i \in DOMAIN both : \E j \in DOMAIN l.ex : l.ex[j] = both[i]
      <3> DEFINE u == FirstOfEachSurface(both)
      <3>1. /\ \A i, j \in DOMAIN u : u[i] = u[j] => i = j
            /\ \A i \in DOMAIN both : \E j \in DOMAIN u : u[j] = both[i]
        <4>1. PICK z \in Seq(S) : z = both
          BY <2>2
        <4>2. LET f == FirstOfEachSurface(z)
              IN  /\ \A i, j \in DOMAIN f : f[i] = f[j] => i = j
                  /\ \A i \in DOMAIN z : \E j \in DOMAIN f : f[j] = z[i]
          BY FirstOfEachKeeps
        <4> QED BY <4>1, <4>2
      <3> HIDE DEF u
      <3>2. l.ex = u
        BY <1>2 DEF u
      <3> QED BY <3>1, <3>2
    <2> QED BY <2>3, <2>4
  <1>6. WellFormed(r, l)
    BY <1>2, <1>4, <1>5 DEF WellFormed
  <1> QED BY <1>6 DEF l

\* The lists in the cache are well formed because each is a list of its reading.
LEMMA WholeListsAreWellFormed == CacheHoldsWholeLists => ListsWellFormed
  <1> SUFFICES ASSUME CacheHoldsWholeLists, NEW r \in Readings, cacheHas(r)
               PROVE  WellFormed(r, cache[r])
    BY DEF ListsWellFormed, WellFormed
  <1>1. cache[r] \in ListsOf(r)
    BY DEF CacheHoldsWholeLists
  <1>2. PICK top \in Tops[r] \cup {NoText}, n \in 0..Len(HenkanEx[r]) :
           cache[r] = MergedList(r, top, n)
    BY <1>1 DEF ListsOf
  <1> QED BY <1>2, ListsAreWellFormed

-----------------------------------------------------------------------------
(***************************************************************************)
(* The two counts.                                                         *)
(***************************************************************************)
Waiting == {c \in Callers : pc[c] \in {"top1_lock", "cand_lock"}}

\* Only finitely many callers wait, and fg_waiting_ is their number.
CountOK == IsFiniteSet(Waiting) /\ fgWaiting = Cardinality(Waiting)

LEMMA SameWaiting ==
    ASSUME CountOK, fgWaiting' = fgWaiting, Waiting' = Waiting
    PROVE  CountOK'
  BY DEF CountOK

LEMMA OneMoreWaits ==
    ASSUME CountOK, NEW c, c \notin Waiting,
           fgWaiting' = fgWaiting + 1, Waiting' = Waiting \cup {c}
    PROVE  CountOK'
  BY FS_AddElement DEF CountOK

LEMMA OneLessWaits ==
    ASSUME CountOK, NEW c, c \in Waiting,
           fgWaiting' = fgWaiting - 1, Waiting' = Waiting \ {c}
    PROVE  CountOK'
  BY FS_RemoveElement DEF CountOK

LEMMA StepCount == IInv /\ [Next]_vars /\ CountOK => CountOK'
  <1> SUFFICES ASSUME IInv, [Next]_vars, CountOK PROVE CountOK'
    OBVIOUS
  <1> USE DEF IInv, LocalsOK, Goto, Threads, engineVars
  <1>1. ASSUME NEW c \in Callers, NEW r \in Readings, Top1Call(c, r) PROVE CountOK'
    <2>1. c \notin Waiting /\ Waiting' = Waiting \cup {c} /\ fgWaiting' = fgWaiting + 1
      BY <1>1, ThreadAssumption DEF Top1Call, Waiting
    <2> QED BY <2>1, OneMoreWaits
  <1>2. ASSUME NEW c \in Callers, NEW r \in Readings, NEW max \in Limits,
             CandidatesCall(c, r, max)
       PROVE CountOK'
    <2>1. Waiting' = Waiting /\ fgWaiting' = fgWaiting
      BY <1>2, ThreadAssumption DEF CandidatesCall, Waiting, Woken, Home, Release, Acquire
    <2> QED BY <2>1, SameWaiting
  <1>3. ASSUME NEW c \in Callers, Top1Lock(c) PROVE CountOK'
    <2>1. c \in Waiting /\ Waiting' = Waiting \ {c} /\ fgWaiting' = fgWaiting - 1
      BY <1>3, ThreadAssumption DEF Top1Lock, Waiting
    <2> QED BY <2>1, OneLessWaits
  <1>4. ASSUME NEW c \in Callers, Top1Run(c) PROVE CountOK'
    <2>1. Waiting' = Waiting /\ fgWaiting' = fgWaiting
      BY <1>4, ThreadAssumption DEF Top1Run, Waiting, Woken, Home, Release, Acquire
    <2> QED BY <2>1, SameWaiting
  <1>5. ASSUME NEW c \in Callers, Top1Remember(c) PROVE CountOK'
    <2>1. Waiting' = Waiting /\ fgWaiting' = fgWaiting
      BY <1>5, ThreadAssumption DEF Top1Remember, Waiting, Woken, Home, Release, Acquire
    <2> QED BY <2>1, SameWaiting
  <1>6. ASSUME NEW c \in Callers, Top1Cached(c) PROVE CountOK'
    <2>1. Waiting' = Waiting /\ fgWaiting' = fgWaiting
      BY <1>6, ThreadAssumption DEF Top1Cached, Waiting, Woken, Home, Release, Acquire
    <2> QED BY <2>1, SameWaiting
  <1>7. ASSUME NEW c \in Callers, Top1Queue(c) PROVE CountOK'
    <2>1. Waiting' = Waiting /\ fgWaiting' = fgWaiting
      BY <1>7, ThreadAssumption DEF Top1Queue, Waiting, Woken, Home, Release, Acquire
    <2> QED BY <2>1, SameWaiting
  <1>8. ASSUME NEW c \in Callers, Top1Notify(c) PROVE CountOK'
    <2>1. Waiting' = Waiting /\ fgWaiting' = fgWaiting
      BY <1>8, ThreadAssumption DEF Top1Notify, Waiting, Woken, Home, Release, Acquire
    <2> QED BY <2>1, SameWaiting
  <1>9. ASSUME NEW c \in Callers, CandidatesGet(c) PROVE CountOK'
    <2>1. Waiting' = Waiting /\ fgWaiting' = fgWaiting
      BY <1>9, ThreadAssumption DEF CandidatesGet, Waiting, Woken, Home, Release, Acquire
    <2> QED BY <2>1, SameWaiting
  <1>10. ASSUME NEW c \in Callers, CandidatesWant(c) PROVE CountOK'
    <2>1. c \notin Waiting /\ Waiting' = Waiting \cup {c} /\ fgWaiting' = fgWaiting + 1
      BY <1>10, ThreadAssumption DEF CandidatesWant, Waiting
    <2> QED BY <2>1, OneMoreWaits
  <1>11. ASSUME NEW c \in Callers, CandidatesLock(c) PROVE CountOK'
    <2>1. c \in Waiting /\ Waiting' = Waiting \ {c} /\ fgWaiting' = fgWaiting - 1
      BY <1>11, ThreadAssumption DEF CandidatesLock, Waiting
    <2> QED BY <2>1, OneLessWaits
  <1>12. ASSUME NEW c \in Callers, CandidatesRecheck(c) PROVE CountOK'
    <2>1. Waiting' = Waiting /\ fgWaiting' = fgWaiting
      BY <1>12, ThreadAssumption DEF CandidatesRecheck, Waiting, Woken, Home, Release, Acquire
    <2> QED BY <2>1, SameWaiting
  <1>13. ASSUME NEW c \in Callers, CandidatesPut(c) PROVE CountOK'
    <2>1. Waiting' = Waiting /\ fgWaiting' = fgWaiting
      BY <1>13, ThreadAssumption DEF CandidatesPut, Waiting, Woken, Home, Release, Acquire
    <2> QED BY <2>1, SameWaiting
  <1>14. ASSUME NEW t \in Threads, BuildTake(t) PROVE CountOK'
    <2>1. Waiting' = Waiting /\ fgWaiting' = fgWaiting
      BY <1>14, ThreadAssumption DEF BuildTake, Waiting, Woken, Home, Release, Acquire
    <2> QED BY <2>1, SameWaiting
  <1>15. ASSUME NEW t \in Threads, BuildHenkan(t) PROVE CountOK'
    <2>1. Waiting' = Waiting /\ fgWaiting' = fgWaiting
      BY <1>15, ThreadAssumption DEF BuildHenkan, Waiting, Woken, Home, Release, Acquire
    <2> QED BY <2>1, SameWaiting
  <1>16. ASSUME NEW t \in Threads, BuildReconv(t) PROVE CountOK'
    <2>1. Waiting' = Waiting /\ fgWaiting' = fgWaiting
      BY <1>16, ThreadAssumption DEF BuildReconv, Waiting, Woken, Home, Release, Acquire
    <2> QED BY <2>1, SameWaiting
  <1>17. CASE PrefetchWait
    <2>1. Waiting' = Waiting /\ fgWaiting' = fgWaiting
      BY <1>17, ThreadAssumption DEF PrefetchWait, Waiting, Woken, Home, Release, Acquire
    <2> QED BY <2>1, SameWaiting
  <1>18. CASE PrefetchHas
    <2>1. Waiting' = Waiting /\ fgWaiting' = fgWaiting
      BY <1>18, ThreadAssumption DEF PrefetchHas, Waiting, Woken, Home, Release, Acquire
    <2> QED BY <2>1, SameWaiting
  <1>19. CASE PrefetchYield
    <2>1. Waiting' = Waiting /\ fgWaiting' = fgWaiting
      BY <1>19, ThreadAssumption DEF PrefetchYield, Waiting, Woken, Home, Release, Acquire
    <2> QED BY <2>1, SameWaiting
  <1>20. CASE PrefetchLock
    <2>1. Waiting' = Waiting /\ fgWaiting' = fgWaiting
      BY <1>20, ThreadAssumption DEF PrefetchLock, Waiting, Woken, Home, Release, Acquire
    <2> QED BY <2>1, SameWaiting
  <1>21. CASE PrefetchRecheck
    <2>1. Waiting' = Waiting /\ fgWaiting' = fgWaiting
      BY <1>21, ThreadAssumption DEF PrefetchRecheck, Waiting, Woken, Home, Release, Acquire
    <2> QED BY <2>1, SameWaiting
  <1>22. CASE PrefetchPut
    <2>1. Waiting' = Waiting /\ fgWaiting' = fgWaiting
      BY <1>22, ThreadAssumption DEF PrefetchPut, Waiting, Woken, Home, Release, Acquire
    <2> QED BY <2>1, SameWaiting
  <1>23. CASE Destroy
    <2>1. Waiting' = Waiting /\ fgWaiting' = fgWaiting
      BY <1>23, ThreadAssumption DEF Destroy, Waiting, Woken, Home, Release, Acquire
    <2> QED BY <2>1, SameWaiting
  <1>24. CASE DestroyNotify
    <2>1. Waiting' = Waiting /\ fgWaiting' = fgWaiting
      BY <1>24, ThreadAssumption DEF DestroyNotify, Waiting, Woken, Home, Release, Acquire
    <2> QED BY <2>1, SameWaiting
  <1>25. CASE DestroyJoin
    <2>1. Waiting' = Waiting /\ fgWaiting' = fgWaiting
      BY <1>25, ThreadAssumption DEF DestroyJoin, Waiting, Woken, Home, Release, Acquire
    <2> QED BY <2>1, SameWaiting
  <1>26. CASE UNCHANGED vars
    <2>1. Waiting' = Waiting /\ fgWaiting' = fgWaiting
      BY <1>26, ThreadAssumption DEF vars, Waiting, Woken, Home, Release, Acquire
    <2> QED BY <2>1, SameWaiting
  <1> QED
    BY <1>1, <1>2, <1>3, <1>4, <1>5, <1>6, <1>7, <1>8, <1>9, <1>10,
       <1>11, <1>12, <1>13, <1>14, <1>15, <1>16, <1>17, <1>18, <1>19, <1>20,
       <1>21, <1>22, <1>23, <1>24, <1>25, <1>26
       DEF Next, Request, CallerStep, WorkerStep, Build, Gone, Threads

\* There are only finitely many hints, and no more than the bound.
FewHints == IsFiniteSet(Hinted) /\ Cardinality(Hinted) <= CacheMax + 1

LEMMA StepHints == IInv /\ [Next]_vars /\ FewHints => FewHints'
  <1> SUFFICES ASSUME IInv, [Next]_vars, FewHints PROVE FewHints'
    OBVIOUS
  <1>1. ASSUME NEW c \in Callers, NEW r \in Readings, Top1Call(c, r) PROVE FewHints'
    BY <1>1 DEF Top1Call, cacheVars, FewHints, Hinted
  <1>2. ASSUME NEW c \in Callers, NEW r \in Readings, NEW max \in Limits,
             CandidatesCall(c, r, max)
       PROVE FewHints'
    BY <1>2 DEF CandidatesCall, cacheVars, FewHints, Hinted
  <1>3. ASSUME NEW c \in Callers, Top1Lock(c) PROVE FewHints'
    BY <1>3 DEF Top1Lock, cacheVars, FewHints, Hinted
  <1>4. ASSUME NEW c \in Callers, Top1Run(c) PROVE FewHints'
    BY <1>4 DEF Top1Run, cacheVars, FewHints, Hinted
  <1>5. ASSUME NEW c \in Callers, Top1Remember(c) PROVE FewHints'
    <2> DEFINE r == loc[c].reading
    <2>1. r \in Readings /\ loc[c].t1 # Unset /\ rememberTop1(r, loc[c].t1)
      BY <1>5, ValueAssumption
         DEF Top1Remember, Goto, IInv, LocalsOK, Fits, Resting, Answered, Threads
    <2>2. Hinted' = IF Cardinality(Hinted) > CacheMax THEN {r} ELSE Hinted \cup {r}
      BY <2>1 DEF Hinted, rememberTop1
    <2>3. IsFiniteSet(Hinted) /\ Cardinality(Hinted) \in Nat /\ CacheMax \in Nat
      BY FS_CardinalityType, BoundAssumption DEF FewHints
    <2>4. /\ IsFiniteSet({r}) /\ Cardinality({r}) = 1
          /\ IsFiniteSet(Hinted \cup {r})
          /\ Cardinality(Hinted \cup {r}) <= Cardinality(Hinted) + 1
      <3>1. IsFiniteSet({r}) /\ Cardinality({r}) = 1
        BY FS_Singleton
      <3>2. IsFiniteSet(Hinted \cup {r})
        BY <2>3, FS_AddElement
      <3>3. Cardinality(Hinted \cup {r})
               = IF r \in Hinted THEN Cardinality(Hinted) ELSE Cardinality(Hinted) + 1
        BY <2>3, FS_AddElement
      <3> HIDE DEF r
      <3> QED BY <2>3, <3>1, <3>2, <3>3
    <2> HIDE DEF r
    <2>5. CASE Cardinality(Hinted) > CacheMax
      <3>1. Hinted' = {r}
        BY <2>2, <2>5
      <3>2. Cardinality(Hinted') = 1 /\ IsFiniteSet(Hinted')
        BY <2>4, <3>1
      <3> QED BY <2>3, <3>2 DEF FewHints
    <2>6. CASE ~(Cardinality(Hinted) > CacheMax)
      <3>1. Hinted' = Hinted \cup {r}
        BY <2>2, <2>6
      <3>2. IsFiniteSet(Hinted') /\ Cardinality(Hinted') <= Cardinality(Hinted) + 1
        BY <2>4, <3>1
      <3>3. Cardinality(Hinted') \in Nat
        BY <3>2, FS_CardinalityType
      <3> QED BY <2>3, <2>6, <3>2, <3>3 DEF FewHints
    <2> QED BY <2>5, <2>6
  <1>6. ASSUME NEW c \in Callers, Top1Cached(c) PROVE FewHints'
    BY <1>6 DEF Top1Cached, cacheVars, FewHints, Hinted
  <1>7. ASSUME NEW c \in Callers, Top1Queue(c) PROVE FewHints'
    BY <1>7 DEF Top1Queue, cacheVars, FewHints, Hinted
  <1>8. ASSUME NEW c \in Callers, Top1Notify(c) PROVE FewHints'
    BY <1>8 DEF Top1Notify, cacheVars, FewHints, Hinted
  <1>9. ASSUME NEW c \in Callers, CandidatesGet(c) PROVE FewHints'
    BY <1>9 DEF CandidatesGet, cacheVars, FewHints, Hinted
  <1>10. ASSUME NEW c \in Callers, CandidatesWant(c) PROVE FewHints'
    BY <1>10 DEF CandidatesWant, cacheVars, FewHints, Hinted
  <1>11. ASSUME NEW c \in Callers, CandidatesLock(c) PROVE FewHints'
    BY <1>11 DEF CandidatesLock, cacheVars, FewHints, Hinted
  <1>12. ASSUME NEW c \in Callers, CandidatesRecheck(c) PROVE FewHints'
    BY <1>12 DEF CandidatesRecheck, cacheVars, FewHints, Hinted
  <1>13. ASSUME NEW c \in Callers, CandidatesPut(c) PROVE FewHints'
    BY <1>13 DEF CandidatesPut, cacheVars, FewHints, Hinted
  <1>14. ASSUME NEW t \in Threads, BuildTake(t) PROVE FewHints'
    <2> DEFINE r == loc[t].reading
    <2>1. r \in Readings /\ takeTop1(r) /\ hint \in [Readings -> Texts \cup {Unset}]
      BY <1>14 DEF BuildTake, Goto, IInv, LocalsOK, SharedOK, Fits, Resting, Threads
    <2>2. Hinted' = Hinted \ {r}
      BY <2>1 DEF Hinted, takeTop1
    <2>3. IsFiniteSet(Hinted) /\ Cardinality(Hinted) \in Nat /\ CacheMax \in Nat
      BY FS_CardinalityType, BoundAssumption DEF FewHints
    <2>4. IsFiniteSet(Hinted \ {r}) /\ Cardinality(Hinted \ {r}) <= Cardinality(Hinted)
      BY <2>3, FS_RemoveElement
    <2>5. IsFiniteSet(Hinted') /\ Cardinality(Hinted') <= Cardinality(Hinted)
      BY <2>2, <2>4
    <2>6. Cardinality(Hinted') \in Nat
      BY <2>5, FS_CardinalityType
    <2> QED BY <2>3, <2>5, <2>6 DEF FewHints
  <1>15. ASSUME NEW t \in Threads, BuildHenkan(t) PROVE FewHints'
    BY <1>15 DEF BuildHenkan, cacheVars, FewHints, Hinted
  <1>16. ASSUME NEW t \in Threads, BuildReconv(t) PROVE FewHints'
    BY <1>16 DEF BuildReconv, cacheVars, FewHints, Hinted
  <1>17. CASE PrefetchWait
    BY <1>17 DEF PrefetchWait, cacheVars, FewHints, Hinted
  <1>18. CASE PrefetchHas
    BY <1>18 DEF PrefetchHas, cacheVars, FewHints, Hinted
  <1>19. CASE PrefetchYield
    BY <1>19 DEF PrefetchYield, cacheVars, FewHints, Hinted
  <1>20. CASE PrefetchLock
    BY <1>20 DEF PrefetchLock, cacheVars, FewHints, Hinted
  <1>21. CASE PrefetchRecheck
    BY <1>21 DEF PrefetchRecheck, cacheVars, FewHints, Hinted
  <1>22. CASE PrefetchPut
    BY <1>22 DEF PrefetchPut, cacheVars, FewHints, Hinted
  <1>23. CASE Destroy
    BY <1>23 DEF Destroy, cacheVars, FewHints, Hinted
  <1>24. CASE DestroyNotify
    BY <1>24 DEF DestroyNotify, cacheVars, FewHints, Hinted
  <1>25. CASE DestroyJoin
    BY <1>25 DEF DestroyJoin, cacheVars, FewHints, Hinted
  <1>26. CASE UNCHANGED vars
    BY <1>26 DEF vars, cacheVars, FewHints, Hinted
  <1> QED
    BY <1>1, <1>2, <1>3, <1>4, <1>5, <1>6, <1>7, <1>8, <1>9, <1>10,
       <1>11, <1>12, <1>13, <1>14, <1>15, <1>16, <1>17, <1>18, <1>19, <1>20,
       <1>21, <1>22, <1>23, <1>24, <1>25, <1>26
       DEF Next, Request, CallerStep, WorkerStep, Build, Gone, Threads

LEMMA InitCounts == Init => CountOK /\ FewHints
  <1> SUFFICES ASSUME Init PROVE CountOK /\ FewHints
    OBVIOUS
  <1>1. Waiting = {} /\ Hinted = {} /\ fgWaiting = 0
    BY ThreadAssumption DEF Init, Waiting, Hinted, Threads
  <1>2. CacheMax \in Nat
    BY BoundAssumption
  <1> QED BY <1>1, <1>2, FS_EmptySet DEF CountOK, FewHints

\* session.h and session.cpp: cache_ and lru_ agree, the hints stay within kCacheMax and one more,
\* fg_waiting_ is the number of callers waiting for the engine, and every
\* list in the cache leads with its one commit and loses nothing convert
\* returned: for any number of callers and readings and any engine answers.
THEOREM BooksInOrder == Spec => []Consistent
  <1>1. Init => IInv /\ CountOK /\ FewHints
    BY InitIInv, InitCounts
  <1>2. IInv /\ CountOK /\ FewHints /\ [Next]_vars => IInv' /\ CountOK' /\ FewHints'
    BY Inductive, StepCount, StepHints
  <1>3. IInv /\ CountOK /\ FewHints => Consistent
    <2>1. IInv => TypeOK /\ CacheMatchesOrder /\ CacheHoldsWholeLists
      BY DEF IInv, TypeOK, SharedOK, LocalsOK, CacheOK
    <2> QED BY <2>1, WholeListsAreWellFormed
            DEF Consistent, CountOK, Waiting, WaitingCounted, FewHints, HintsBounded
  <1> QED BY <1>1, <1>2, <1>3, PTL DEF Spec

-----------------------------------------------------------------------------
(***************************************************************************)
(* The list a client opens and the conversions the session went by.        *)
(***************************************************************************)

\* What thread t at p with locals l carries of r's top-1: one on record, until henkan
\* has answered perhaps none, and in the end a list that one of them leads.
Carries(t, p, l) == /\ p \in Answered \cup {"reconv"} => l.t1 \in top1s[l.reading]
                    /\ p = "henkan" => l.t1 \in top1s[l.reading] \cup {NoText}
                    /\ p = "put" => l.built.commit \in leaders[l.reading]

ThreadsLed == \A t \in Threads : Carries(t, pc[t], loc[t])
HintsLed == \A r \in Readings : hint[r] # Unset => hint[r] \in top1s[r]
CacheLed == \A r \in Readings : cacheHas(r) => cache[r].commit \in leaders[r]
LedBy(v) == v # Unset /\ v.ok => v.r \in Readings /\ v.commit \in leaders[v.r]
RepliesLed == /\ reply = [c \in Callers |-> reply[c]]
              /\ \A c \in Callers : LedBy(reply[c])

Led == /\ top1s = [r \in Readings |-> top1s[r]]
       /\ ThreadsLed /\ HintsLed /\ CacheLed /\ RepliesLed

\* The record only grows, and so does what a list may lead with.
Grows == \A r \in Readings : top1s[r] \subseteq top1s'[r] /\ leaders[r] \subseteq leaders'[r]

LEMMA RecordGrows ==
    ASSUME Recorded PROVE Grows /\ top1s' = [r \in Readings |-> top1s'[r]]
  <1>1. top1s' = [r \in Readings |-> top1s'[r]] /\ \A r \in Readings : top1s[r] \subseteq top1s'[r]
    BY DEF Recorded
  <1>2. ASSUME NEW r \in Readings PROVE leaders[r] \subseteq leaders'[r]
    BY <1>1 DEF leaders
  <1> QED BY <1>1, <1>2 DEF Grows

\* A top-1 is put on record in the step that settles it.
LEMMA Settled ==
    ASSUME Recorded, NEW t \in Threads, loc[t].reading \in Readings,
           \/ pc[t] = "top1_run" /\ pc'[t] = "top1_remember"
           \/ pc[t] = "henkan" /\ pc'[t] = "reconv"
    PROVE  loc'[t].t1 \in top1s'[loc[t].reading]
  <1>1. t \in Deciding(loc[t].reading)
    BY DEF Deciding
  <1> QED BY <1>1 DEF Recorded

LEMMA OnRecordMayLead ==
    ASSUME NEW r \in Readings PROVE top1s[r] \subseteq leaders[r]
  BY DEF leaders

\* buildCandidates leads its list with the top-1 it has, and with convert's first without one.
LEMMA MergedIsLed ==
    ASSUME NEW r \in Readings, NEW x \in top1s[r], NEW n
    PROVE  MergedList(r, x, n).commit \in leaders[r]
  <1>1. MergedList(r, x, n).commit
           = IF x # NoText THEN x ELSE IF Reconv[r] # <<>> THEN Head(Reconv[r]) ELSE NoText
    BY DEF MergedList
  <1> QED BY <1>1 DEF leaders

\* What cachePut leaves under k.
LEMMA PutLeaves ==
    ASSUME cache \in [Readings -> Lists \cup {Unset}], NEW r \in Readings, NEW list,
           cachePut(r, list), NEW k \in Readings
    PROVE  cache'[k] = Unset \/ cache'[k] = cache[k] \/ (k = r /\ cache'[k] = list)
  <1>1. CASE cacheHas(r)
    BY <1>1 DEF cachePut
  <1>2. CASE ~cacheHas(r)
    BY <1>2 DEF cachePut
  <1> QED BY <1>1, <1>2

LEMMA StepCacheLed ==
    ASSUME IInv, [Next]_vars, Led, Recorded
    PROVE  CacheLed'
  <1>0. Grows
    BY RecordGrows
  <1> USE <1>0 DEF Led, Grows
  <1>1. ASSUME NEW c \in Callers, NEW r \in Readings, Top1Call(c, r) PROVE CacheLed'
    BY <1>1 DEF Top1Call, CacheLed, cacheHas, cacheVars
  <1>2. ASSUME NEW c \in Callers, NEW r \in Readings, NEW max \in Limits,
             CandidatesCall(c, r, max)
       PROVE CacheLed'
    BY <1>2 DEF CandidatesCall, CacheLed, cacheHas, cacheVars
  <1>3. ASSUME NEW c \in Callers, Top1Lock(c) PROVE CacheLed'
    BY <1>3 DEF Top1Lock, CacheLed, cacheHas, cacheVars
  <1>4. ASSUME NEW c \in Callers, Top1Run(c) PROVE CacheLed'
    BY <1>4 DEF Top1Run, CacheLed, cacheHas, cacheVars
  <1>5. ASSUME NEW c \in Callers, Top1Remember(c) PROVE CacheLed'
    BY <1>5 DEF Top1Remember, CacheLed, cacheHas, cacheVars
  <1>6. ASSUME NEW c \in Callers, Top1Cached(c) PROVE CacheLed'
    BY <1>6 DEF Top1Cached, CacheLed, cacheHas, cacheVars
  <1>7. ASSUME NEW c \in Callers, Top1Queue(c) PROVE CacheLed'
    BY <1>7 DEF Top1Queue, CacheLed, cacheHas, cacheVars
  <1>8. ASSUME NEW c \in Callers, Top1Notify(c) PROVE CacheLed'
    BY <1>8 DEF Top1Notify, CacheLed, cacheHas, cacheVars
  <1>9. ASSUME NEW c \in Callers, CandidatesGet(c) PROVE CacheLed'
    BY <1>9 DEF CandidatesGet, CacheLed, cacheHas, cacheVars
  <1>10. ASSUME NEW c \in Callers, CandidatesWant(c) PROVE CacheLed'
    BY <1>10 DEF CandidatesWant, CacheLed, cacheHas, cacheVars
  <1>11. ASSUME NEW c \in Callers, CandidatesLock(c) PROVE CacheLed'
    BY <1>11 DEF CandidatesLock, CacheLed, cacheHas, cacheVars
  <1>12. ASSUME NEW c \in Callers, CandidatesRecheck(c) PROVE CacheLed'
    BY <1>12 DEF CandidatesRecheck, CacheLed, cacheHas, cacheVars
  <1>13. ASSUME NEW c \in Callers, CandidatesPut(c) PROVE CacheLed'
    <2>1. /\ loc[c].reading \in Readings /\ cachePut(loc[c].reading, loc[c].built)
          /\ loc[c].built.commit \in leaders[loc[c].reading]
      BY <1>13 DEF CandidatesPut, Goto, IInv, LocalsOK, Fits, Resting, Threads, ThreadsLed, Carries
    <2>2. ASSUME NEW k \in Readings, cacheHas(k)' PROVE cache'[k].commit \in leaders'[k]
      <3>1. cache'[k] = cache[k] \/ (k = loc[c].reading /\ cache'[k] = loc[c].built)
        BY <2>1, <2>2, PutLeaves DEF cacheHas, IInv, CacheOK
      <3> QED BY <2>1, <2>2, <3>1 DEF CacheLed, cacheHas
    <2> QED BY <2>2 DEF CacheLed, cacheHas
  <1>14. ASSUME NEW t \in Threads, BuildTake(t) PROVE CacheLed'
    BY <1>14 DEF BuildTake, CacheLed, cacheHas, cacheVars
  <1>15. ASSUME NEW t \in Threads, BuildHenkan(t) PROVE CacheLed'
    BY <1>15 DEF BuildHenkan, CacheLed, cacheHas, cacheVars
  <1>16. ASSUME NEW t \in Threads, BuildReconv(t) PROVE CacheLed'
    BY <1>16 DEF BuildReconv, CacheLed, cacheHas, cacheVars
  <1>17. CASE PrefetchWait
    BY <1>17 DEF PrefetchWait, CacheLed, cacheHas, cacheVars
  <1>18. CASE PrefetchHas
    BY <1>18 DEF PrefetchHas, CacheLed, cacheHas, cacheVars
  <1>19. CASE PrefetchYield
    BY <1>19 DEF PrefetchYield, CacheLed, cacheHas, cacheVars
  <1>20. CASE PrefetchLock
    BY <1>20 DEF PrefetchLock, CacheLed, cacheHas, cacheVars
  <1>21. CASE PrefetchRecheck
    BY <1>21 DEF PrefetchRecheck, CacheLed, cacheHas, cacheVars
  <1>22. CASE PrefetchPut
    <2>1. /\ loc[Worker].reading \in Readings /\ cachePut(loc[Worker].reading, loc[Worker].built)
          /\ loc[Worker].built.commit \in leaders[loc[Worker].reading]
      BY <1>22 DEF PrefetchPut, Goto, IInv, LocalsOK, Fits, Resting, Threads, ThreadsLed, Carries
    <2>2. ASSUME NEW k \in Readings, cacheHas(k)' PROVE cache'[k].commit \in leaders'[k]
      <3>1. cache'[k] = cache[k] \/ (k = loc[Worker].reading /\ cache'[k] = loc[Worker].built)
        BY <2>1, <2>2, PutLeaves DEF cacheHas, IInv, CacheOK
      <3> QED BY <2>1, <2>2, <3>1 DEF CacheLed, cacheHas
    <2> QED BY <2>2 DEF CacheLed, cacheHas
  <1>23. CASE Destroy
    BY <1>23 DEF Destroy, CacheLed, cacheHas, cacheVars
  <1>24. CASE DestroyNotify
    BY <1>24 DEF DestroyNotify, CacheLed, cacheHas, cacheVars
  <1>25. CASE DestroyJoin
    BY <1>25 DEF DestroyJoin, CacheLed, cacheHas, cacheVars
  <1>26. CASE UNCHANGED vars
    BY <1>26 DEF vars, CacheLed, cacheHas, cacheVars
  <1> QED
    BY <1>1, <1>2, <1>3, <1>4, <1>5, <1>6, <1>7, <1>8, <1>9, <1>10,
       <1>11, <1>12, <1>13, <1>14, <1>15, <1>16, <1>17, <1>18, <1>19, <1>20,
       <1>21, <1>22, <1>23, <1>24, <1>25, <1>26
       DEF Next, Request, CallerStep, WorkerStep, Build, Gone, Threads

\* The places at which a thread has something to carry.
Laden == Answered \cup {"henkan", "reconv", "put"}

\* Thread u puts down what it carries, or goes on with it.
GoesOn(u) == \/ pc'[u] \notin Laden
             \/ loc'[u] = loc[u] /\ (pc'[u] = pc[u] \/ (pc[u] \in Answered /\ pc'[u] \in Answered))

LEMMA CarryOn ==
    ASSUME Recorded, IInv, ThreadsLed,
           \A u \in Threads : GoesOn(u) \/ Carries(u, pc[u], loc[u])'
    PROVE  ThreadsLed'
  <1> SUFFICES ASSUME NEW u \in Threads, GoesOn(u) PROVE Carries(u, pc[u], loc[u])'
    BY DEF ThreadsLed
  <1>1. Carries(u, pc[u], loc[u]) /\ Fits(u, pc[u], loc[u])
    BY DEF ThreadsLed, IInv, LocalsOK
  <1>2. CASE pc'[u] \notin Laden
    BY <1>2 DEF Laden, Carries
  <1>3. CASE pc'[u] \in Laden
    <2>1. loc'[u].reading \in Readings
      BY <1>1, <1>3 DEF GoesOn, Fits, Resting, Laden, Answered
    <2> QED BY <1>1, <1>3, <2>1, RecordGrows DEF GoesOn, Carries, Grows, Laden, Answered
  <1> QED BY <1>2, <1>3

LEMMA StepThreadsLed ==
    ASSUME IInv, [Next]_vars, Led, Recorded
    PROVE  ThreadsLed'
  <1> USE DEF Led, IInv, LocalsOK, Goto, Threads, localVars, GoesOn, Laden, Answered, ClearLocals, Blank
  <1>1. ASSUME NEW c \in Callers, NEW r \in Readings, Top1Call(c, r) PROVE ThreadsLed'
    BY <1>1, ThreadAssumption, CarryOn DEF Top1Call, Woken, ReturnTop1
  <1>2. ASSUME NEW c \in Callers, NEW r \in Readings, NEW max \in Limits,
             CandidatesCall(c, r, max)
       PROVE ThreadsLed'
    BY <1>2, ThreadAssumption, CarryOn DEF CandidatesCall, Woken, ReturnTop1
  <1>3. ASSUME NEW c \in Callers, Top1Lock(c) PROVE ThreadsLed'
    BY <1>3, ThreadAssumption, CarryOn DEF Top1Lock, Woken, ReturnTop1
  <1>4. ASSUME NEW c \in Callers, Top1Run(c) PROVE ThreadsLed'
    <2>0. pc[c] = "top1_run" /\ loc[c] \in Locals /\ loc[c].reading \in Readings
      BY <1>4 DEF Top1Run, Fits, Resting
    <2>1. CASE pc' = [pc EXCEPT ![c] = "top1_remember"]
      <3>1. PICK top \in Tops[loc[c].reading] : loc' = [loc EXCEPT ![c].t1 = top]
        BY <1>4, <2>1, <2>0 DEF Top1Run
      <3>2. loc'[c].t1 \in top1s'[loc'[c].reading]
        BY <2>0, <2>1, <3>1, Settled DEF Locals
      <3>3. Carries(c, pc[c], loc[c])'
        BY <2>1, <3>2 DEF Carries
      <3> QED BY <2>1, <3>1, <3>3, CarryOn
    <2>2. CASE pc' = [pc EXCEPT ![c] = "idle"] /\ loc' = [loc EXCEPT ![c] = Blank]
      BY <2>2, CarryOn
    <2> QED BY <1>4, <2>1, <2>2 DEF Top1Run
  <1>5. ASSUME NEW c \in Callers, Top1Remember(c) PROVE ThreadsLed'
    BY <1>5, ThreadAssumption, CarryOn DEF Top1Remember, Woken, ReturnTop1
  <1>6. ASSUME NEW c \in Callers, Top1Cached(c) PROVE ThreadsLed'
    BY <1>6, ThreadAssumption, CarryOn DEF Top1Cached, Woken, ReturnTop1
  <1>7. ASSUME NEW c \in Callers, Top1Queue(c) PROVE ThreadsLed'
    BY <1>7, ThreadAssumption, CarryOn DEF Top1Queue, Woken, ReturnTop1
  <1>8. ASSUME NEW c \in Callers, Top1Notify(c) PROVE ThreadsLed'
    BY <1>8, ThreadAssumption, CarryOn DEF Top1Notify, Woken, ReturnTop1
  <1>9. ASSUME NEW c \in Callers, CandidatesGet(c) PROVE ThreadsLed'
    BY <1>9, ThreadAssumption, CarryOn DEF CandidatesGet, Woken, ReturnTop1
  <1>10. ASSUME NEW c \in Callers, CandidatesWant(c) PROVE ThreadsLed'
    BY <1>10, ThreadAssumption, CarryOn DEF CandidatesWant, Woken, ReturnTop1
  <1>11. ASSUME NEW c \in Callers, CandidatesLock(c) PROVE ThreadsLed'
    BY <1>11, ThreadAssumption, CarryOn DEF CandidatesLock, Woken, ReturnTop1
  <1>12. ASSUME NEW c \in Callers, CandidatesRecheck(c) PROVE ThreadsLed'
    BY <1>12, ThreadAssumption, CarryOn DEF CandidatesRecheck, Woken, ReturnTop1
  <1>13. ASSUME NEW c \in Callers, CandidatesPut(c) PROVE ThreadsLed'
    BY <1>13, ThreadAssumption, CarryOn DEF CandidatesPut, Woken, ReturnTop1
  <1>14. ASSUME NEW t \in Threads, BuildTake(t) PROVE ThreadsLed'
    <2>0. pc[t] = "take" /\ loc[t] \in Locals /\ loc[t].reading \in Readings
      BY <1>14 DEF BuildTake, Fits, Resting
    <2>1. /\ pc' = [pc EXCEPT ![t] = "henkan"]
          /\ loc' = [loc EXCEPT ![t].t1 = IF hint[loc[t].reading] = Unset THEN NoText
                                     ELSE hint[loc[t].reading]]
      BY <1>14 DEF BuildTake
    <2>2. loc'[t].reading = loc[t].reading /\ loc'[t].t1 \in top1s'[loc[t].reading] \cup {NoText}
      BY <2>0, <2>1, RecordGrows DEF Locals, HintsLed, Grows
    <2>3. Carries(t, pc[t], loc[t])'
      BY <2>1, <2>2 DEF Carries
    <2> QED BY <2>1, <2>3, CarryOn
  <1>15. ASSUME NEW t \in Threads, BuildHenkan(t) PROVE ThreadsLed'
    <2>0. pc[t] = "henkan" /\ loc[t] \in Locals /\ loc[t].reading \in Readings
      BY <1>15 DEF BuildHenkan, Fits, Resting
    <2>1. pc' = [pc EXCEPT ![t] = "reconv"]
      BY <1>15 DEF BuildHenkan
    <2>2. loc'[t].t1 \in top1s'[loc[t].reading]
      BY <2>0, <2>1, Settled
    <2>3. /\ loc'[t].reading = loc[t].reading
          /\ \A u \in Threads \ {t} : loc'[u] = loc[u]
      <3>1. \/ \E x : loc' = [loc EXCEPT ![t].t1 = x, ![t].hex = Len(HenkanEx[loc[t].reading])]
            \/ \E n : loc' = [loc EXCEPT ![t].hex = n]
        BY <1>15 DEF BuildHenkan
      <3>2. ASSUME NEW x, NEW n,
                   \/ loc' = [loc EXCEPT ![t].t1 = x, ![t].hex = n]
                   \/ loc' = [loc EXCEPT ![t].hex = n]
            PROVE  /\ loc'[t].reading = loc[t].reading
                   /\ \A u \in Threads \ {t} : loc'[u] = loc[u]
        BY <2>0, <3>2 DEF Locals
      <3> HIDE DEF LocalsOK, IInv
      <3> QED BY <3>1, <3>2
    <2>4. Carries(t, pc[t], loc[t])'
      BY <2>1, <2>2, <2>3 DEF Carries
    <2> QED BY <2>1, <2>3, <2>4, CarryOn
  <1>16. ASSUME NEW t \in Threads, BuildReconv(t) PROVE ThreadsLed'
    <2>0. /\ pc[t] = "reconv" /\ loc[t] \in Locals /\ loc[t].reading \in Readings
          /\ loc[t].t1 \in top1s[loc[t].reading]
      BY <1>16 DEF BuildReconv, Fits, Resting, ThreadsLed, Carries
    <2> DEFINE l == MergedList(loc[t].reading, loc[t].t1, loc[t].hex)
    <2>1. l.commit \in leaders'[loc[t].reading]
      BY <2>0, MergedIsLed, RecordGrows DEF Grows
    <2>2. \/ pc' = [pc EXCEPT ![t] = "put"] /\ loc' = [loc EXCEPT ![t].built = l]
          \/ pc' = [pc EXCEPT ![t] = Home(t)] /\ loc' = [loc EXCEPT ![t] = Blank]
      BY <1>16 DEF BuildReconv
    <2> HIDE DEF l
    <2>3. CASE pc' = [pc EXCEPT ![t] = "put"] /\ loc' = [loc EXCEPT ![t].built = l]
      <3>1. loc'[t].reading = loc[t].reading /\ loc'[t].built = l
        BY <2>0, <2>3 DEF Locals
      <3>2. Carries(t, pc[t], loc[t])'
        BY <2>1, <2>3, <3>1 DEF Carries
      <3> QED BY <2>3, <3>2, CarryOn
    <2>4. CASE pc' = [pc EXCEPT ![t] = Home(t)] /\ loc' = [loc EXCEPT ![t] = Blank]
      BY <2>4, CarryOn DEF Home
    <2> QED BY <2>2, <2>3, <2>4
  <1>17. CASE PrefetchWait
    BY <1>17, ThreadAssumption, CarryOn DEF PrefetchWait, Woken, ReturnTop1
  <1>18. CASE PrefetchHas
    BY <1>18, ThreadAssumption, CarryOn DEF PrefetchHas, Woken, ReturnTop1
  <1>19. CASE PrefetchYield
    BY <1>19, ThreadAssumption, CarryOn DEF PrefetchYield, Woken, ReturnTop1
  <1>20. CASE PrefetchLock
    BY <1>20, ThreadAssumption, CarryOn DEF PrefetchLock, Woken, ReturnTop1
  <1>21. CASE PrefetchRecheck
    BY <1>21, ThreadAssumption, CarryOn DEF PrefetchRecheck, Woken, ReturnTop1
  <1>22. CASE PrefetchPut
    BY <1>22, ThreadAssumption, CarryOn DEF PrefetchPut, Woken, ReturnTop1
  <1>23. CASE Destroy
    BY <1>23, ThreadAssumption, CarryOn DEF Destroy, Woken, ReturnTop1
  <1>24. CASE DestroyNotify
    BY <1>24, ThreadAssumption, CarryOn DEF DestroyNotify, Woken, ReturnTop1
  <1>25. CASE DestroyJoin
    BY <1>25, ThreadAssumption, CarryOn DEF DestroyJoin, Woken, ReturnTop1
  <1>26. CASE UNCHANGED vars
    BY <1>26, CarryOn DEF vars
  <1> QED
    BY <1>1, <1>2, <1>3, <1>4, <1>5, <1>6, <1>7, <1>8, <1>9, <1>10,
       <1>11, <1>12, <1>13, <1>14, <1>15, <1>16, <1>17, <1>18, <1>19, <1>20,
       <1>21, <1>22, <1>23, <1>24, <1>25, <1>26
       DEF Next, Request, CallerStep, WorkerStep, Build, Gone, Threads

\* The replies stay led in a step that gives nobody a reply, or c the led reply v.
LEMMA KeptReplies ==
    ASSUME Recorded, RepliesLed, reply' = reply PROVE RepliesLed'
  BY RecordGrows DEF RepliesLed, LedBy, Grows

LEMMA OneReply ==
    ASSUME Recorded, RepliesLed, NEW c, NEW v, reply' = [reply EXCEPT ![c] = v],
           v # Unset /\ v.ok => v.r \in Readings /\ v.commit \in leaders'[v.r]
    PROVE  RepliesLed'
  <1>1. reply' = [d \in Callers |-> reply'[d]]
    BY DEF RepliesLed
  <1>2. ASSUME NEW d \in Callers PROVE LedBy(reply[d])'
    <2>1. reply'[d] = v \/ reply'[d] = reply[d]
      BY DEF RepliesLed
    <2> QED BY <2>1, RecordGrows DEF RepliesLed, LedBy, Grows
  <1> QED BY <1>1, <1>2 DEF RepliesLed

LEMMA StepRepliesLed ==
    ASSUME IInv, [Next]_vars, Led, Recorded
    PROVE  RepliesLed'
  <1> USE DEF Led
  <1>1. ASSUME NEW c \in Callers, NEW r \in Readings, Top1Call(c, r) PROVE RepliesLed'
    <2>1. reply' = [reply EXCEPT ![c] = Unset]
      BY <1>1 DEF Top1Call, Return
    <2> QED BY <2>1, OneReply
  <1>2. ASSUME NEW c \in Callers, NEW r \in Readings, NEW max \in Limits,
             CandidatesCall(c, r, max)
       PROVE RepliesLed'
    <2>1. reply' = [reply EXCEPT ![c] = Unset]
      BY <1>2 DEF CandidatesCall, Return
    <2> QED BY <2>1, OneReply
  <1>3. ASSUME NEW c \in Callers, Top1Lock(c) PROVE RepliesLed'
    BY <1>3, KeptReplies DEF Top1Lock
  <1>4. ASSUME NEW c \in Callers, Top1Run(c) PROVE RepliesLed'
    <2>1. reply' = reply \/ reply' = [reply EXCEPT ![c] = Failure]
      BY <1>4 DEF Top1Run, Return
    <2> QED BY <2>1, KeptReplies, OneReply DEF Failure
  <1>5. ASSUME NEW c \in Callers, Top1Remember(c) PROVE RepliesLed'
    BY <1>5, KeptReplies DEF Top1Remember
  <1>6. ASSUME NEW c \in Callers, Top1Cached(c) PROVE RepliesLed'
    <2>0. loc[c].reading \in Readings /\ loc[c].t1 \in leaders'[loc[c].reading]
      BY <1>6, OnRecordMayLead, RecordGrows
         DEF Top1Cached, Goto, IInv, LocalsOK, Fits, Resting, Answered, Threads, ThreadsLed, Carries, Grows
    <2> DEFINE v == [ok |-> TRUE, r |-> loc[c].reading, commit |-> loc[c].t1,
                     candidates |-> <<>>, ex |-> <<>>]
    <2>1. v.r \in Readings /\ v.commit \in leaders'[v.r]
      BY <2>0
    <2>2. reply' = [reply EXCEPT ![c] = v] \/ reply' = reply
      BY <1>6 DEF Top1Cached, ReturnTop1, Return
    <2> HIDE DEF v
    <2> QED BY <2>1, <2>2, KeptReplies, OneReply
  <1>7. ASSUME NEW c \in Callers, Top1Queue(c) PROVE RepliesLed'
    BY <1>7, KeptReplies DEF Top1Queue
  <1>8. ASSUME NEW c \in Callers, Top1Notify(c) PROVE RepliesLed'
    <2>0. loc[c].reading \in Readings /\ loc[c].t1 \in leaders'[loc[c].reading]
      BY <1>8, OnRecordMayLead, RecordGrows
         DEF Top1Notify, Goto, IInv, LocalsOK, Fits, Resting, Answered, Threads, ThreadsLed, Carries, Grows
    <2> DEFINE v == [ok |-> TRUE, r |-> loc[c].reading, commit |-> loc[c].t1,
                     candidates |-> <<>>, ex |-> <<>>]
    <2>1. v.r \in Readings /\ v.commit \in leaders'[v.r]
      BY <2>0
    <2>2. reply' = [reply EXCEPT ![c] = v] \/ reply' = reply
      BY <1>8 DEF Top1Notify, ReturnTop1, Return
    <2> HIDE DEF v
    <2> QED BY <2>1, <2>2, KeptReplies, OneReply
  <1>9. ASSUME NEW c \in Callers, CandidatesGet(c) PROVE RepliesLed'
    <2>0. loc[c].reading \in Readings
      BY <1>9 DEF CandidatesGet, Goto, IInv, LocalsOK, Fits, Resting, Threads
    <2> DEFINE v == Success(loc[c].reading, cache[loc[c].reading], loc[c].limit)
    <2>1. cacheHas(loc[c].reading) => v.r \in Readings /\ v.commit \in leaders'[v.r]
      BY <2>0, RecordGrows DEF Success, CacheLed, Grows
    <2>2. (cacheHas(loc[c].reading) /\ reply' = [reply EXCEPT ![c] = v]) \/ reply' = reply
      BY <1>9 DEF CandidatesGet, Return
    <2> HIDE DEF v
    <2> QED BY <2>1, <2>2, KeptReplies, OneReply
  <1>10. ASSUME NEW c \in Callers, CandidatesWant(c) PROVE RepliesLed'
    BY <1>10, KeptReplies DEF CandidatesWant
  <1>11. ASSUME NEW c \in Callers, CandidatesLock(c) PROVE RepliesLed'
    BY <1>11, KeptReplies DEF CandidatesLock
  <1>12. ASSUME NEW c \in Callers, CandidatesRecheck(c) PROVE RepliesLed'
    <2>0. loc[c].reading \in Readings
      BY <1>12 DEF CandidatesRecheck, Goto, IInv, LocalsOK, Fits, Resting, Threads
    <2> DEFINE v == Success(loc[c].reading, cache[loc[c].reading], loc[c].limit)
    <2>1. cacheHas(loc[c].reading) => v.r \in Readings /\ v.commit \in leaders'[v.r]
      BY <2>0, RecordGrows DEF Success, CacheLed, Grows
    <2>2. (cacheHas(loc[c].reading) /\ reply' = [reply EXCEPT ![c] = v]) \/ reply' = reply
      BY <1>12 DEF CandidatesRecheck, Return
    <2> HIDE DEF v
    <2> QED BY <2>1, <2>2, KeptReplies, OneReply
  <1>13. ASSUME NEW c \in Callers, CandidatesPut(c) PROVE RepliesLed'
    <2>0. /\ loc[c].reading \in Readings
          /\ loc[c].built.commit \in leaders[loc[c].reading]
      BY <1>13 DEF CandidatesPut, Goto, IInv, LocalsOK, Fits, Resting, Threads, ThreadsLed, Carries
    <2> DEFINE v == Success(loc[c].reading, loc[c].built, loc[c].limit)
    <2>1. v.r \in Readings /\ v.commit \in leaders'[v.r]
      BY <2>0, RecordGrows DEF Success, Grows
    <2>2. reply' = [reply EXCEPT ![c] = v]
      BY <1>13 DEF CandidatesPut, Return
    <2> HIDE DEF v
    <2> QED BY <2>1, <2>2, KeptReplies, OneReply
  <1>14. ASSUME NEW t \in Threads, BuildTake(t) PROVE RepliesLed'
    BY <1>14, KeptReplies DEF BuildTake
  <1>15. ASSUME NEW t \in Threads, BuildHenkan(t) PROVE RepliesLed'
    BY <1>15, KeptReplies DEF BuildHenkan
  <1>16. ASSUME NEW t \in Threads, BuildReconv(t) PROVE RepliesLed'
    <2>1. reply' = reply \/ reply' = [reply EXCEPT ![t] = Failure]
      BY <1>16 DEF BuildReconv, Return
    <2> QED BY <2>1, KeptReplies, OneReply DEF Failure
  <1>17. CASE PrefetchWait
    BY <1>17, KeptReplies DEF PrefetchWait
  <1>18. CASE PrefetchHas
    BY <1>18, KeptReplies DEF PrefetchHas
  <1>19. CASE PrefetchYield
    BY <1>19, KeptReplies DEF PrefetchYield
  <1>20. CASE PrefetchLock
    BY <1>20, KeptReplies DEF PrefetchLock
  <1>21. CASE PrefetchRecheck
    BY <1>21, KeptReplies DEF PrefetchRecheck
  <1>22. CASE PrefetchPut
    BY <1>22, KeptReplies DEF PrefetchPut
  <1>23. CASE Destroy
    BY <1>23, KeptReplies DEF Destroy
  <1>24. CASE DestroyNotify
    BY <1>24, KeptReplies DEF DestroyNotify
  <1>25. CASE DestroyJoin
    BY <1>25, KeptReplies DEF DestroyJoin
  <1>26. CASE UNCHANGED vars
    BY <1>26, KeptReplies DEF vars
  <1> QED
    BY <1>1, <1>2, <1>3, <1>4, <1>5, <1>6, <1>7, <1>8, <1>9, <1>10,
       <1>11, <1>12, <1>13, <1>14, <1>15, <1>16, <1>17, <1>18, <1>19, <1>20,
       <1>21, <1>22, <1>23, <1>24, <1>25, <1>26
       DEF Next, Request, CallerStep, WorkerStep, Build, Gone, Threads

LEMMA StepHintsLed ==
    ASSUME IInv, [Next]_vars, Led, Recorded
    PROVE  HintsLed'
  <1>0. Grows
    BY RecordGrows
  <1> USE <1>0 DEF Led, Grows, cacheVars
  <1>1. ASSUME NEW c \in Callers, NEW r \in Readings, Top1Call(c, r) PROVE HintsLed'
    BY <1>1 DEF Top1Call, HintsLed
  <1>2. ASSUME NEW c \in Callers, NEW r \in Readings, NEW max \in Limits,
             CandidatesCall(c, r, max)
       PROVE HintsLed'
    BY <1>2 DEF CandidatesCall, HintsLed
  <1>3. ASSUME NEW c \in Callers, Top1Lock(c) PROVE HintsLed'
    BY <1>3 DEF Top1Lock, HintsLed
  <1>4. ASSUME NEW c \in Callers, Top1Run(c) PROVE HintsLed'
    BY <1>4 DEF Top1Run, HintsLed
  <1>5. ASSUME NEW c \in Callers, Top1Remember(c) PROVE HintsLed'
    <2>1. loc[c].reading \in Readings /\ loc[c].t1 \in top1s[loc[c].reading]
      BY <1>5 DEF Top1Remember, Goto, IInv, LocalsOK, Fits, Resting, Answered, Threads, ThreadsLed, Carries
    <2> QED BY <1>5, <2>1 DEF Top1Remember, rememberTop1, HintsLed
  <1>6. ASSUME NEW c \in Callers, Top1Cached(c) PROVE HintsLed'
    BY <1>6 DEF Top1Cached, HintsLed
  <1>7. ASSUME NEW c \in Callers, Top1Queue(c) PROVE HintsLed'
    BY <1>7 DEF Top1Queue, HintsLed
  <1>8. ASSUME NEW c \in Callers, Top1Notify(c) PROVE HintsLed'
    BY <1>8 DEF Top1Notify, HintsLed
  <1>9. ASSUME NEW c \in Callers, CandidatesGet(c) PROVE HintsLed'
    BY <1>9 DEF CandidatesGet, HintsLed
  <1>10. ASSUME NEW c \in Callers, CandidatesWant(c) PROVE HintsLed'
    BY <1>10 DEF CandidatesWant, HintsLed
  <1>11. ASSUME NEW c \in Callers, CandidatesLock(c) PROVE HintsLed'
    BY <1>11 DEF CandidatesLock, HintsLed
  <1>12. ASSUME NEW c \in Callers, CandidatesRecheck(c) PROVE HintsLed'
    BY <1>12 DEF CandidatesRecheck, HintsLed
  <1>13. ASSUME NEW c \in Callers, CandidatesPut(c) PROVE HintsLed'
    BY <1>13 DEF CandidatesPut, HintsLed
  <1>14. ASSUME NEW t \in Threads, BuildTake(t) PROVE HintsLed'
    <2>1. \A r \in Readings : hint'[r] = Unset \/ hint'[r] = hint[r]
      BY <1>14 DEF BuildTake, takeTop1, IInv, SharedOK, CacheOK
    <2> QED BY <2>1 DEF HintsLed
  <1>15. ASSUME NEW t \in Threads, BuildHenkan(t) PROVE HintsLed'
    BY <1>15 DEF BuildHenkan, HintsLed
  <1>16. ASSUME NEW t \in Threads, BuildReconv(t) PROVE HintsLed'
    BY <1>16 DEF BuildReconv, HintsLed
  <1>17. CASE PrefetchWait
    BY <1>17 DEF PrefetchWait, HintsLed
  <1>18. CASE PrefetchHas
    BY <1>18 DEF PrefetchHas, HintsLed
  <1>19. CASE PrefetchYield
    BY <1>19 DEF PrefetchYield, HintsLed
  <1>20. CASE PrefetchLock
    BY <1>20 DEF PrefetchLock, HintsLed
  <1>21. CASE PrefetchRecheck
    BY <1>21 DEF PrefetchRecheck, HintsLed
  <1>22. CASE PrefetchPut
    BY <1>22 DEF PrefetchPut, HintsLed
  <1>23. CASE Destroy
    BY <1>23 DEF Destroy, HintsLed
  <1>24. CASE DestroyNotify
    BY <1>24 DEF DestroyNotify, HintsLed
  <1>25. CASE DestroyJoin
    BY <1>25 DEF DestroyJoin, HintsLed
  <1>26. CASE UNCHANGED vars
    BY <1>26 DEF vars, HintsLed
  <1> QED
    BY <1>1, <1>2, <1>3, <1>4, <1>5, <1>6, <1>7, <1>8, <1>9, <1>10,
       <1>11, <1>12, <1>13, <1>14, <1>15, <1>16, <1>17, <1>18, <1>19, <1>20,
       <1>21, <1>22, <1>23, <1>24, <1>25, <1>26
       DEF Next, Request, CallerStep, WorkerStep, Build, Gone, Threads

LEMMA InitLed == HistoryInit => Led
  <1> SUFFICES ASSUME HistoryInit PROVE Led
    OBVIOUS
  <1>1. \A t \in Threads : pc[t] \in {"wait", "idle"}
    BY DEF HistoryInit, Init
  <1>2. ThreadsLed
    BY <1>1 DEF ThreadsLed, Carries, Answered
  <1>3. HintsLed /\ CacheLed /\ RepliesLed /\ top1s = [r \in Readings |-> top1s[r]]
    BY DEF HistoryInit, Init, CacheLed, HintsLed, RepliesLed, LedBy, cacheHas
  <1> QED BY <1>2, <1>3 DEF Led

\* Nothing a stuttering step leaves alone can lose its leader.
LEMMA StutterLed ==
    ASSUME Led, UNCHANGED historyVars PROVE Led'
  <1>1. leaders' = leaders
    BY DEF leaders, historyVars
  <1>2. /\ pc' = pc /\ loc' = loc /\ hint' = hint /\ cache' = cache /\ reply' = reply
        /\ top1s' = top1s
    BY DEF historyVars, vars, cacheVars, localVars
  <1>3. ThreadsLed'
    BY <1>1, <1>2 DEF Led, ThreadsLed, Carries
  <1>4. HintsLed' /\ CacheLed'
    BY <1>1, <1>2 DEF Led, HintsLed, CacheLed, cacheHas
  <1>5. RepliesLed'
    BY <1>1, <1>2 DEF Led, RepliesLed, LedBy
  <1> QED BY <1>2, <1>3, <1>4, <1>5 DEF Led

\* session.cpp:121, docs/protocol.md:49: for any number of callers and readings, an engine that fails
\* whenever it likes and gives a reading another top-1 each time, and caches of any size: a list that
\* is cached or returned leads with a top-1 the session has gone by for that
\* reading, or with convert's first candidate if henkan had none to give.
THEOREM ListsAreLed == HistorySpec => []LeadsWithTop1
  <1>1. HistoryInit => IInv /\ Led
    BY InitIInv, InitLed DEF HistoryInit
  <1>2. IInv /\ Led /\ [HistoryNext]_historyVars => IInv' /\ Led'
    <2> SUFFICES ASSUME IInv, Led, [HistoryNext]_historyVars PROVE IInv' /\ Led'
      OBVIOUS
    <2>1. IInv'
      BY Inductive DEF HistoryNext, historyVars
    <2>2. CASE HistoryNext
      <3>1. [Next]_vars /\ Recorded
        BY <2>2 DEF HistoryNext
      <3>2. CacheLed' /\ ThreadsLed'
        BY <3>1, StepCacheLed, StepThreadsLed
      <3>3. RepliesLed' /\ HintsLed'
        BY <3>1, StepRepliesLed, StepHintsLed
      <3>4. (top1s = [r \in Readings |-> top1s[r]])'
        BY <3>1, RecordGrows
      <3> QED BY <2>1, <3>2, <3>3, <3>4 DEF Led
    <2>3. CASE UNCHANGED historyVars
      BY <2>1, <2>3, StutterLed
    <2> QED BY <2>2, <2>3
  <1>3. Led => LeadsWithTop1
    BY DEF Led, CacheLed, RepliesLed, LedBy, LeadsWithTop1
  <1> QED BY <1>1, <1>2, <1>3, PTL DEF HistorySpec
-----------------------------------------------------------------------------
(***************************************************************************)
(* BatchSession implements SessionService.                                 *)
(***************************************************************************)

\* The limit of a call: none in top1, one of Limits in candidates.
Limited(p, l) ==
    IF p \in Top1Steps \cup {"idle"} THEN l.limit = 0 ELSE l.limit \in Limits

\* What the refinement needs beside IInv: a reply of each caller, the limits of the
\* calls, and no call once ~Session has begun.
CallsOK ==
    /\ reply = [c \in Callers |-> reply[c]]
    /\ \A c \in Callers : Limited(pc[c], loc[c])
    /\ stop => \A c \in Callers : pc[c] = "idle"

\* Asked(c) at pc p with locals l.
AskedAt(p, l) ==
    IF p = "idle" THEN Unset
    ELSE [op |-> IF p \in Top1Steps THEN "top1" ELSE "candidates",
          r |-> l.reading, max |-> l.limit]

LEMMA CapIsFirst ==
    ASSUME NEW S, NEW s \in Seq(S), NEW n \in Nat
    PROVE  Cap(s, n) = Service!First(s, n)
  <1>1. SubSeq(s, 1, Len(s)) = s
    BY SubSeqFull
  <1>2. Len(s) \in Nat
    OBVIOUS
  <1>3. CASE n > 0 /\ n < Len(s)
    BY ONLY <1>2, <1>3, n \in Nat DEF Cap, Service!First
  <1>4. CASE ~(n > 0 /\ n < Len(s))
    <2>1. n <= 0 \/ Len(s) <= n
      BY <1>2, <1>4
    <2> QED BY ONLY <1>1, <1>4, <2>1 DEF Cap, Service!First
  <1> QED BY <1>3, <1>4

LEMMA ListsAreSequences ==
    ASSUME NEW r \in Readings, NEW l \in ListsOf(r)
    PROVE  l.candidates \in Seq(Texts) /\ l.ex \in Seq(Texts)
  <1>1. PICK top \in Tops[r] \cup {NoText}, n \in 0..Len(HenkanEx[r]) :
            l = MergedList(r, top, n)
    BY DEF ListsOf
  <1> DEFINE S == Texts \ {NoText}
             v == Reconv[r]
             lead == IF top # NoText THEN top ELSE IF v # <<>> THEN Head(v) ELSE NoText
             both == SubSeq(HenkanEx[r], 1, n) \o ReconvEx[r]
  <1>2. /\ v \in Seq(S) /\ HenkanEx[r] \in Seq(S) /\ ReconvEx[r] \in Seq(S)
        /\ top \in Texts /\ NoText \in Texts
    BY ValueAssumption
  <1>3. lead \in Texts
    <2>1. v # <<>> => Head(v) \in S
      BY <1>2
    <2> QED BY <1>2, <2>1
  <1>4. both \in Seq(S)
    <2>1. SubSeq(HenkanEx[r], 1, n) \in Seq(S)
      BY <1>2
    <2> QED BY <1>2, <2>1
  <1>5. Without(v, lead) \in Seq(S)
    <2> HIDE DEF lead, S, v
    <2> QED BY <1>2, WithoutKeeps
  <1>6. FirstOfEachSurface(both) \in Seq(S)
    <2> HIDE DEF both, S
    <2> QED BY <1>4, FirstOfEachKeeps
  <1>7. /\ l.candidates = (IF lead # NoText THEN <<lead>> ELSE <<>>) \o Without(v, lead)
        /\ l.ex = FirstOfEachSurface(both)
    BY <1>1 DEF MergedList
  <1> HIDE DEF lead, v, both
  <1>8. /\ (IF lead # NoText THEN <<lead>> ELSE <<>>) \in Seq(Texts)
        /\ Without(v, lead) \in Seq(Texts)
        /\ FirstOfEachSurface(both) \in Seq(Texts)
    BY <1>3, <1>5, <1>6
  <1> QED BY <1>7, <1>8

\* A whole list of r, capped, answers a call of candidates for r.
LEMMA SuccessAnswers ==
    ASSUME NEW r \in Readings, NEW l \in ListsOf(r), NEW n \in Limits
    PROVE  Success(r, l, n)
               \in Service!Answers([op |-> "candidates", r |-> r, max |-> n])
  <1>1. n \in Nat
    BY BoundAssumption
  <1>2. /\ Cap(l.candidates, n) = Service!First(l.candidates, n)
        /\ Cap(l.ex, n) = Service!First(l.ex, n)
    BY <1>1, ListsAreSequences, CapIsFirst
  <1>3. Success(r, l, n)
            = [ok |-> TRUE, r |-> r, commit |-> l.commit,
               candidates |-> Service!First(l.candidates, n),
               ex |-> Service!First(l.ex, n)]
    BY <1>2 DEF Success
  <1> QED BY ONLY <1>3, r \in Readings, l \in ListsOf(r) DEF Service!Answers

\* A top-1 of r answers a call of top1 for r.
LEMMA Top1Answers ==
    ASSUME NEW r, NEW top \in Tops[r]
    PROVE  [ok |-> TRUE, r |-> r, commit |-> top, candidates |-> <<>>, ex |-> <<>>]
               \in Service!Answers([op |-> "top1", r |-> r, max |-> 0])
  BY DEF Service!Answers

LEMMA FailureAnswers ==
    ASSUME EngineFails, NEW q
    PROVE  Failure \in Service!Answers(q)
  BY DEF Service!Answers

\* A step in the middle of a call of c is none of the service's.
LEMMA CallGoesOn ==
    ASSUME NEW c \in Callers, NEW p, NEW l, IInv, CallsOK,
           pc[c] # "idle", p # "idle", p \in Top1Steps <=> pc[c] \in Top1Steps,
           l.reading = loc[c].reading, l.limit = loc[c].limit,
           pc' = [pc EXCEPT ![c] = p], loc' = [loc EXCEPT ![c] = l],
           reply' = reply, dtor' = dtor
    PROVE  CallsOK' /\ UNCHANGED Service!vars
  <1>1. \A d \in Callers : d # c => pc'[d] = pc[d] /\ loc'[d] = loc[d]
    BY DEF IInv, LocalsOK, Threads
  <1>2. pc'[c] = p /\ loc'[c] = l
    BY DEF IInv, LocalsOK, Threads
  <1>3. \A d \in Callers : Asked(d)' = Asked(d) /\ Limited(pc[d], loc[d])'
    BY <1>1, <1>2 DEF Asked, Limited, CallsOK
  <1>4. ~stop /\ ~stop'
    BY DEF CallsOK, stop
  <1>5. CallsOK'
    BY <1>3, <1>4 DEF CallsOK
  <1> QED BY <1>3, <1>4, <1>5 DEF Service!vars

\* So is a step that leaves the callers alone.
LEMMA CallersStay ==
    ASSUME CallsOK, \A c \in Callers : pc'[c] = pc[c] /\ loc'[c] = loc[c],
           reply' = reply, stop' = stop
    PROVE  CallsOK' /\ UNCHANGED Service!vars
  <1>1. \A c \in Callers : Asked(c)' = Asked(c)
    BY DEF Asked
  <1>2. CallsOK'
    BY DEF CallsOK, Limited
  <1> QED BY <1>1, <1>2 DEF Service!vars

LEMMA CallBegins ==
    ASSUME NEW c \in Callers, NEW p, NEW l, IInv, CallsOK, ~stop, pc[c] = "idle",
           p # "idle", Limited(p, l), AskedAt(p, l) \in Service!Calls,
           pc' = [pc EXCEPT ![c] = p], loc' = [loc EXCEPT ![c] = l],
           reply' = [reply EXCEPT ![c] = Unset], dtor' = dtor
    PROVE  CallsOK' /\ Service!Next
  <1>1. \A d \in Callers : d # c => pc'[d] = pc[d] /\ loc'[d] = loc[d]
    BY DEF IInv, LocalsOK, Threads
  <1>2. pc'[c] = p /\ loc'[c] = l
    BY DEF IInv, LocalsOK, Threads
  <1>3. /\ Asked(c) = Unset /\ Asked(c)' = AskedAt(p, l)
        /\ \A d \in Callers : d # c => Asked(d)' = Asked(d)
    BY <1>1, <1>2 DEF Asked, AskedAt
  <1>4. ~stop'
    BY DEF stop
  <1>5. CallsOK'
    <2>1. \A d \in Callers : Limited(pc[d], loc[d])'
      BY <1>1, <1>2 DEF CallsOK, Limited
    <2>2. reply' = [d \in Callers |-> reply'[d]]
      BY DEF CallsOK
    <2> QED BY <1>4, <2>1, <2>2 DEF CallsOK
  <1> DEFINE q == AskedAt(p, l)
             f == [d \in Callers |-> Asked(d)]
  <1>6. f' = [f EXCEPT ![c] = q]
    BY <1>3
  <1>7. f[c] = Unset
    BY <1>3
  <1>8. Service!Call(c, q)
    BY <1>4, <1>6, <1>7 DEF Service!Call
  <1> QED BY <1>5, <1>8 DEF Service!Next

LEMMA CallReturns ==
    ASSUME NEW c \in Callers, NEW v, IInv, CallsOK, pc[c] # "idle", pc'[c] = "idle",
           \A d \in Callers : d # c => pc'[d] = pc[d],
           loc' = [loc EXCEPT ![c] = Blank], reply' = [reply EXCEPT ![c] = v],
           v \in Service!Answers(Asked(c)), dtor' = dtor
    PROVE  CallsOK' /\ Service!Next
  <1>1. loc'[c] = Blank /\ \A d \in Callers : d # c => loc'[d] = loc[d]
    BY DEF IInv, LocalsOK, Threads
  <1>2. Asked(c)' = Unset /\ \A d \in Callers : d # c => Asked(d)' = Asked(d)
    BY <1>1 DEF Asked
  <1>3. Asked(c) \in Service!Calls
    <2>1. loc[c].reading \in Readings /\ pc[c] \in CallerPCs
      BY ThreadAssumption DEF IInv, LocalsOK, Fits, Threads, Resting, CallerPCs
    <2>2. pc[c] \in Top1Steps => loc[c].limit = 0
      BY DEF CallsOK, Limited
    <2>3. pc[c] \notin Top1Steps => loc[c].limit \in Limits
      BY DEF CallsOK, Limited
    <2> QED BY <2>1, <2>2, <2>3 DEF Asked, Service!Calls
  <1>4. ~stop /\ ~stop'
    BY DEF CallsOK, stop
  <1>5. CallsOK'
    <2>1. \A d \in Callers : Limited(pc[d], loc[d])'
      BY <1>1 DEF CallsOK, Limited, Blank
    <2>2. reply' = [d \in Callers |-> reply'[d]]
      BY DEF CallsOK
    <2> QED BY <1>4, <2>1, <2>2 DEF CallsOK
  <1> DEFINE f == [d \in Callers |-> Asked(d)]
  <1>6. f' = [f EXCEPT ![c] = Unset]
    BY <1>2
  <1>7. f[c] = Asked(c)
    OBVIOUS
  <1>8. Service!Return(c)
    BY <1>3, <1>4, <1>6, <1>7 DEF Service!Return
  <1> QED BY <1>5, <1>8 DEF Service!Next

\* What a step of the session is to the service: one of its steps, or none.
Serves == CallsOK' /\ [Service!Next]_(Service!vars)

LEMMA CallMoves ==
    ASSUME NEW c \in Callers, NEW p, IInv, CallsOK, pc[c] # "idle", p # "idle",
           p \in Top1Steps <=> pc[c] \in Top1Steps,
           pc' = [pc EXCEPT ![c] = p], loc' = loc, reply' = reply, dtor' = dtor
    PROVE  Serves
  <1>1. loc' = [loc EXCEPT ![c] = loc[c]]
    BY DEF IInv, LocalsOK
  <1> QED BY <1>1, CallGoesOn DEF Serves

LEMMA WorkerMoves ==
    ASSUME NEW p, NEW l, IInv, CallsOK,
           pc' = [pc EXCEPT ![Worker] = p], loc' = [loc EXCEPT ![Worker] = l],
           reply' = reply, stop' = stop
    PROVE  Serves
  <1>1. \A c \in Callers : pc'[c] = pc[c] /\ loc'[c] = loc[c]
    BY ThreadAssumption DEF IInv, LocalsOK, Threads
  <1> QED BY <1>1, CallersStay DEF Serves

LEMMA WorkerGoes ==
    ASSUME NEW p, IInv, CallsOK, pc' = [pc EXCEPT ![Worker] = p], loc' = loc,
           reply' = reply, stop' = stop
    PROVE  Serves
  <1>1. \A c \in Callers : pc'[c] = pc[c] /\ loc'[c] = loc[c]
    BY ThreadAssumption DEF IInv, LocalsOK, Threads
  <1> QED BY <1>1, CallersStay DEF Serves

\* The steps of top1.
LEMMA Top1Serves ==
    ASSUME IInv, CallsOK, NEW c \in Callers,
           \/ \E r \in Readings : Top1Call(c, r)
           \/ Top1Lock(c) \/ Top1Run(c) \/ Top1Remember(c)
           \/ Top1Cached(c) \/ Top1Queue(c) \/ Top1Notify(c)
    PROVE  Serves
  <1>0. c \in Threads /\ Fits(c, pc[c], loc[c]) /\ Limited(pc[c], loc[c])
    BY DEF IInv, LocalsOK, Threads, CallsOK
  <1>1. ASSUME NEW r \in Readings, Top1Call(c, r) PROVE Serves
    <2> DEFINE l == [loc[c] EXCEPT !.reading = r]
    <2>1. /\ ~stop /\ pc[c] = "idle" /\ dtor' = dtor
          /\ pc' = [pc EXCEPT ![c] = "top1_lock"]
          /\ loc' = [loc EXCEPT ![c] = l]
          /\ reply' = [reply EXCEPT ![c] = Unset]
      BY <1>1 DEF Top1Call, Goto, Return, queueVars
    <2>2. l.reading = r /\ l.limit = 0
      BY <1>0, <2>1 DEF Limited, Fits, Locals
    <2> HIDE DEF l
    <2>3. /\ Limited("top1_lock", l) /\ AskedAt("top1_lock", l) \in Service!Calls
      BY <2>2 DEF Limited, AskedAt, Top1Steps, Service!Calls
    <2> QED BY <2>1, <2>3, CallBegins DEF Serves
  <1>2. CASE Top1Lock(c)
    <2>1. /\ pc[c] = "top1_lock" /\ pc' = [pc EXCEPT ![c] = "top1_run"]
          /\ loc' = loc /\ reply' = reply /\ dtor' = dtor
      BY <1>2 DEF Top1Lock, Goto, localVars, queueVars
    <2> QED BY <2>1, CallMoves DEF Top1Steps
  <1>3. CASE Top1Run(c)
    <2>1. pc[c] = "top1_run" /\ dtor' = dtor
      BY <1>3 DEF Top1Run, Goto, queueVars
    <2>2. ASSUME NEW top, pc' = [pc EXCEPT ![c] = "top1_remember"], reply' = reply,
                 loc' = [loc EXCEPT ![c].t1 = top]
          PROVE  Serves
      <3> DEFINE l == [loc[c] EXCEPT !.t1 = top]
      <3>1. loc' = [loc EXCEPT ![c] = l] /\ l.reading = loc[c].reading /\ l.limit = loc[c].limit
        BY <1>0, <2>2 DEF Fits, Locals
      <3> HIDE DEF l
      <3> QED BY <2>1, <2>2, <3>1, CallGoesOn DEF Top1Steps, Serves
    <2>3. ASSUME EngineFails, pc' = [pc EXCEPT ![c] = "idle"],
                 loc' = [loc EXCEPT ![c] = Blank], reply' = [reply EXCEPT ![c] = Failure]
          PROVE  Serves
      <3>1. pc'[c] = "idle" /\ \A d \in Callers : d # c => pc'[d] = pc[d]
        BY <2>3 DEF IInv, LocalsOK, Threads
      <3> QED BY <2>1, <2>3, <3>1, FailureAnswers, CallReturns DEF Serves
    <2> QED BY <1>3, <2>2, <2>3 DEF Top1Run, Goto, ClearLocals, Return
  <1>4. CASE Top1Remember(c)
    <2>1. /\ pc[c] = "top1_remember" /\ pc' = [pc EXCEPT ![c] = "top1_cached"]
          /\ loc' = loc /\ reply' = reply /\ dtor' = dtor
      BY <1>4 DEF Top1Remember, Goto, localVars, queueVars
    <2> QED BY <2>1, CallMoves DEF Top1Steps
  <1>5. ASSUME pc[c] \in {"top1_cached", "top1_notify"}, dtor' = dtor, ReturnTop1(c),
               pc'[c] = "idle", \A d \in Callers : d # c => pc'[d] = pc[d]
        PROVE  Serves
    <2> DEFINE v == [ok |-> TRUE, r |-> loc[c].reading, commit |-> loc[c].t1,
                     candidates |-> <<>>, ex |-> <<>>]
    <2>1. loc' = [loc EXCEPT ![c] = Blank] /\ reply' = [reply EXCEPT ![c] = v]
      BY <1>5 DEF ReturnTop1, ClearLocals, Return
    <2>2. loc[c].t1 \in Tops[loc[c].reading] /\ loc[c].limit = 0
      BY <1>0, <1>5 DEF Fits, Answered, Limited, Top1Steps
    <2>3. Asked(c) = [op |-> "top1", r |-> loc[c].reading, max |-> 0]
      BY <1>5, <2>2 DEF Asked, Top1Steps
    <2>4. v \in Service!Answers(Asked(c))
      BY <2>2, <2>3, Top1Answers
    <2> HIDE DEF v
    <2> QED BY <1>5, <2>1, <2>4, CallReturns DEF Serves
  <1>6. CASE Top1Cached(c)
    <2>1. pc[c] = "top1_cached" /\ dtor' = dtor
      BY <1>6 DEF Top1Cached, Goto, queueVars
    <2>2. CASE pc' = [pc EXCEPT ![c] = "idle"] /\ ReturnTop1(c)
      <3>1. pc'[c] = "idle" /\ \A d \in Callers : d # c => pc'[d] = pc[d]
        BY <2>2 DEF IInv, LocalsOK, Threads
      <3> QED BY <1>5, <2>1, <2>2, <3>1
    <2>3. CASE pc' = [pc EXCEPT ![c] = "top1_queue"] /\ loc' = loc /\ reply' = reply
      BY <2>1, <2>3, CallMoves DEF Top1Steps
    <2> QED BY <1>6, <2>2, <2>3 DEF Top1Cached, Goto
  <1>7. CASE Top1Queue(c)
    <2>1. /\ pc[c] = "top1_queue" /\ pc' = [pc EXCEPT ![c] = "top1_notify"]
          /\ loc' = loc /\ reply' = reply /\ dtor' = dtor
      BY <1>7 DEF Top1Queue, Goto, localVars
    <2> QED BY <2>1, CallMoves DEF Top1Steps
  <1>8. CASE Top1Notify(c)
    <2>1. /\ pc[c] = "top1_notify" /\ dtor' = dtor /\ ReturnTop1(c)
          /\ pc' = [pc EXCEPT ![c] = "idle", ![Worker] = Woken(@)]
      BY <1>8 DEF Top1Notify, queueVars
    <2>2. pc'[c] = "idle" /\ \A d \in Callers : d # c => pc'[d] = pc[d]
      BY <2>1, ThreadAssumption DEF IInv, LocalsOK, Threads
    <2> QED BY <1>5, <2>1, <2>2
  <1> QED BY <1>1, <1>2, <1>3, <1>4, <1>6, <1>7, <1>8

\* The steps of candidates before and after the build.
LEMMA CandidatesServes ==
    ASSUME IInv, CallsOK, NEW c \in Callers,
           \/ \E r \in Readings, max \in Limits : CandidatesCall(c, r, max)
           \/ CandidatesGet(c) \/ CandidatesWant(c) \/ CandidatesLock(c)
           \/ CandidatesRecheck(c) \/ CandidatesPut(c)
    PROVE  Serves
  <1>0. c \in Threads /\ Fits(c, pc[c], loc[c]) /\ Limited(pc[c], loc[c])
    BY DEF IInv, LocalsOK, Threads, CallsOK
  <1>1. ASSUME NEW r \in Readings, NEW max \in Limits, CandidatesCall(c, r, max)
        PROVE  Serves
    <2> DEFINE l == [loc[c] EXCEPT !.reading = r, !.limit = max]
    <2>1. /\ ~stop /\ pc[c] = "idle" /\ dtor' = dtor
          /\ pc' = [pc EXCEPT ![c] = "cand_get"]
          /\ reply' = [reply EXCEPT ![c] = Unset]
      BY <1>1 DEF CandidatesCall, Goto, Return, queueVars
    <2>2. loc' = [loc EXCEPT ![c] = l]
      <3>1. loc' = [loc EXCEPT ![c].reading = r, ![c].limit = max]
        BY <1>1 DEF CandidatesCall
      <3> QED BY <1>0, <3>1 DEF IInv, LocalsOK
    <2>3. l.reading = r /\ l.limit = max
      BY <1>0, <2>1 DEF Fits, Locals
    <2> HIDE DEF l
    <2>4. Limited("cand_get", l) /\ AskedAt("cand_get", l) \in Service!Calls
      BY <2>3 DEF Limited, AskedAt, Top1Steps, Service!Calls
    <2> QED BY <2>1, <2>2, <2>4, CallBegins DEF Serves
  <1>2. ASSUME pc[c] \in {"cand_get", "recheck", "put"}, dtor' = dtor,
               NEW list \in ListsOf(loc[c].reading), ClearLocals(c),
               pc' = [pc EXCEPT ![c] = "idle"],
               Return(c, Success(loc[c].reading, list, loc[c].limit))
        PROVE  Serves
    <2> DEFINE v == Success(loc[c].reading, list, loc[c].limit)
    <2>1. loc' = [loc EXCEPT ![c] = Blank] /\ reply' = [reply EXCEPT ![c] = v]
      BY <1>2 DEF ClearLocals, Return
    <2>2. loc[c].reading \in Readings /\ loc[c].limit \in Limits
      BY <1>0, <1>2 DEF Fits, Resting, Limited, Top1Steps
    <2>3. Asked(c) = [op |-> "candidates", r |-> loc[c].reading, max |-> loc[c].limit]
      BY <1>2 DEF Asked, Top1Steps
    <2>4. v \in Service!Answers(Asked(c))
      BY <2>2, <2>3, SuccessAnswers
    <2>5. pc'[c] = "idle" /\ \A d \in Callers : d # c => pc'[d] = pc[d]
      BY <1>2 DEF IInv, LocalsOK, Threads
    <2> HIDE DEF v
    <2> QED BY <1>2, <2>1, <2>4, <2>5, CallReturns DEF Serves
  <1>3. loc[c].reading \in Readings /\ cacheHas(loc[c].reading)
            => cache[loc[c].reading] \in ListsOf(loc[c].reading)
    BY DEF IInv, CacheOK, CacheHoldsWholeLists
  <1>4. CASE CandidatesGet(c)
    <2>1. pc[c] = "cand_get" /\ loc[c].reading \in Readings /\ dtor' = dtor
      BY <1>0, <1>4 DEF CandidatesGet, Goto, queueVars, Fits, Resting
    <2>2. CASE /\ cacheHas(loc[c].reading) /\ pc' = [pc EXCEPT ![c] = "idle"]
               /\ Return(c, Success(loc[c].reading, cache[loc[c].reading], loc[c].limit))
               /\ ClearLocals(c)
      BY <1>2, <1>3, <2>1, <2>2
    <2>3. CASE pc' = [pc EXCEPT ![c] = "cand_want"] /\ loc' = loc /\ reply' = reply
      BY <2>1, <2>3, CallMoves DEF Top1Steps
    <2> QED BY <1>4, <2>2, <2>3 DEF CandidatesGet, Goto
  <1>5. CASE CandidatesWant(c)
    <2>1. /\ pc[c] = "cand_want" /\ pc' = [pc EXCEPT ![c] = "cand_lock"]
          /\ loc' = loc /\ reply' = reply /\ dtor' = dtor
      BY <1>5 DEF CandidatesWant, Goto, localVars, queueVars
    <2> QED BY <2>1, CallMoves DEF Top1Steps
  <1>6. CASE CandidatesLock(c)
    <2>1. /\ pc[c] = "cand_lock" /\ pc' = [pc EXCEPT ![c] = "recheck"]
          /\ loc' = loc /\ reply' = reply /\ dtor' = dtor
      BY <1>6 DEF CandidatesLock, Goto, localVars, queueVars
    <2> QED BY <2>1, CallMoves DEF Top1Steps
  <1>7. CASE CandidatesRecheck(c)
    <2>1. pc[c] = "recheck" /\ loc[c].reading \in Readings /\ dtor' = dtor
      BY <1>0, <1>7 DEF CandidatesRecheck, Goto, queueVars, Fits, Resting
    <2>2. CASE /\ cacheHas(loc[c].reading) /\ pc' = [pc EXCEPT ![c] = "idle"]
               /\ Return(c, Success(loc[c].reading, cache[loc[c].reading], loc[c].limit))
               /\ ClearLocals(c)
      BY <1>2, <1>3, <2>1, <2>2
    <2>3. CASE pc' = [pc EXCEPT ![c] = "take"] /\ loc' = loc /\ reply' = reply
      BY <2>1, <2>3, CallMoves DEF Top1Steps
    <2> QED BY <1>7, <2>2, <2>3 DEF CandidatesRecheck, Goto
  <1>8. CASE CandidatesPut(c)
    <2>1. /\ pc[c] = "put" /\ pc' = [pc EXCEPT ![c] = "idle"] /\ dtor' = dtor
          /\ Return(c, Success(loc[c].reading, loc[c].built, loc[c].limit))
          /\ ClearLocals(c)
      BY <1>8 DEF CandidatesPut, Goto, queueVars
    <2>2. loc[c].built \in ListsOf(loc[c].reading)
      BY <1>0, <2>1 DEF Fits
    <2> QED BY <1>2, <2>1, <2>2
  <1> QED BY <1>1, <1>4, <1>5, <1>6, <1>7, <1>8

\* The build, by whichever thread.
LEMMA BuildServes ==
    ASSUME IInv, CallsOK, NEW t \in Threads, Build(t)
    PROVE  Serves
  <1>0. Fits(t, pc[t], loc[t])
    BY DEF IInv, LocalsOK
  <1> DEFINE Building == {"take", "henkan", "reconv", "put"}
  <1>1. ASSUME NEW p \in Building, NEW l, pc[t] \in Building,
               pc' = [pc EXCEPT ![t] = p], loc' = [loc EXCEPT ![t] = l],
               l.reading = loc[t].reading, l.limit = loc[t].limit,
               reply' = reply, dtor' = dtor
        PROVE  Serves
    <2>1. CASE t = Worker
      BY <1>1, <2>1, WorkerMoves DEF stop
    <2>2. CASE t \in Callers
      <3>1. pc[t] # "idle" /\ p # "idle" /\ pc[t] \notin Top1Steps /\ p \notin Top1Steps
        BY <1>1 DEF Top1Steps
      <3> QED BY <1>1, <2>2, <3>1, CallGoesOn DEF Serves
    <2> QED BY <2>1, <2>2 DEF Threads
  <1>2. {"take", "henkan", "reconv", "put"} \subseteq Building
    OBVIOUS
  <1> HIDE DEF Building
  <1>3. CASE BuildTake(t)
    <2>1. PICK x : loc' = [loc EXCEPT ![t].t1 = x]
      BY <1>3 DEF BuildTake
    <2> DEFINE l == [loc[t] EXCEPT !.t1 = x]
    <2>2. /\ pc[t] = "take" /\ pc' = [pc EXCEPT ![t] = "henkan"]
          /\ reply' = reply /\ dtor' = dtor
      BY <1>3 DEF BuildTake, Goto, queueVars
    <2>3. loc' = [loc EXCEPT ![t] = l] /\ l.reading = loc[t].reading /\ l.limit = loc[t].limit
      BY <1>0, <2>1 DEF Fits, Locals
    <2> HIDE DEF l
    <2>4. "take" \in Building /\ "henkan" \in Building
      BY <1>2
    <2> QED BY ONLY <1>1, <2>2, <2>3, <2>4
  <1>4. CASE BuildHenkan(t)
    <2>1. /\ pc[t] = "henkan" /\ pc' = [pc EXCEPT ![t] = "reconv"]
          /\ reply' = reply /\ dtor' = dtor
      BY <1>4 DEF BuildHenkan, Goto, queueVars
    <2>2. \E l : /\ loc' = [loc EXCEPT ![t] = l]
                 /\ l.reading = loc[t].reading /\ l.limit = loc[t].limit
      <3>1. CASE \E top \in Tops[loc[t].reading] :
                    loc' = [loc EXCEPT ![t].t1 = IF @ = NoText THEN top ELSE @,
                                       ![t].hex = Len(HenkanEx[loc[t].reading])]
        <4>1. PICK top : loc' = [loc EXCEPT ![t].t1 = IF @ = NoText THEN top ELSE @,
                                            ![t].hex = Len(HenkanEx[loc[t].reading])]
          BY <3>1
        <4> DEFINE l == [loc[t] EXCEPT !.t1 = IF @ = NoText THEN top ELSE @,
                                       !.hex = Len(HenkanEx[loc[t].reading])]
        <4>2. loc' = [loc EXCEPT ![t] = l]
          BY <4>1 DEF IInv, LocalsOK
        <4>3. l.reading = loc[t].reading /\ l.limit = loc[t].limit
          BY <1>0 DEF Fits, Locals
        <4> HIDE DEF l
        <4> QED BY <4>2, <4>3
      <3>2. CASE \E n \in 0..Len(HenkanEx[loc[t].reading]) : loc' = [loc EXCEPT ![t].hex = n]
        <4>1. PICK n : loc' = [loc EXCEPT ![t].hex = n]
          BY <3>2
        <4> DEFINE l == [loc[t] EXCEPT !.hex = n]
        <4>2. loc' = [loc EXCEPT ![t] = l] /\ l.reading = loc[t].reading /\ l.limit = loc[t].limit
          BY <1>0, <4>1 DEF Fits, Locals
        <4> HIDE DEF l
        <4> QED BY <4>2
      <3> QED BY <1>4, <3>1, <3>2 DEF BuildHenkan
    <2>3. "henkan" \in Building /\ "reconv" \in Building
      BY <1>2
    <2> QED BY ONLY <1>1, <2>1, <2>2, <2>3
  <1>5. CASE BuildReconv(t)
    <2>1. pc[t] = "reconv" /\ dtor' = dtor
      BY <1>5 DEF BuildReconv, Goto, queueVars
    <2>2. ASSUME NEW x, pc' = [pc EXCEPT ![t] = "put"], reply' = reply,
                 loc' = [loc EXCEPT ![t].built = x]
          PROVE  Serves
      <3> DEFINE l == [loc[t] EXCEPT !.built = x]
      <3>1. loc' = [loc EXCEPT ![t] = l] /\ l.reading = loc[t].reading /\ l.limit = loc[t].limit
        BY <1>0, <2>2 DEF Fits, Locals
      <3> HIDE DEF l
      <3>2. "reconv" \in Building /\ "put" \in Building
        BY <1>2
      <3> QED BY ONLY <1>1, <2>1, <2>2, <3>1, <3>2
    <2>3. ASSUME EngineFails, pc' = [pc EXCEPT ![t] = Home(t)], loc' = [loc EXCEPT ![t] = Blank],
                 IF t = Worker THEN reply' = reply ELSE reply' = [reply EXCEPT ![t] = Failure]
          PROVE  Serves
      <3>1. CASE t = Worker
        BY <2>1, <2>3, <3>1, WorkerMoves DEF stop
      <3>2. CASE t \in Callers
        <4>1. t # Worker /\ Home(t) = "idle"
          BY <3>2, ThreadAssumption DEF Home
        <4>2. pc'[t] = "idle" /\ \A d \in Callers : d # t => pc'[d] = pc[d]
          BY <2>3, <3>2, <4>1 DEF IInv, LocalsOK, Threads
        <4> QED BY <2>1, <2>3, <3>2, <4>1, <4>2, FailureAnswers, CallReturns DEF Serves
      <3> QED BY <3>1, <3>2 DEF Threads
    <2> QED BY <1>5, <2>2, <2>3 DEF BuildReconv, Goto, ClearLocals, Return
  <1> QED BY <1>3, <1>4, <1>5 DEF Build

\* The prefetch thread is invisible to the callers.
LEMMA WorkerServes ==
    ASSUME IInv, CallsOK, WorkerStep
    PROVE  Serves
  <1>1. CASE Build(Worker)
    BY <1>1, BuildServes DEF Threads
  <1>2. CASE PrefetchWait
    <2>1. reply' = reply /\ stop' = stop
      BY <1>2 DEF PrefetchWait, stop
    <2>2. \E p : pc' = [pc EXCEPT ![Worker] = p]
      BY <1>2 DEF PrefetchWait, Goto
    <2>3. loc' = loc \/ \E l : loc' = [loc EXCEPT ![Worker] = l]
      BY <1>2 DEF PrefetchWait
    <2> QED BY <2>1, <2>2, <2>3, WorkerMoves, WorkerGoes
  <1>3. CASE PrefetchHas
    <2>1. reply' = reply /\ stop' = stop
      BY <1>3 DEF PrefetchHas, stop, queueVars
    <2>2. \E p : pc' = [pc EXCEPT ![Worker] = p]
      BY <1>3 DEF PrefetchHas, Goto
    <2>3. loc' = loc \/ \E l : loc' = [loc EXCEPT ![Worker] = l]
      BY <1>3 DEF PrefetchHas, ClearLocals
    <2> QED BY <2>1, <2>2, <2>3, WorkerMoves, WorkerGoes
  <1>4. CASE PrefetchYield
    <2>1. reply' = reply /\ stop' = stop /\ loc' = loc
      BY <1>4 DEF PrefetchYield, stop, queueVars
    <2>2. pc' = [pc EXCEPT ![Worker] = pc[Worker]] \/ pc' = [pc EXCEPT ![Worker] = "lock"]
      BY <1>4 DEF PrefetchYield, Goto, IInv, LocalsOK
    <2> QED BY <2>1, <2>2, WorkerGoes
  <1>5. CASE PrefetchLock
    <2>1. reply' = reply /\ stop' = stop /\ loc' = loc /\ pc' = [pc EXCEPT ![Worker] = "recheck"]
      BY <1>5 DEF PrefetchLock, Goto, stop, queueVars, localVars
    <2> QED BY <2>1, WorkerGoes
  <1>6. CASE PrefetchRecheck
    <2>1. reply' = reply /\ stop' = stop
      BY <1>6 DEF PrefetchRecheck, stop, queueVars
    <2>2. \E p : pc' = [pc EXCEPT ![Worker] = p]
      BY <1>6 DEF PrefetchRecheck, Goto
    <2>3. loc' = loc \/ \E l : loc' = [loc EXCEPT ![Worker] = l]
      BY <1>6 DEF PrefetchRecheck, ClearLocals
    <2> QED BY <2>1, <2>2, <2>3, WorkerMoves, WorkerGoes
  <1>7. CASE PrefetchPut
    <2>1. /\ reply' = reply /\ stop' = stop /\ pc' = [pc EXCEPT ![Worker] = "wait"]
          /\ loc' = [loc EXCEPT ![Worker] = Blank]
      BY <1>7 DEF PrefetchPut, Goto, ClearLocals, stop, queueVars
    <2> QED BY <2>1, WorkerMoves
  <1> QED BY <1>1, <1>2, <1>3, <1>4, <1>5, <1>6, <1>7 DEF WorkerStep

LEMMA DestroyServes ==
    ASSUME IInv, CallsOK, Destroy \/ DestroyNotify \/ DestroyJoin
    PROVE  Serves
  <1>1. CASE Destroy
    <2>1. /\ ~stop /\ stop' /\ pc' = pc /\ loc' = loc /\ reply' = reply
          /\ \A c \in Callers : pc[c] = "idle"
      BY <1>1 DEF Destroy, stop, localVars
    <2>2. CallsOK'
      BY <2>1 DEF CallsOK, Limited
    <2>3. \A c \in Callers : Asked(c) = Unset /\ Asked(c)' = Asked(c)
      BY <2>1 DEF Asked
    <2>4. Service!Destroy
      BY <2>1, <2>3 DEF Service!Destroy
    <2> QED BY <2>2, <2>4 DEF Serves, Service!Next
  <1>2. CASE DestroyNotify
    <2>1. reply' = reply /\ loc' = loc /\ pc' = [pc EXCEPT ![Worker] = Woken(pc[Worker])]
      BY <1>2 DEF DestroyNotify, localVars
    <2>2. stop' = stop
      BY <1>2 DEF DestroyNotify, stop
    <2> QED BY <2>1, <2>2, WorkerGoes
  <1>3. CASE DestroyJoin
    <2>1. pc' = pc /\ loc' = loc /\ reply' = reply
      BY <1>3 DEF DestroyJoin, localVars
    <2>2. stop' = stop
      BY <1>3 DEF DestroyJoin, stop
    <2> QED BY <2>1, <2>2, CallersStay DEF Serves
  <1> QED BY <1>1, <1>2, <1>3

LEMMA StepServes == IInv /\ CallsOK /\ [Next]_vars => Serves
  <1> SUFFICES ASSUME IInv, CallsOK, [Next]_vars PROVE Serves
    OBVIOUS
  <1>1. ASSUME NEW c \in Callers, Request(c) \/ CallerStep(c) PROVE Serves
    BY <1>1, Top1Serves, CandidatesServes, BuildServes DEF Request, CallerStep, Threads
  <1>2. CASE UNCHANGED vars
    <2>1. pc' = pc /\ loc' = loc /\ reply' = reply /\ stop' = stop
      BY <1>2 DEF vars, localVars, queueVars, stop
    <2> QED BY <2>1, CallersStay DEF Serves
  <1> QED BY <1>1, <1>2, WorkerServes, DestroyServes DEF Next, Gone

LEMMA InitCalls == Init => CallsOK /\ Service!Init
  <1> SUFFICES ASSUME Init PROVE CallsOK /\ Service!Init
    OBVIOUS
  <1>1. \A c \in Callers : pc[c] = "idle" /\ loc[c] = Blank
    BY ThreadAssumption DEF Init, Threads
  <1>2. ~stop /\ reply = [c \in Callers |-> Unset]
    BY DEF Init, stop
  <1>3. CallsOK
    BY <1>1, <1>2 DEF CallsOK, Limited, Blank
  <1>4. \A c \in Callers : Asked(c) = Unset
    BY <1>1 DEF Asked
  <1>5. Service!Init
    BY <1>2, <1>4 DEF Service!Init
  <1> QED BY <1>3, <1>5

\* session.h: for any number of callers, whatever their calls share, each of them uses
\* the session as if it were alone: its call returns once, with a result of the reading and
\* the limit it asked for, and fails only if the engine does.
THEOREM SessionIsAService == Spec => Implements
  <1>1. Init => IInv /\ CallsOK /\ Service!Init
    BY InitIInv, InitCalls
  <1>2. IInv /\ CallsOK /\ [Next]_vars
            => IInv' /\ CallsOK' /\ [Service!Next]_(Service!vars)
    BY Inductive, StepServes DEF Serves
  <1> QED BY <1>1, <1>2, PTL DEF Spec, Implements, Service!Spec
=============================================================================
