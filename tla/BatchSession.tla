---------------------------- MODULE BatchSession ----------------------------
(***************************************************************************)
(* src/session.cpp: the split conversion front end of the daemon.          *)
(*                                                                         *)
(* A serving thread calls top1 (fast inline conversion) and candidates     *)
(* (full list); one prefetch worker builds the list of the reading last    *)
(* converted in the background.  They share the serial engine under        *)
(* engine_mu_, the list cache and the top-1 hints under cache_mu_, and the *)
(* one-place prefetch slot under q_mu_.                                    *)
(*                                                                         *)
(* A step is one critical section of cache_mu_ or q_mu_, one operation on  *)
(* the atomic fg_waiting_, one acquisition of engine_mu_ or one engine     *)
(* call.  The engine is what its interface promises: a call fails or       *)
(* returns a result for the reading asked (HarnessEngine models it).       *)
(***************************************************************************)
EXTENDS Integers, Sequences, FiniteSets

CONSTANTS
    Callers,      \* the threads that call top1 and candidates (the daemon has one)
    Worker,       \* the prefetch thread
    Nobody,       \* engine_mu_ is free
    Readings,     \* the romaji strings asked for; may contain NoReading
    NoReading,    \* "": pending_ is empty
    Tops,         \* Tops[r]: the surfaces henkan may commit for r (one, or NoText)
    HenkanEx,     \* HenkanEx[r]: the enriched list of henkan r, by surface
    Reconv,       \* Reconv[r]: the candidates of convert r; the first is its commit
    ReconvEx,     \* ReconvEx[r]: its enriched list
    Texts,        \* the surfaces, with NoText
    NoText,       \* "": no commit in the block
    Unset,        \* a key that is in neither map, a reply not yet given
    CacheMax,     \* kCacheMax
    MaxYields,    \* the 200 of the prefetch loop
    Limits,       \* the values of the max argument
    EngineFails   \* may engine calls fail?

ASSUME ThreadAssumption == /\ Worker \notin Callers
                           /\ Nobody \notin Callers \cup {Worker}
ASSUME BoundAssumption  == /\ CacheMax \in Nat \ {0}
                           /\ MaxYields \in Nat
                           /\ EngineFails \in BOOLEAN
                           /\ Limits \subseteq Nat
\* The host sends no empty candidate (candidates.c:358), and readBlock keeps no empty entry.
ASSUME ValueAssumption  == /\ \A r \in Readings : /\ Tops[r] \subseteq Texts
                                                  /\ Reconv[r]   \in Seq(Texts \ {NoText})
                                                  /\ HenkanEx[r] \in Seq(Texts \ {NoText})
                                                  /\ ReconvEx[r] \in Seq(Texts \ {NoText})
                           /\ NoText \in Texts
                           /\ Unset \notin Texts

VARIABLES
    engineOwner,  \* engine_mu_: the thread that holds it, or Nobody
    fgWaiting,    \* fg_waiting_
    cache, lru,   \* cache_ (a total function, Unset = no entry) and lru_
    hint,         \* top1_ (Unset = no entry)
    pending,      \* pending_
    dtor,         \* how far ~Session is
    pc,           \* where each thread is
    loc,          \* the locals of each thread
    yields,       \* the i of the yield loop
    reply,        \* what the last call of each caller returned
    shown         \* the inline conversion a client shows: what top1 last returned

engineVars == <<engineOwner, fgWaiting>>
cacheVars  == <<cache, lru, hint>>
queueVars  == <<pending, dtor>>
localVars  == <<loc, yields>>
vars == <<engineVars, cacheVars, queueVars, localVars, pc, reply, shown>>

Threads == Callers \cup {Worker}

\* The locals of a call or a round: its arguments, the top-1 taken or asked
\* for, how many enriched entries henkan delivered, the list built.
Blank == [reading |-> NoReading, limit |-> 0, t1 |-> NoText, hex |-> 0,
          built |-> Unset]

\* stop_ is set by the first step of ~Session and never reset.
stop == dtor # "no"
-----------------------------------------------------------------------------
(***************************************************************************)
(* The candidate list of a reading.                                        *)
(***************************************************************************)

\* Mutant: the cut ends one entry short of the limit.
CapBelow(s, n) == IF n <= 0 \/ Len(s) < n THEN s ELSE SubSeq(s, 1, n - 1)

\* The first n elements, 0 or less for all of them: cap.
Cap(s, n) == IF n <= 0 \/ Len(s) <= n THEN s ELSE SubSeq(s, 1, n)

\* The union of the enriched lists, in order, one entry per surface.
FirstOfEachSurface(s) ==
    LET kept[n \in 0..Len(s)] ==
            IF n = 0 THEN <<>>
            ELSE IF \E i \in DOMAIN kept[n-1] : kept[n-1][i] = s[n]
                 THEN kept[n-1]
                 ELSE Append(kept[n-1], s[n])
    IN  kept[Len(s)]

\* The surfaces other than x.
Without(s, x) ==
    LET kept[n \in 0..Len(s)] ==
            IF n = 0 THEN <<>>
            ELSE IF s[n] # x THEN Append(kept[n-1], s[n]) ELSE kept[n-1]
    IN  kept[Len(s)]

\* Mutant: the commit stays among the alternatives.
MergedListKeepsCommit(r, top, n) ==
    LET commit == IF top # NoText THEN top
                  ELSE IF Reconv[r] # <<>> THEN Head(Reconv[r]) ELSE NoText
    IN  [commit     |-> commit,
         candidates |-> (IF commit # NoText THEN <<commit>> ELSE <<>>) \o Reconv[r],
         ex         |-> FirstOfEachSurface(SubSeq(HenkanEx[r], 1, n) \o ReconvEx[r])]

\* Mutant: convert's own first candidate wins over the top-1.
MergedListReconvFirst(r, top, n) ==
    LET commit == IF Reconv[r] # <<>> THEN Head(Reconv[r]) ELSE top
    IN  [commit     |-> commit,
         candidates |-> <<commit>> \o Without(Reconv[r], commit),
         ex         |-> FirstOfEachSurface(SubSeq(HenkanEx[r], 1, n) \o ReconvEx[r])]

\* The result of buildCandidates when the top-1 is top (NoText if there is
\* none) and henkan delivered the first n enriched entries.
MergedList(r, top, n) ==
    LET commit == IF top # NoText THEN top
                  ELSE IF Reconv[r] # <<>> THEN Head(Reconv[r]) ELSE NoText
    IN  [commit     |-> commit,
         candidates |-> (IF commit # NoText THEN <<commit>> ELSE <<>>)
                          \o Without(Reconv[r], commit),
         ex         |-> FirstOfEachSurface(SubSeq(HenkanEx[r], 1, n) \o ReconvEx[r])]

\* Every list buildCandidates can return for r.
ListsOf(r) == {MergedList(r, top, n) : top \in Tops[r] \cup {NoText},
                                       n \in 0..Len(HenkanEx[r])}

ASSUME ListAssumption == \A r \in Readings : Unset \notin ListsOf(r)
-----------------------------------------------------------------------------
(***************************************************************************)
(* The maps guarded by cache_mu_.                                          *)
(***************************************************************************)
cacheHas(r) == cache[r] # Unset

\* Mutant: a second put of a cached reading pushes it on lru_ again.
cachePutTwice(r, list) ==
    LET pushed == Append(lru, r)
        over   == IF Len(pushed) > CacheMax THEN Len(pushed) - CacheMax ELSE 0
        evicted == {pushed[i] : i \in 1..over}
    IN  /\ lru' = SubSeq(pushed, over + 1, Len(pushed))
        /\ cache' = [k \in Readings |-> IF k \in evicted THEN Unset
                                        ELSE IF k = r THEN list
                                        ELSE cache[k]]

cachePut(r, list) ==
    IF cacheHas(r)
      THEN cache' = [cache EXCEPT ![r] = list] /\ UNCHANGED lru
      ELSE LET pushed == Append(lru, r)
               over   == IF Len(pushed) > CacheMax THEN Len(pushed) - CacheMax ELSE 0
               evicted == {pushed[i] : i \in 1..over}
           IN  /\ lru' = SubSeq(pushed, over + 1, Len(pushed))
               /\ cache' = [k \in Readings |-> IF k = r THEN list
                                               ELSE IF k \in evicted THEN Unset
                                               ELSE cache[k]]

Hinted == {r \in Readings : hint[r] # Unset}

rememberTop1(r, top) ==
    hint' = [k \in Readings |->
                IF k = r THEN top
                ELSE IF Cardinality(Hinted) > CacheMax THEN Unset
                ELSE hint[k]]

takeTop1(r) == hint' = [hint EXCEPT ![r] = Unset]
-----------------------------------------------------------------------------
Init ==
    /\ engineOwner = Nobody
    /\ fgWaiting = 0
    /\ cache = [r \in Readings |-> Unset]
    /\ lru = <<>>
    /\ hint = [r \in Readings |-> Unset]
    /\ pending = NoReading
    /\ dtor = "no"
    /\ pc = [t \in Threads |-> IF t = Worker THEN "wait" ELSE "idle"]
    /\ loc = [t \in Threads |-> Blank]
    /\ yields = 0
    /\ reply = [c \in Callers |-> Unset]
    /\ shown = Unset

Goto(t, from, to) == pc[t] = from /\ pc' = [pc EXCEPT ![t] = to]

\* A thread that ends a call or a round of the loop drops its locals.
ClearLocals(t) == loc' = [loc EXCEPT ![t] = Blank]

\* What a notification does to the worker: it leaves q_cv_.wait if it is in it.
Woken(p) == IF p = "asleep" THEN "wait" ELSE p

Home(t) == IF t = Worker THEN "wait" ELSE "idle"

Acquire(t) == engineOwner = Nobody /\ engineOwner' = t
Release    == engineOwner' = Nobody

\* The failed reply, and the reply that carries list, capped.
Failure == [ok |-> FALSE, r |-> NoReading, commit |-> NoText]
Success(r, list, max) ==
    [ok |-> TRUE, r |-> r, commit |-> list.commit,
     candidates |-> Cap(list.candidates, max), ex |-> Cap(list.ex, max)]

Return(c, value) == reply' = [reply EXCEPT ![c] = value]
-----------------------------------------------------------------------------
(***************************************************************************)
(* top1(romaji)                                                            *)
(***************************************************************************)
Top1Call(c, r) ==
    /\ ~stop
    /\ Goto(c, "idle", "top1_lock")
    /\ loc' = [loc EXCEPT ![c].reading = r]
    /\ Return(c, Unset)
    /\ fgWaiting' = fgWaiting + 1
    /\ UNCHANGED <<engineOwner, cacheVars, queueVars, yields, shown>>

Top1Lock(c) ==
    /\ Goto(c, "top1_lock", "top1_run")
    /\ Acquire(c)
    /\ fgWaiting' = fgWaiting - 1
    /\ UNCHANGED <<cacheVars, queueVars, localVars, reply, shown>>

\* engine_->topOne, then the end of the lock's scope.
Top1Run(c) ==
    /\ \/ /\ Goto(c, "top1_run", "top1_remember")
          /\ \E top \in Tops[loc[c].reading] : loc' = [loc EXCEPT ![c].t1 = top]
          /\ UNCHANGED reply
       \/ /\ EngineFails
          /\ Goto(c, "top1_run", "idle")
          /\ ClearLocals(c)
          /\ Return(c, Failure)
    /\ Release
    /\ UNCHANGED <<fgWaiting, cacheVars, queueVars, yields, shown>>

Top1Remember(c) ==
    /\ Goto(c, "top1_remember", "top1_cached")
    /\ rememberTop1(loc[c].reading, loc[c].t1)
    /\ UNCHANGED <<engineVars, cache, lru, queueVars, localVars, reply, shown>>

\* The call returns its top-1: the client shows it inline.
ReturnTop1(c) ==
    /\ Return(c, [ok |-> TRUE, r |-> loc[c].reading, commit |-> loc[c].t1,
                  candidates |-> <<>>, ex |-> <<>>])
    /\ shown' = [r |-> loc[c].reading, top |-> loc[c].t1]
    /\ ClearLocals(c)

\* cacheHas: nothing to prefetch when the list is there already.
Top1Cached(c) ==
    /\ \/ /\ Goto(c, "top1_cached", "idle")
          /\ cacheHas(loc[c].reading)
          /\ ReturnTop1(c)
       \/ /\ Goto(c, "top1_cached", "top1_queue")
          /\ ~cacheHas(loc[c].reading)
          /\ UNCHANGED <<loc, reply, shown>>
    /\ UNCHANGED <<engineVars, cacheVars, queueVars, yields>>

Top1Queue(c) ==
    /\ Goto(c, "top1_queue", "top1_notify")
    /\ pending' = loc[c].reading
    /\ UNCHANGED <<engineVars, cacheVars, dtor, localVars, reply, shown>>

\* Mutant: the worker is not notified.
Top1NoNotify(c) ==
    /\ Goto(c, "top1_notify", "idle")
    /\ ReturnTop1(c)
    /\ UNCHANGED <<engineVars, cacheVars, queueVars, yields>>

Top1Notify(c) ==
    /\ pc[c] = "top1_notify"
    /\ pc' = [pc EXCEPT ![c] = "idle", ![Worker] = Woken(@)]
    /\ ReturnTop1(c)
    /\ UNCHANGED <<engineVars, cacheVars, queueVars, yields>>
-----------------------------------------------------------------------------
(***************************************************************************)
(* candidates(romaji, max)                                                 *)
(***************************************************************************)
CandidatesCall(c, r, max) ==
    /\ ~stop
    /\ Goto(c, "idle", "cand_get")
    /\ loc' = [loc EXCEPT ![c].reading = r, ![c].limit = max]
    /\ Return(c, Unset)
    /\ UNCHANGED <<engineVars, cacheVars, queueVars, yields, shown>>

\* The first cacheGet: a hit answers without touching the engine.
CandidatesGet(c) ==
    /\ \/ /\ Goto(c, "cand_get", "idle")
          /\ cacheHas(loc[c].reading)
          /\ Return(c, Success(loc[c].reading, cache[loc[c].reading], loc[c].limit))
          /\ ClearLocals(c)
       \/ /\ Goto(c, "cand_get", "cand_want")
          /\ ~cacheHas(loc[c].reading)
          /\ UNCHANGED <<loc, reply>>
    /\ UNCHANGED <<engineVars, cacheVars, queueVars, yields, shown>>

CandidatesWant(c) ==
    /\ Goto(c, "cand_want", "cand_lock")
    /\ fgWaiting' = fgWaiting + 1
    /\ UNCHANGED <<engineOwner, cacheVars, queueVars, localVars, reply, shown>>

\* Mutant: the engine is used without engine_mu_.
CandidatesNoLock(c) ==
    /\ Goto(c, "cand_lock", "recheck")
    /\ fgWaiting' = fgWaiting - 1
    /\ UNCHANGED <<engineOwner, cacheVars, queueVars, localVars, reply, shown>>

\* Mutant: fg_waiting_ is not decremented.
CandidatesLockUncounted(c) ==
    /\ Goto(c, "cand_lock", "recheck")
    /\ Acquire(c)
    /\ UNCHANGED <<fgWaiting, cacheVars, queueVars, localVars, reply, shown>>

CandidatesLock(c) ==
    /\ Goto(c, "cand_lock", "recheck")
    /\ Acquire(c)
    /\ fgWaiting' = fgWaiting - 1
    /\ UNCHANGED <<cacheVars, queueVars, localVars, reply, shown>>

\* Mutant: a miss goes back to wait for the prefetch instead of building.
CandidatesRecheckSpins(c) ==
    /\ \/ /\ Goto(c, "recheck", "idle")
          /\ cacheHas(loc[c].reading)
          /\ Return(c, Success(loc[c].reading, cache[loc[c].reading], loc[c].limit))
          /\ ClearLocals(c)
       \/ /\ Goto(c, "recheck", "cand_get")
          /\ ~cacheHas(loc[c].reading)
          /\ UNCHANGED <<loc, reply>>
    /\ Release
    /\ UNCHANGED <<fgWaiting, cacheVars, queueVars, yields, shown>>

\* The second cacheGet, under engine_mu_: a hit releases the engine.
CandidatesRecheck(c) ==
    /\ \/ /\ Goto(c, "recheck", "idle")
          /\ cacheHas(loc[c].reading)
          /\ Return(c, Success(loc[c].reading, cache[loc[c].reading], loc[c].limit))
          /\ ClearLocals(c)
          /\ Release
       \/ /\ Goto(c, "recheck", "take")
          /\ ~cacheHas(loc[c].reading)
          /\ UNCHANGED <<engineOwner, loc, reply>>
    /\ UNCHANGED <<fgWaiting, cacheVars, queueVars, yields, shown>>

\* Mutant: the list is capped before it is cached.
CandidatesPutCapped(c) ==
    /\ Goto(c, "put", "idle")
    /\ cachePut(loc[c].reading,
                [loc[c].built EXCEPT !.candidates = Cap(@, loc[c].limit)])
    /\ Return(c, Success(loc[c].reading, loc[c].built, loc[c].limit))
    /\ ClearLocals(c)
    /\ UNCHANGED <<engineVars, hint, queueVars, yields, shown>>

CandidatesPut(c) ==
    /\ Goto(c, "put", "idle")
    /\ cachePut(loc[c].reading, loc[c].built)
    /\ Return(c, Success(loc[c].reading, loc[c].built, loc[c].limit))
    /\ ClearLocals(c)
    /\ UNCHANGED <<engineVars, hint, queueVars, yields, shown>>
-----------------------------------------------------------------------------
(***************************************************************************)
(* buildCandidates(romaji), run by a caller or by the worker while it      *)
(* holds engine_mu_.                                                       *)
(***************************************************************************)
BuildTake(t) ==
    /\ Goto(t, "take", "henkan")
    /\ takeTop1(loc[t].reading)
    /\ loc' = [loc EXCEPT ![t].t1 = IF hint[loc[t].reading] = Unset THEN NoText
                               ELSE hint[loc[t].reading]]
    /\ UNCHANGED <<engineVars, cache, lru, queueVars, yields, reply, shown>>

\* A failed henkan is tolerated; the enriched entries read before the failure
\* stay in hres and are used.
BuildHenkan(t) ==
    /\ Goto(t, "henkan", "reconv")
    /\ \/ \E top \in Tops[loc[t].reading] :
              loc' = [loc EXCEPT ![t].t1 = IF @ = NoText THEN top ELSE @,
                                 ![t].hex = Len(HenkanEx[loc[t].reading])]
       \/ /\ EngineFails
          /\ \E n \in 0..Len(HenkanEx[loc[t].reading]) :
                 loc' = [loc EXCEPT ![t].hex = n]
    /\ UNCHANGED <<engineVars, cacheVars, queueVars, yields, reply, shown>>

\* engine_->convert; both users release engine_mu_ when the build is over,
\* before the list is in the cache.  A failure ends the call, or the round.
BuildReconv(t) ==
    /\ \/ /\ Goto(t, "reconv", "put")
          /\ loc' = [loc EXCEPT ![t].built = MergedList(loc[t].reading, loc[t].t1, loc[t].hex)]
          /\ UNCHANGED reply
       \/ /\ EngineFails
          /\ Goto(t, "reconv", Home(t))
          /\ ClearLocals(t)
          /\ IF t = Worker THEN UNCHANGED reply ELSE Return(t, Failure)
    /\ Release
    /\ UNCHANGED <<fgWaiting, cacheVars, queueVars, yields, shown>>
-----------------------------------------------------------------------------
(***************************************************************************)
(* prefetchLoop                                                            *)
(***************************************************************************)

\* Mutant: stop_ makes the loop go round instead of ending it.
PrefetchWaitContinues ==
    /\ \/ /\ stop
          /\ Goto(Worker, "wait", "wait")
          /\ UNCHANGED <<loc, pending>>
       \/ /\ ~stop /\ pending # NoReading
          /\ Goto(Worker, "wait", "has")
          /\ loc' = [loc EXCEPT ![Worker].reading = pending]
          /\ pending' = NoReading
       \/ /\ ~stop /\ pending = NoReading
          /\ Goto(Worker, "wait", "asleep")
          /\ UNCHANGED <<loc, pending>>
    /\ UNCHANGED <<engineVars, cacheVars, dtor, yields, reply, shown>>

\* q_cv_.wait with its predicate, the stop_ check, and the taking of pending_.
PrefetchWait ==
    /\ \/ /\ stop
          /\ Goto(Worker, "wait", "done")
          /\ UNCHANGED <<loc, pending>>
       \/ /\ ~stop /\ pending # NoReading
          /\ Goto(Worker, "wait", "has")
          /\ loc' = [loc EXCEPT ![Worker].reading = pending]
          /\ pending' = NoReading
       \/ /\ ~stop /\ pending = NoReading
          /\ Goto(Worker, "wait", "asleep")
          /\ UNCHANGED <<loc, pending>>
    /\ UNCHANGED <<engineVars, cacheVars, dtor, yields, reply, shown>>

PrefetchHas ==
    /\ \/ /\ Goto(Worker, "has", "wait")
          /\ cacheHas(loc[Worker].reading)
          /\ ClearLocals(Worker)
       \/ /\ Goto(Worker, "has", "yield")
          /\ ~cacheHas(loc[Worker].reading)
          /\ UNCHANGED loc
    /\ yields' = 0
    /\ UNCHANGED <<engineVars, cacheVars, queueVars, reply, shown>>

\* Mutant: one nap too many.
PrefetchYieldOnceMore ==
    /\ \/ /\ yields <= MaxYields /\ fgWaiting > 0
          /\ pc[Worker] = "yield"
          /\ yields' = yields + 1
          /\ UNCHANGED pc
       \/ /\ ~(yields <= MaxYields /\ fgWaiting > 0)
          /\ Goto(Worker, "yield", "lock")
          /\ yields' = 0
    /\ UNCHANGED <<engineVars, cacheVars, queueVars, loc, reply, shown>>

\* At most MaxYields naps while a foreground call waits for the engine.
PrefetchYield ==
    /\ \/ /\ yields < MaxYields /\ fgWaiting > 0
          /\ pc[Worker] = "yield"
          /\ yields' = yields + 1
          /\ UNCHANGED pc
       \/ /\ ~(yields < MaxYields /\ fgWaiting > 0)
          /\ Goto(Worker, "yield", "lock")
          /\ yields' = 0
    /\ UNCHANGED <<engineVars, cacheVars, queueVars, loc, reply, shown>>

PrefetchLock ==
    /\ Goto(Worker, "lock", "recheck")
    /\ Acquire(Worker)
    /\ UNCHANGED <<fgWaiting, cacheVars, queueVars, localVars, reply, shown>>

PrefetchRecheck ==
    /\ \/ /\ Goto(Worker, "recheck", "wait")
          /\ cacheHas(loc[Worker].reading)
          /\ ClearLocals(Worker)
          /\ Release
       \/ /\ Goto(Worker, "recheck", "take")
          /\ ~cacheHas(loc[Worker].reading)
          /\ UNCHANGED <<engineOwner, loc>>
    /\ UNCHANGED <<fgWaiting, cacheVars, queueVars, yields, reply, shown>>

PrefetchPut ==
    /\ Goto(Worker, "put", "wait")
    /\ cachePut(loc[Worker].reading, loc[Worker].built)
    /\ ClearLocals(Worker)
    /\ UNCHANGED <<engineVars, hint, queueVars, yields, reply, shown>>
-----------------------------------------------------------------------------
\* ~Session: no call is in progress when the owner destroys the session.
\* stop_ is set under q_mu_, then the worker is notified, then joined.
Destroy ==
    /\ dtor = "no"
    /\ \A c \in Callers : pc[c] = "idle"
    /\ dtor' = "notify"
    /\ UNCHANGED <<engineVars, cacheVars, pending, localVars, pc, reply, shown>>

DestroyNotify ==
    /\ dtor = "notify"
    /\ dtor' = "join"
    /\ pc' = [pc EXCEPT ![Worker] = Woken(@)]
    /\ UNCHANGED <<engineVars, cacheVars, pending, localVars, reply, shown>>

DestroyJoin ==
    /\ dtor = "join"
    /\ pc[Worker] = "done"
    /\ dtor' = "gone"
    /\ UNCHANGED <<engineVars, cacheVars, pending, localVars, pc, reply, shown>>

\* The session is gone.
Gone == dtor = "gone" /\ UNCHANGED vars

Build(t) == BuildTake(t) \/ BuildHenkan(t) \/ BuildReconv(t)

\* A request arrives.
Request(c) == \E r \in Readings :
    \/ Top1Call(c, r)
    \/ \E max \in Limits : CandidatesCall(c, r, max)

\* The steps of a call in progress.
CallerStep(c) ==
    \/ Top1Lock(c) \/ Top1Run(c) \/ Top1Remember(c) \/ Top1Cached(c)
    \/ Top1Queue(c) \/ Top1Notify(c)
    \/ CandidatesGet(c) \/ CandidatesWant(c) \/ CandidatesLock(c)
    \/ CandidatesRecheck(c) \/ CandidatesPut(c)
    \/ Build(c)

WorkerStep ==
    \/ PrefetchWait \/ PrefetchHas \/ PrefetchYield \/ PrefetchLock
    \/ PrefetchRecheck \/ PrefetchPut
    \/ Build(Worker)

Next ==
    \/ \E c \in Callers : Request(c) \/ CallerStep(c)
    \/ WorkerStep
    \/ Destroy \/ DestroyNotify \/ DestroyJoin \/ Gone

Spec == Init /\ [][Next]_vars

\* A thread that can run eventually does; every engine call ends because the
\* engine's reads time out.  Nothing obliges a client to call, nor the owner
\* to destroy the session.
Fairness ==
    /\ \A c \in Callers : WF_vars(CallerStep(c))
    /\ WF_vars(WorkerStep)
    /\ WF_vars(DestroyNotify \/ DestroyJoin)

FairSpec == Spec /\ Fairness
-----------------------------------------------------------------------------
PCs == {"idle", "top1_lock", "top1_run", "top1_remember", "top1_cached",
        "top1_queue", "top1_notify", "cand_get", "cand_want", "cand_lock",
        "recheck", "take", "henkan", "reconv", "put",
        "wait", "asleep", "has", "yield", "lock", "done"}

Lists == UNION {ListsOf(r) : r \in Readings}

Locals == [reading : Readings \cup {NoReading}, limit : Nat, t1 : Texts, hex : Nat,
           built : Lists \cup {Unset}]

\* The variables hold values of their kinds.
TypeOK ==
    /\ engineOwner \in Threads \cup {Nobody}
    /\ fgWaiting \in Int
    /\ cache \in [Readings -> Lists \cup {Unset}]
    /\ lru \in Seq(Readings)
    /\ hint \in [Readings -> Texts \cup {Unset}]
    /\ pending \in Readings \cup {NoReading}
    /\ dtor \in {"no", "notify", "join", "gone"}
    /\ pc \in [Threads -> PCs]
    /\ loc \in [Threads -> Locals]
    /\ yields \in 0..MaxYields

\* The steps during which the code relies on engine_mu_ being held.
EngineSteps == {"top1_run", "recheck", "take", "henkan", "reconv"}

\* The engine does one conversion at a time (session.h, "a mutex serializes
\* access"): a thread in a step that uses the engine owns it, so no two do.
EngineExclusive ==
    \A t \in Threads : pc[t] \in EngineSteps <=> engineOwner = t

\* cachePut keeps cache_ and lru_ in agreement whichever thread puts, and
\* puts again, a reading: lru_ lists the cached readings, each once, and there
\* are never more than kCacheMax of them.
CacheMatchesOrder ==
    /\ \A r \in Readings : cacheHas(r) <=> \E i \in DOMAIN lru : lru[i] = r
    /\ \A i, j \in DOMAIN lru : lru[i] = lru[j] => i = j
    /\ Len(lru) <= CacheMax

\* The hints are dropped wholesale instead of growing with the readings
\* converted: at most kCacheMax + 1 of them (the map is cleared only once it
\* is over the limit).
HintsBounded == Cardinality(Hinted) <= CacheMax + 1

\* fg_waiting_ counts exactly the callers blocked on engine_mu_, so the
\* worker's yield neither sees a ghost nor misses one.
WaitingCounted ==
    fgWaiting = Cardinality({c \in Callers : pc[c] \in {"top1_lock", "cand_lock"}})

\* A call with a limit leaves no truncated list behind for a later call
\* without one, and no thread caches a list under another thread's reading:
\* what is cached for r is a whole list that buildCandidates returns for r.
CacheHoldsWholeLists ==
    \A r \in Readings : cacheHas(r) => cache[r] \in ListsOf(r)

\* A list leads with its own commit, which appears once, and offers every
\* surface that convert returned; its enriched entries are one per surface.
ListsWellFormed ==
    \A r \in Readings : cacheHas(r) =>
        LET l == cache[r]
            occurrences == {i \in DOMAIN l.candidates : l.candidates[i] = l.commit}
        IN  /\ l.commit # NoText => occurrences = {1}
            /\ \A i \in DOMAIN Reconv[r] :
                   \E j \in DOMAIN l.candidates : l.candidates[j] = Reconv[r][i]
            /\ \A i, j \in DOMAIN l.ex : l.ex[i] = l.ex[j] => i = j
            /\ \A i \in DOMAIN ReconvEx[r] :
                   \E j \in DOMAIN l.ex : l.ex[j] = ReconvEx[r][i]

\* The session's books are in order at every step of every thread: the cache and its eviction
\* order agree, its limits hold, the yield counts whom it should, and no list was put together
\* wrongly on the way.
Consistent ==
    TypeOK /\ CacheMatchesOrder /\ HintsBounded /\ WaitingCounted /\ ListsWellFormed

\* session.cpp:121: the candidate window is "consistent with this top-1 when
\* opened": the list returned for the reading shown inline leads with the
\* top-1 shown.  The code does not keep this when henkan failed in the build of a
\* list that is cached since; BatchSessionHistory has what it does keep.
ListMatchesInline ==
    \A c \in Callers :
        /\ reply[c] # Unset /\ reply[c].ok
        /\ shown # Unset /\ shown.r = reply[c].r /\ shown.top # NoText
        => reply[c].commit = shown.top

\* Where a call of top1 is between its beginning and its return.
Top1Steps == {"top1_lock", "top1_run", "top1_remember", "top1_cached", "top1_queue", "top1_notify"}

\* The call that c has in progress.
Asked(c) ==
    IF pc[c] = "idle" THEN Unset
    ELSE [op |-> IF pc[c] \in Top1Steps THEN "top1" ELSE "candidates",
          r |-> loc[c].reading, max |-> loc[c].limit]

Service == INSTANCE SessionService WITH
    asked    <- [c \in Callers |-> Asked(c)],
    open     <- ~stop,
    Wholes   <- [r \in Readings |-> ListsOf(r)],
    NoAnswer <- Failure,
    MayFail  <- EngineFails

\* session.h: a Session is what its callers take it for.  Whatever the cache, the eviction,
\* the prefetch and the other calls do in between, a call returns once, with a
\* result of its own reading that is cut to its own limit, and fails only if the engine does.
Implements == Service!Spec

\* Every call returns, and so does ~Session: the worker is woken and joined, even when a
\* prefetch was running or waiting for the engine when stop_ was set.
CallsReturn ==
    /\ \A c \in Callers : pc[c] # "idle" ~> pc[c] = "idle"
    /\ dtor # "no" ~> dtor = "gone"
=============================================================================
