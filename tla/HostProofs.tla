----------------------------- MODULE HostProofs -----------------------------
(***************************************************************************)
(* Proofs about two hosts of input methods: about Namespace for any        *)
(* processes, vendor modules, names and handles and any number of object   *)
(* calls, and about FcitxAddon for any contexts and letters, any number of *)
(* keys and any faults.                                                    *)
(*                                                                         *)
(* The two have no variable and no definition in common; what they share   *)
(* are the lemmas about numbers and sequences at the beginning.            *)
(***************************************************************************)
EXTENDS Namespace, FcitxAddon, SequenceTheorems, WellFoundedInduction, TLAPS
-----------------------------------------------------------------------------
(***************************************************************************)
(* Recursive functions on 0..n: that there is one, and induction along it. *)
(***************************************************************************)

\* Every set of natural numbers that has a member has a least one.
LEMMA LeastNat ==
    ASSUME NEW T, T \subseteq Nat, T # {}
    PROVE  \E n \in T : \A m \in T : n <= m
  <1>1. \E x \in T : \A y \in T : <<y, x>> \notin OpToRel(<, Nat)
    <2>1. IsWellFoundedOn(OpToRel(<, Nat), Nat)
      BY NatLessThanWellFounded
    <2> QED BY <2>1, WFMin, Zenon
  <1>2. \A x, y \in Nat : y < x => <<y, x>> \in OpToRel(<, Nat)
    BY Zenon DEF OpToRel
  <1>3. \E x \in T : \A y \in T : ~(y < x)
    BY <1>1, <1>2, Zenon
  <1> QED BY <1>3

LEMMA UpTo ==
    ASSUME NEW L \in Nat, NEW T, 0 \in T, \A n \in 1..L : n - 1 \in T => n \in T
    PROVE  0..L \subseteq T
  <1> SUFFICES ASSUME NEW k \in 0..L, k \notin T PROVE FALSE
    OBVIOUS
  <1> DEFINE B == {n \in 0..L : n \notin T}
  <1>1. B \subseteq Nat /\ B # {}
    OBVIOUS
  <1>2. PICK n \in B : \A m \in B : n <= m
    BY <1>1, LeastNat, Zenon
  <1>3. n \in 1..L /\ n - 1 \in 0..L /\ n - 1 \notin B
    BY <1>2
  <1> QED BY <1>2, <1>3

\* F[<<n, v>>] is the value at n when the one before it is v.
Computes(f, V, v0, L, F) == /\ f \in [0..L -> V]
                            /\ f[0] = v0
                            /\ \A n \in 1..L : f[n] = F[<<n, f[n-1]>>]

LEMMA RecursionExists ==
    ASSUME NEW V, NEW v0 \in V, NEW L \in Nat, NEW F \in [(1..L) \X V -> V]
    PROVE  \E f : Computes(f, V, v0, L, F)
  <1> DEFINE Is(f, m) == /\ f \in [0..m -> V] /\ f[0] = v0
                         /\ \A n \in 1..m : f[n] = F[<<n, f[n-1]>>]
             T == {m \in 0..L : \E f : Is(f, m)}
  <1>1. 0 \in T
    <2> DEFINE g == [n \in 0..0 |-> v0]
    <2>1. Is(g, 0)
      OBVIOUS
    <2>2. 0 \in 0..L
      OBVIOUS
    <2> HIDE DEF g, Is
    <2> QED BY <2>1, <2>2
  <1>2. ASSUME NEW m \in 1..L, m - 1 \in T PROVE m \in T
    <2>1. PICK f : Is(f, m - 1)
      BY <1>2
    <2> DEFINE w == F[<<m, f[m-1]>>]
               g == [n \in 0..m |-> IF n = m THEN w ELSE f[n]]
    <2>2. f[m-1] \in V /\ w \in V
      BY <2>1
    <2> HIDE DEF w
    <2>3. g \in [0..m -> V] /\ g[0] = v0
      BY <2>1, <2>2
    <2>4. \A n \in 0..m-1 : g[n] = f[n]
      OBVIOUS
    <2>5. ASSUME NEW n \in 1..m PROVE g[n] = F[<<n, g[n-1]>>]
      <3>1. g[n-1] = f[n-1]
        OBVIOUS
      <3>2. CASE n = m
        BY <3>1, <3>2 DEF w
      <3>3. CASE n # m
        BY <2>1, <3>1, <3>3
      <3> QED BY <3>2, <3>3
    <2> HIDE DEF g
    <2>6. Is(g, m)
      BY <2>3, <2>5
    <2> QED BY <2>6
  <1> HIDE DEF T
  <1>3. 0..L \subseteq T
    BY <1>1, <1>2, UpTo
  <1>4. L \in T
    BY <1>3
  <1> QED BY <1>4 DEF T, Computes
-----------------------------------------------------------------------------
(***************************************************************************)
(* The last element of a sequence.                                         *)
(***************************************************************************)
LEMMA AppendLast ==
    ASSUME NEW S, NEW p \in Seq(S), NEW x \in S
    PROVE  LET t == Append(p, x)
           IN  /\ t \in Seq(S) /\ t # <<>> /\ Len(p) \in Nat /\ Len(t) = Len(p) + 1
               /\ t[Len(t)] = x /\ SubSeq(t, 1, Len(t) - 1) = p
  <1> DEFINE t == Append(p, x)
             q == SubSeq(t, 1, Len(p))
  <1>1. /\ t \in Seq(S) /\ t # <<>> /\ Len(p) \in Nat /\ Len(t) = Len(p) + 1
        /\ t[Len(p) + 1] = x /\ \A i \in 1..Len(p) : t[i] = p[i]
    BY AppendProperties
  <1> HIDE DEF t
  <1>2. q \in Seq(S) /\ Len(q) = Len(p) /\ \A i \in 1..Len(p) : q[i] = t[i]
    BY <1>1
  <1> HIDE DEF q
  <1>3. q = p
    <2>1. \A i \in 1..Len(q) : q[i] = p[i]
      BY <1>1, <1>2
    <2> QED BY <1>2, <2>1, SeqEqual
  <1>4. Len(t) - 1 = Len(p)
    BY <1>1
  <1> QED BY <1>1, <1>3, <1>4 DEF t, q

LEMMA LastAppended ==
    ASSUME NEW S, NEW t \in Seq(S), t # <<>>
    PROVE  LET p == SubSeq(t, 1, Len(t) - 1)
           IN  /\ p \in Seq(S) /\ Len(t) \in Nat \ {0} /\ t[Len(t)] \in S /\ Len(p) = Len(t) - 1
               /\ t = Append(p, t[Len(t)])
  <1>1. PICK q \in Seq(S), x \in S : t = Append(q, x)
    BY SequenceEmptyOrAppend
  <1>2. /\ t # <<>> /\ Len(q) \in Nat /\ Len(t) = Len(q) + 1
        /\ t[Len(t)] = x /\ SubSeq(t, 1, Len(t) - 1) = q
    BY <1>1, AppendLast
  <1> QED BY <1>1, <1>2

LEMMA LastReplaced ==
    ASSUME NEW S, NEW p \in Seq(S), NEW x \in S, NEW y \in S
    PROVE  [Append(p, x) EXCEPT ![Len(Append(p, x))] = y] = Append(p, y)
  <1> DEFINE t == Append(p, x)
             u == Append(p, y)
             e == [t EXCEPT ![Len(t)] = y]
  <1>1. /\ t \in Seq(S) /\ Len(p) \in Nat /\ Len(t) = Len(p) + 1
        /\ \A i \in 1..Len(p) : t[i] = p[i]
    BY AppendProperties
  <1>2. /\ u \in Seq(S) /\ Len(u) = Len(p) + 1 /\ u[Len(p) + 1] = y
        /\ \A i \in 1..Len(p) : u[i] = p[i]
    BY AppendProperties
  <1> HIDE DEF t, u
  <1>3. e \in Seq(S) /\ Len(e) = Len(t) /\ \A i \in 1..Len(t) : e[i] = IF i = Len(t) THEN y ELSE t[i]
    <2>1. Len(t) \in 1..Len(t)
      BY <1>1
    <2> QED BY <1>1, <2>1, ExceptSeq
  <1> HIDE DEF e
  <1>4. ASSUME NEW i \in 1..Len(e) PROVE e[i] = u[i]
    <2>1. i = Len(p) + 1 \/ i \in 1..Len(p)
      BY <1>1, <1>3
    <2> QED BY <1>1, <1>2, <1>3, <2>1
  <1>5. e = u
    BY <1>1, <1>2, <1>3, <1>4, SeqEqual
  <1> QED BY <1>5 DEF e, t, u
-----------------------------------------------------------------------------
(***************************************************************************)
(* Namespace.                                                              *)
(***************************************************************************)
BaseKeys == {"Base"} \X Names
CEKey    == <<"Base", CE>>
Opened   == [key : BaseKeys, hooked : BOOLEAN]
Entries  == [h : Handles \cup {0}, name : Names]

ProcState ==
    [stage : {"down", "spawned", "injected", "running"}, injected : BOOLEAN,
     installing : BOOLEAN, init : BOOLEAN,
     loaded : SUBSET Modules, loading : SUBSET Modules,
     patched : SUBSET (Modules \X Apis), worker : BOOLEAN,
     pass : SUBSET (Modules \X Apis),
     handle : [Handles -> Opened \cup {None}],
     own : SUBSET BaseKeys, autoCE : {"no", "create", "seed", "open"},
     table : Seq(Entries), fakes : SUBSET Modules, seeds : {0, 1},
     leaks : SUBSET Modules]

\* The entries of a handle the shim gave out name the map it was given out for.
Named(handle, table) ==
    \A h \in Handles :
        handle[h] # None /\ handle[h].hooked /\ handle[h].key[2] \in Maps =>
            \A i \in DOMAIN table : table[i].h = h => table[i].name = handle[h].key[2]

\* The shim was there before the modules that came with the process ran.
Covered(s) ==
    /\ s.stage # "running" => s.loading = {}
    /\ s.stage = "spawned" => s.loaded = Static
    /\ s.injected => Static \X Apis \subseteq s.patched
    /\ s.leaks \cap Static = {}

\* The shared data are seeded by a process that holds them from then on.
SeedsOwn(s) ==
    /\ s.autoCE \in {"create", "seed"} => s.seeds = 0
    /\ s.autoCE \in {"seed", "open"} \/ s.seeds # 0 => CEKey \in s.own

Good(s) ==
    /\ s \in ProcState
    /\ Len(s.table) <= Slots
    /\ Named(s.handle, s.table)
    /\ Covered(s)
    /\ SeedsOwn(s)

\* What keeps the books of the shims in order.
NsInv ==
    /\ proc \in [Procs -> ProcState]
    /\ \A p \in Procs : Good(proc[p]) /\ proc[p].own \subseteq objects
    /\ objects \subseteq BaseKeys
-----------------------------------------------------------------------------
LEMMA RememberMapName ==
    ASSUME NEW t \in Seq(Entries), Len(t) <= Slots,
           NEW h \in Handles \cup {0}, NEW n \in Names, NEW r,
           r = remember_map_name(t, h, n)
    PROVE  /\ r \in Seq(Entries) /\ Len(r) <= Slots
           /\ \A i \in DOMAIN r : r[i].h = h => r[i].name = n
           /\ \A i \in DOMAIN r : r[i].h # h => i \in DOMAIN t /\ r[i] = t[i]
  <1>1. Entry(h, n) \in Entries /\ Entry(h, n).h = h /\ Entry(h, n).name = n
    BY DEF Entry, Entries
  <1>2. \A i \in DOMAIN t : t[i] \in Entries
    BY ElementOfSeq
  <1>3. CASE \E i \in DOMAIN t : t[i].h = h
    <2>1. r = [i \in DOMAIN t |-> IF t[i].h = h THEN Entry(h, n) ELSE t[i]]
      BY <1>3 DEF remember_map_name
    <2>2. DOMAIN t = 1..Len(t) /\ Len(t) \in Nat
      OBVIOUS
    <2>3. r \in Seq(Entries) /\ Len(r) = Len(t) /\ DOMAIN r = DOMAIN t
      <3>1. r \in [1..Len(t) -> Entries]
        BY <1>1, <1>2, <2>1, <2>2
      <3> QED BY <3>1, <2>2
    <2> QED BY <2>1, <2>3, <1>1, <1>2
  <1>4. CASE ~(\E i \in DOMAIN t : t[i].h = h) /\ Len(t) < Slots
    <2>1. r = Append(t, Entry(h, n))
      BY <1>4 DEF remember_map_name
    <2>2. r \in Seq(Entries) /\ Len(r) = Len(t) + 1
      BY <2>1, <1>1
    <2> QED BY <2>1, <2>2, <1>1, <1>4, NamespaceAssumption
  <1>5. CASE ~(\E i \in DOMAIN t : t[i].h = h) /\ ~(Len(t) < Slots)
    <2>1. r = [t EXCEPT ![1] = Entry(h, n)]
      BY <1>5 DEF remember_map_name
    <2>2. 1 \in 1..Len(t)
      BY <1>5, NamespaceAssumption
    <2>3. r \in Seq(Entries) /\ Len(r) = Len(t) /\ DOMAIN r = DOMAIN t
          /\ \A j \in 1..Len(t) : r[j] = IF j = 1 THEN Entry(h, n) ELSE t[j]
      BY <2>1, <2>2, <1>1, ExceptSeq
    <2> QED BY <2>3, <1>1, <1>5
  <1> QED BY <1>3, <1>4, <1>5

\* A handle closed behind the shim's back and given out again.
LEMMA GoodHandle ==
    ASSUME NEW s, Good(s), NEW h \in Handles, NEW key \in BaseKeys,
           NEW hooked \in BOOLEAN
    PROVE  Good(WithHandle(s, h, key, hooked)) /\ WithHandle(s, h, key, hooked).own = s.own
  <1> DEFINE s2 == WithHandle(s, h, key, hooked)
             e  == [key |-> key, hooked |-> hooked]
             t2 == IF hooked /\ key[2] \in Maps THEN remember_map_name(s.table, h, key[2])
                   ELSE s.table
  <1>1. s2 = [s EXCEPT !.handle[h] = e, !.table = t2]
    BY DEF WithHandle
  <1>2. e \in Opened /\ e.key = key /\ e.hooked = hooked
    BY DEF Opened
  <1>3. key[2] \in Names /\ s.table \in Seq(Entries) /\ s.handle \in [Handles -> Opened \cup {None}]
        /\ s \in ProcState /\ Len(s.table) <= Slots /\ Named(s.handle, s.table)
    BY DEF BaseKeys, ProcState, Good
  <1>4. /\ t2 \in Seq(Entries) /\ Len(t2) <= Slots
        /\ hooked /\ key[2] \in Maps => \A i \in DOMAIN t2 : t2[i].h = h => t2[i].name = key[2]
        /\ \A i \in DOMAIN t2 : t2[i].h # h => i \in DOMAIN s.table /\ t2[i] = s.table[i]
    BY <1>3, RememberMapName
  <1> HIDE DEF t2, e, s2
  <1>5. [s.handle EXCEPT ![h] = e] \in [Handles -> Opened \cup {None}]
    BY <1>2, <1>3
  <1>6. /\ s2 \in ProcState /\ s2.table = t2 /\ s2.handle = [s.handle EXCEPT ![h] = e]
        /\ s2.stage = s.stage /\ s2.injected = s.injected
        /\ s2.loaded = s.loaded /\ s2.patched = s.patched
        /\ s2.leaks = s.leaks /\ s2.autoCE = s.autoCE
        /\ s2.seeds = s.seeds /\ s2.own = s.own /\ s2.loading = s.loading
    BY <1>1, <1>3, <1>4, <1>5 DEF ProcState
  <1>7. Named(s2.handle, s2.table)
    <2> SUFFICES ASSUME NEW k \in Handles, s2.handle[k] # None, s2.handle[k].hooked,
                        s2.handle[k].key[2] \in Maps, NEW i \in DOMAIN t2, t2[i].h = k
                 PROVE  t2[i].name = s2.handle[k].key[2]
      BY <1>6 DEF Named
    <2>1. CASE k = h
      BY <2>1, <1>2, <1>3, <1>4, <1>6
    <2>2. CASE k # h
      <3>1. s2.handle[k] = s.handle[k]
        BY <2>2, <1>3, <1>6
      <3>2. i \in DOMAIN s.table /\ t2[i] = s.table[i]
        BY <2>2, <1>4
      <3> QED BY <3>1, <3>2, <1>3 DEF Named
    <2> QED BY <2>1, <2>2
  <1> QED BY <1>3, <1>4, <1>6, <1>7 DEF s2, Good, Covered, SeedsOwn

LEMMA GoodPatched ==
    ASSUME NEW s, Good(s), NEW s2, s2 = patched(s)
    PROVE  Good(s2) /\ s2.own = s.own /\ s2.stage = s.stage /\ s2.loaded = s.loaded
           /\ s2.loading = s.loading /\ s2.worker = s.worker /\ s2.table = s.table
           /\ s2.autoCE = s.autoCE /\ s2.injected = s.injected
           /\ s.loaded \X Apis \subseteq s2.patched
  <1>1. SlotsOf(s) \subseteq Modules \X Apis /\ s.loaded \X Apis \subseteq SlotsOf(s)
    BY DEF Good, ProcState, SlotsOf
  <1>2. s2 = [s EXCEPT !.patched = s.patched \cup SlotsOf(s)]
    BY DEF patched
  <1>3. s.patched \cup SlotsOf(s) \in SUBSET (Modules \X Apis)
    BY <1>1 DEF Good, ProcState
  <1>4. /\ s2 \in ProcState /\ s2.patched = s.patched \cup SlotsOf(s)
        /\ s2.own = s.own /\ s2.stage = s.stage /\ s2.loaded = s.loaded
        /\ s2.loading = s.loading /\ s2.worker = s.worker /\ s2.table = s.table
        /\ s2.autoCE = s.autoCE /\ s2.injected = s.injected /\ s2.handle = s.handle
        /\ s2.leaks = s.leaks /\ s2.seeds = s.seeds
    BY <1>2, <1>3 DEF Good, ProcState
  <1> QED BY <1>1, <1>4 DEF Good, Covered, SeedsOwn

LEMMA GoodInit ==
    ASSUME NEW s, Good(s), NEW s2, s2 = ensure_init(s)
    PROVE  Good(s2) /\ s2.own = s.own /\ s2.stage = s.stage /\ s2.loaded = s.loaded
           /\ s2.loading = s.loading /\ s2.worker = s.worker /\ s2.table = s.table
           /\ s2.autoCE = s.autoCE /\ s2.injected = s.injected
  BY DEF ensure_init, Good, ProcState, Covered, SeedsOwn, Named

LEMMA GoodInstall ==
    ASSUME NEW s, Good(s), NEW p, NEW wanted \in BOOLEAN, NEW s2,
           s2 = AtNsShimInstall(p, s, wanted)
    PROVE  Good(s2) /\ s2.own = s.own /\ s2.table = s.table /\ s2.autoCE = s.autoCE
  <1> DEFINE s1 == patched(ensure_init(s))
  <1>1. Good(s1) /\ s1.own = s.own /\ s1.table = s.table /\ s1.autoCE = s.autoCE
    BY GoodInit, GoodPatched
  <1>2. s2 = [s1 EXCEPT !.worker = s1.worker \/ (wanted /\ p # Tip)]
    BY DEF AtNsShimInstall
  <1> HIDE DEF s1
  <1>3. (s1.worker \/ (wanted /\ p # Tip)) \in BOOLEAN
    OBVIOUS
  <1> QED BY <1>1, <1>2, <1>3 DEF Good, ProcState, Covered, SeedsOwn, Named

LEMMA GoodLeak ==
    ASSUME NEW s, Good(s), NEW m \in Modules, NEW leak \in BOOLEAN,
           s.injected /\ leak => m \notin Static, NEW s2, s2 = Leak(s, m, leak)
    PROVE  Good(s2) /\ s2.own = s.own
  BY DEF Leak, Good, ProcState, Covered, SeedsOwn, Named

LEMMA GoodDown == Good(Down) /\ Down.own = {}
  <1>1. <<>> \in Seq(Entries) /\ Len(<<>>) = 0 /\ DOMAIN <<>> = {}
    BY EmptySeq
  <1> QED BY <1>1, NamespaceAssumption DEF Down, Good, ProcState, Covered, SeedsOwn, Named

\* One process changes, the objects it keeps are there.
LEMMA KeepGood ==
    ASSUME NsInv, NEW p \in Procs, NEW s, Good(s), Keep(p, s), s.own \subseteq objects',
           objects' \subseteq BaseKeys, objects \subseteq objects'
    PROVE  NsInv'
  <1>1. s \in ProcState /\ proc' = [proc EXCEPT ![p] = s]
    BY DEF Good, Keep
  <1>2. proc' \in [Procs -> ProcState]
    BY <1>1 DEF NsInv
  <1>3. \A q \in Procs : proc'[q] = IF q = p THEN s ELSE proc[q]
    BY <1>1 DEF NsInv
  <1> QED BY <1>2, <1>3 DEF NsInv

\* One process changes and objects may go with it: not those that somebody keeps.
LEMMA LivingGood ==
    ASSUME NsInv, NEW p \in Procs, NEW s, Good(s), Keep(p, s), s.own \subseteq objects,
           objects' = Living(proc')
    PROVE  NsInv'
  <1>1. s \in ProcState /\ proc' = [proc EXCEPT ![p] = s]
    BY DEF Good, Keep
  <1>2. proc' \in [Procs -> ProcState] /\ DOMAIN proc' = Procs
    BY <1>1 DEF NsInv
  <1>3. \A q \in Procs : proc'[q] = IF q = p THEN s ELSE proc[q]
    BY <1>1 DEF NsInv
  <1>4. \A q \in Procs : proc'[q].own \subseteq Held(proc')
    BY <1>2 DEF Held
  <1>5. \A q \in Procs : Good(proc'[q]) /\ proc'[q].own \subseteq objects
    BY <1>3 DEF NsInv
  <1>6. objects' = objects \cap Held(proc')
    BY DEF Living
  <1> QED BY <1>2, <1>4, <1>5, <1>6 DEF NsInv
-----------------------------------------------------------------------------
(***************************************************************************)
(* The launcher, the loader and the worker.                                *)
(***************************************************************************)
LEMMA KeepOwn ==
    ASSUME NsInv, NEW p \in Procs, NEW s, Good(s), Keep(p, s), s.own = proc[p].own,
           UNCHANGED objects
    PROVE  NsInv'
  BY KeepGood DEF NsInv

LEMMA NsLaunch ==
    ASSUME NsInv, NEW p \in Procs, Launch(p)
    PROVE  NsInv'
  <1>1. Good(proc[p]) /\ proc[p] \in ProcState /\ proc[p].own \subseteq objects
    BY DEF NsInv, Good
  <1>2. CASE Spawn(p)
    <2> DEFINE s == [proc[p] EXCEPT !.stage = "spawned", !.loaded = Static]
    <2>1. Good(s) /\ s.own = proc[p].own
      BY <1>1, <1>2 DEF Spawn, Good, ProcState, Covered, SeedsOwn, Named, Modules
    <2> QED BY <1>2, <2>1, KeepOwn DEF Spawn
  <1>3. CASE Inject(p)
    <2>1. PICK install \in BOOLEAN :
              Keep(p, [DllMain(proc[p]) EXCEPT !.stage = "injected", !.injected = TRUE,
                                                  !.installing = install])
      BY <1>3 DEF Inject
    <2> DEFINE s1 == patched(ensure_init(proc[p]))
               s  == [DllMain(proc[p]) EXCEPT !.stage = "injected", !.injected = TRUE,
                                                !.installing = install]
    <2>2. /\ Good(s1) /\ s1.own = proc[p].own
          /\ Static \X Apis \subseteq s1.patched /\ s1.stage = "spawned"
      BY <1>1, <1>3, GoodInit, GoodPatched DEF Good, Covered, Inject
    <2>3. s = [[s1 EXCEPT !.worker = TRUE] EXCEPT !.stage = "injected", !.injected = TRUE,
                                                  !.installing = install]
      BY DEF DllMain
    <2> HIDE DEF s1, s
    <2>4. /\ s \in ProcState /\ s.stage = "injected" /\ s.patched = s1.patched
          /\ s.own = s1.own /\ s.loading = s1.loading /\ s.table = s1.table
          /\ s.autoCE = s1.autoCE /\ s.handle = s1.handle
          /\ s.leaks = s1.leaks /\ s.seeds = s1.seeds /\ s1.loading = {}
      BY <1>3, <2>2, <2>3 DEF Good, ProcState, Covered, Inject
    <2>5. Good(s) /\ s.own = proc[p].own
      BY <2>2, <2>4 DEF Good, Covered, SeedsOwn
    <2> QED BY <1>3, <2>1, <2>5, KeepOwn DEF Inject, s
  <1>4. CASE InjectFails(p)
    <2> DEFINE s == [proc[p] EXCEPT !.stage = "injected"]
    <2>1. Good(s) /\ s.own = proc[p].own
      BY <1>1, <1>4 DEF InjectFails, Good, ProcState, Covered, SeedsOwn, Named
    <2> QED BY <1>4, <2>1, KeepOwn DEF InjectFails
  <1>5. CASE RemoteInstall(p)
    <2>1. PICK wanted \in BOOLEAN :
              Keep(p, [AtNsShimInstall(p, proc[p], wanted) EXCEPT !.installing = FALSE])
      BY <1>5 DEF RemoteInstall
    <2> DEFINE s1 == AtNsShimInstall(p, proc[p], wanted)
               s  == [s1 EXCEPT !.installing = FALSE]
    <2>2. Good(s1) /\ s1.own = proc[p].own
      BY <1>1, GoodInstall
    <2> HIDE DEF s1
    <2>3. Good(s) /\ s.own = proc[p].own
      BY <2>2 DEF Good, ProcState, Covered, SeedsOwn, Named
    <2> HIDE DEF s
    <2> QED BY <1>5, <2>1, <2>3, KeepOwn DEF RemoteInstall, s, s1
  <1>6. CASE Resume(p)
    <2> DEFINE s == [proc[p] EXCEPT !.stage = "running"]
    <2>1. Good(s) /\ s.own = proc[p].own
      BY <1>1 DEF Good, ProcState, Covered, SeedsOwn, Named
    <2> QED BY <1>6, <2>1, KeepOwn DEF Resume
  <1>7. CASE Exit(p)
    BY <1>1, <1>7, GoodDown, LivingGood DEF Exit
  <1> QED BY <1>2, <1>3, <1>4, <1>5, <1>6, <1>7 DEF Launch

LEMMA NsTip ==
    ASSUME NsInv, StartTip \/ InstallTip \/ PatchNow
    PROVE  NsInv'
  <1>1. Tip \in Procs /\ Good(proc[Tip]) /\ proc[Tip].own \subseteq objects
    BY DEF NsInv, Procs
  <1>2. CASE StartTip
    <2> DEFINE s == [Down EXCEPT !.stage = "running"]
    <2>1. Good(s) /\ s.own = {}
      <3>1. Down \in ProcState /\ Good(Down) /\ Down.own = {} /\ ~Down.injected
        BY GoodDown DEF Good, Down
      <3>2. s \in ProcState /\ s.stage = "running" /\ ~s.injected
        BY <3>1 DEF ProcState
      <3>3. /\ s.handle = Down.handle /\ s.table = Down.table /\ s.autoCE = Down.autoCE
            /\ s.seeds = Down.seeds /\ s.own = Down.own /\ s.leaks = Down.leaks
        BY <3>1 DEF ProcState
      <3> HIDE DEF s
      <3>4. Covered(s) /\ SeedsOwn(s)
        BY <3>1, <3>2, <3>3 DEF Good, Covered, SeedsOwn
      <3> QED
        BY <3>1, <3>2, <3>3, <3>4 DEF Good
    <2> QED BY <1>1, <1>2, <2>1, KeepGood DEF StartTip, NsInv
  <1>3. CASE InstallTip
    <2> DEFINE key == <<"Base", DN>>
    <2>1. PICK wanted \in BOOLEAN, precreate \in BOOLEAN :
             LET s == AtNsShimInstall(Tip, proc[Tip], wanted)
             IN  IF precreate /\ key \notin s.own
                 THEN /\ Keep(Tip, [s EXCEPT !.own = @ \cup {key},
                                               !.table = remember_map_name(@, 0, DN)])
                      /\ objects' = objects \cup {key}
                 ELSE Keep(Tip, s) /\ UNCHANGED objects
      BY <1>3 DEF InstallTip
    <2> DEFINE s == AtNsShimInstall(Tip, proc[Tip], wanted)
    <2>2. Good(s) /\ s.own = proc[Tip].own
      BY <1>1, GoodInstall
    <2>3. /\ precreate /\ key \notin s.own =>
                /\ Keep(Tip, [s EXCEPT !.own = s.own \cup {key},
                                         !.table = remember_map_name(s.table, 0, DN)])
                /\ objects' = objects \cup {key}
          /\ ~(precreate /\ key \notin s.own) => Keep(Tip, s) /\ UNCHANGED objects
      BY <2>1
    <2> HIDE DEF s
    <2>4. DN \in Names /\ key \in BaseKeys /\ 0 \notin Handles
      BY NamespaceAssumption DEF Names, BaseKeys
    <2>5. CASE precreate /\ key \notin s.own
      <3> DEFINE t == remember_map_name(s.table, 0, DN)
                 z == [s EXCEPT !.own = s.own \cup {key}, !.table = t]
      <3>1. /\ t \in Seq(Entries) /\ Len(t) <= Slots
            /\ \A i \in DOMAIN t : t[i].h # 0 => i \in DOMAIN s.table /\ t[i] = s.table[i]
        BY <2>2, <2>4, RememberMapName DEF Good, ProcState
      <3> HIDE DEF t
      <3>2. Named(s.handle, t)
        BY <2>2, <2>4, <3>1 DEF Good, Named
      <3>3. s.own \cup {key} \in SUBSET BaseKeys
        BY <2>2, <2>4 DEF Good, ProcState
      <3>4. /\ z \in ProcState /\ z.handle = s.handle /\ z.table = t /\ z.own = s.own \cup {key}
            /\ z.stage = s.stage /\ z.injected = s.injected /\ z.loaded = s.loaded
            /\ z.patched = s.patched /\ z.leaks = s.leaks /\ z.autoCE = s.autoCE
            /\ z.seeds = s.seeds /\ z.loading = s.loading
        BY <2>2, <3>1, <3>3 DEF Good, ProcState
      <3>5. Keep(Tip, z)
        BY <2>3, <2>5 DEF t
      <3> HIDE DEF z
      <3>6. Good(z)
        BY <2>2, <3>1, <3>2, <3>4 DEF Good, Covered, SeedsOwn
      <3> QED BY <1>1, <2>2, <2>3, <2>4, <2>5, <3>4, <3>5, <3>6, KeepGood DEF NsInv
    <2>6. CASE ~(precreate /\ key \notin s.own)
      BY <1>1, <2>2, <2>3, <2>6, KeepOwn
    <2> QED BY <2>5, <2>6
  <1>4. CASE PatchNow
    BY <1>1, <1>4, GoodInit, GoodPatched, KeepOwn DEF PatchNow
  <1> QED BY <1>2, <1>3, <1>4

LEMMA NsLoad ==
    ASSUME NsInv, NEW p \in Procs, NEW m \in Dynamic, Load(p, m) \/ shim_LoadLibrary(p, m)
    PROVE  NsInv'
  <1>1. Good(proc[p]) /\ proc[p] \in ProcState /\ m \in Modules
    BY DEF NsInv, Good, Modules
  <1>2. CASE Load(p, m)
    <2> DEFINE s == [proc[p] EXCEPT !.loading = {m}]
    <2>1. Good(s) /\ s.own = proc[p].own
      BY <1>1, <1>2 DEF Load, Free, Good, ProcState, Covered, SeedsOwn, Named
    <2> QED BY <1>2, <2>1, KeepOwn DEF Load
  <1>3. CASE shim_LoadLibrary(p, m)
    <2> DEFINE s == [proc[p] EXCEPT !.loaded = @ \cup {m}, !.loading = {}]
    <2>1. PICK after \in BOOLEAN :
              Keep(p, IF after /\ s.patched # {} THEN patched(s) ELSE s)
      BY <1>3 DEF shim_LoadLibrary
    <2>2. Good(s) /\ s.own = proc[p].own
      <3>1. proc[p].stage # "spawned"
        BY <1>1, <1>3 DEF shim_LoadLibrary, Good, Covered
      <3> QED BY <1>1, <3>1 DEF Good, ProcState, Covered, SeedsOwn, Named
    <2> HIDE DEF s
    <2> QED BY <1>3, <2>1, <2>2, GoodPatched, KeepOwn DEF shim_LoadLibrary
  <1> QED BY <1>2, <1>3

LEMMA NsWorker ==
    ASSUME NsInv, NEW p \in Procs, Worker(p)
    PROVE  NsInv'
  <1>1. Good(proc[p]) /\ proc[p] \in ProcState
    BY DEF NsInv, Good
  <1>2. CASE WorkerScan(p)
    <2> DEFINE slots == SlotsOf(proc[p]) \ proc[p].patched
               s     == [proc[p] EXCEPT !.pass = slots]
    <2>1. slots \in SUBSET (Modules \X Apis)
      BY <1>1 DEF ProcState, SlotsOf
    <2> HIDE DEF slots
    <2>2. Good(s) /\ s.own = proc[p].own
      BY <1>1, <2>1 DEF Good, ProcState, Covered, SeedsOwn, Named
    <2> QED BY <1>2, <2>2, KeepOwn DEF WorkerScan, slots
  <1>3. CASE WorkerPatch(p)
    <2>1. PICK a \in proc[p].pass :
              Keep(p, [proc[p] EXCEPT !.patched = @ \cup {a}, !.pass = @ \ {a}])
      BY <1>3 DEF WorkerPatch
    <2> DEFINE s == [proc[p] EXCEPT !.patched = @ \cup {a}, !.pass = @ \ {a}]
    <2>2. proc[p].patched \cup {a} \in SUBSET (Modules \X Apis)
          /\ proc[p].pass \ {a} \in SUBSET (Modules \X Apis)
      BY <1>1 DEF ProcState
    <2>3. Good(s) /\ s.own = proc[p].own
      <3>1. s \in ProcState
        BY <1>1, <2>2 DEF Good, ProcState
      <3>2. /\ s.handle = proc[p].handle /\ s.table = proc[p].table /\ s.autoCE = proc[p].autoCE
            /\ s.seeds = proc[p].seeds /\ s.own = proc[p].own /\ s.leaks = proc[p].leaks
            /\ s.stage = proc[p].stage /\ s.loading = proc[p].loading /\ s.loaded = proc[p].loaded
            /\ s.injected = proc[p].injected /\ proc[p].patched \subseteq s.patched
        BY <1>1 DEF Good, ProcState
      <3> HIDE DEF s
      <3>3. Covered(s) /\ SeedsOwn(s)
        BY <1>1, <3>2 DEF Good, Covered, SeedsOwn
      <3> QED
        BY <1>1, <3>1, <3>2, <3>3 DEF Good
    <2> QED BY <1>3, <2>1, <2>3, KeepOwn DEF WorkerPatch
  <1> QED BY <1>2, <1>3 DEF Worker
-----------------------------------------------------------------------------
(***************************************************************************)
(* The calls.                                                              *)
(***************************************************************************)
\* A call of a module that the shim did not hook: not one that was there before it ran.
LEMMA UnhookedIsLate ==
    ASSUME NEW s, Good(s), NEW m \in Modules, NEW api \in Apis, <<m, api>> \notin s.patched,
           s.injected
    PROVE  m \notin Static
  BY DEF Good, Covered

LEMMA NsNamed ==
    ASSUME NsInv, NEW p \in Procs, NEW m \in Modules,
           NEW n \in Names, NEW prefixed \in BOOLEAN,
           Create(p, m, n, prefixed) \/ Open(p, m, n, prefixed)
    PROVE  NsInv'
  <1> DEFINE key  == Key(p, m, n, prefixed)
             leak == key[1] = "Private"
             s    == Leak(proc[p], m, leak)
             hooked == Hooked(p, m, "name")
  <1>1. Good(proc[p]) /\ proc[p].own \subseteq objects /\ objects \subseteq BaseKeys
    BY DEF NsInv
  <1>2. ~leak => key \in BaseKeys
    BY DEF Key, rewrite_ns_name, BaseKeys
  <1>3. leak => key \notin BaseKeys
    BY DEF BaseKeys
  <1>4. leak => <<m, "name">> \notin proc[p].patched
    BY DEF Key, rewrite_ns_name, Hooked
  <1>5. Good(s) /\ s.own = proc[p].own
    <2>1. proc[p].injected /\ leak => m \notin Static
      BY <1>1, <1>4, UnhookedIsLate DEF Apis
    <2>2. leak \in BOOLEAN
      OBVIOUS
    <2> HIDE DEF leak, key
    <2> QED BY <1>1, <2>1, <2>2, GoodLeak
  <1>6. hooked \in BOOLEAN
    BY DEF Hooked
  <1>7. \A h \in Handles : ~leak => /\ Good(WithHandle(s, h, key, hooked))
                                    /\ WithHandle(s, h, key, hooked).own = s.own
    <2> HIDE DEF leak, key, s, hooked
    <2> QED BY <1>2, <1>5, <1>6, GoodHandle
  <1>8. CASE Create(p, m, n, prefixed)
    <2>1. /\ leak => Keep(p, s) /\ UNCHANGED objects
          /\ ~leak => \E h \in Handles : /\ Keep(p, WithHandle(s, h, key, hooked))
                                         /\ objects' = objects \cup {key}
      BY <1>8 DEF Create
    <2> HIDE DEF key, leak, s, hooked
    <2>2. CASE leak
      BY <1>5, <2>1, <2>2, KeepOwn
    <2>3. CASE ~leak
      <3>1. PICK h \in Handles : /\ Keep(p, WithHandle(s, h, key, hooked))
                                 /\ objects' = objects \cup {key}
        BY <2>1, <2>3
      <3>2. objects' \subseteq BaseKeys /\ objects \subseteq objects'
        BY <1>1, <1>2, <2>3, <3>1
      <3> QED BY <1>1, <1>5, <1>7, <2>3, <3>1, <3>2, KeepGood
    <2> QED BY <2>2, <2>3
  <1>9. CASE Open(p, m, n, prefixed)
    <2>1. /\ ~(key \in objects) => Keep(p, s)
          /\ key \in objects => \E h \in Handles : Keep(p, WithHandle(s, h, key, hooked))
          /\ UNCHANGED objects
      BY <1>9 DEF Open, Exists
    <2> HIDE DEF key, leak, s, hooked
    <2>2. CASE key \notin objects
      BY <1>5, <2>1, <2>2, KeepOwn
    <2>3. CASE key \in objects
      <3>1. PICK h \in Handles : Keep(p, WithHandle(s, h, key, hooked))
        BY <2>1, <2>3
      <3>2. ~leak
        BY <1>1, <1>3, <2>3
      <3> QED BY <1>5, <1>7, <2>1, <3>1, <3>2, KeepOwn
    <2> QED BY <2>2, <2>3
  <1> QED BY <1>8, <1>9

LEMMA NsCall ==
    ASSUME NsInv, NEW p \in Procs, Call(p)
    PROVE  NsInv'
  <1>1. Good(proc[p]) /\ proc[p] \in ProcState /\ proc[p].own \subseteq objects
        /\ objects \subseteq BaseKeys
    BY DEF NsInv, Good
  <1>2. Maps \subseteq Names /\ Mutexes \subseteq Names
    BY DEF Names
  <1>3. ASSUME NEW m \in Modules,
               \/ CreateFileMapping(p, m) \/ OpenFileMapping(p, m)
               \/ CreateMutex(p, m) \/ OpenMutex(p, m)
        PROVE  NsInv'
    <2>1. \E n \in Names, prefixed \in BOOLEAN :
              Create(p, m, n, prefixed) \/ Open(p, m, n, prefixed)
      BY <1>2, <1>3 DEF CreateFileMapping, OpenFileMapping, CreateMutex, OpenMutex
    <2> QED BY <2>1, NsNamed
  <1>4. ASSUME NEW m \in Modules, OpenCE(p, m)
        PROVE  NsInv'
    <2> DEFINE s == [proc[p] EXCEPT !.autoCE = "create"]
    <2>1. proc[p].seeds = 0
      BY <1>1, <1>4 DEF OpenCE, Exists, Good, SeedsOwn, ProcState, CEKey
    <2>2. Good(s) /\ s.own = proc[p].own
      BY <1>1, <2>1 DEF Good, ProcState, Covered, SeedsOwn, Named
    <2> QED BY <1>4, <2>2, KeepOwn DEF OpenCE
  <1>5. ASSUME NEW m \in Modules, MakeFake(p, m)
        PROVE  NsInv'
    <2> DEFINE s == [proc[p] EXCEPT !.fakes = @ \cup {m}]
    <2>1. proc[p].fakes \cup {m} \in SUBSET Modules
      BY <1>1 DEF ProcState
    <2>2. Good(s) /\ s.own = proc[p].own
      BY <1>1, <2>1 DEF Good, ProcState, Covered, SeedsOwn, Named
    <2> QED BY <1>5, <2>2, KeepOwn DEF MakeFake
  <1>6. ASSUME NEW n \in Names, NtCreate(p, n)
        PROVE  NsInv'
    <2>1. PICK h \in Handles : Keep(p, WithHandle(proc[p], h, <<"Base", n>>, FALSE))
      BY <1>6 DEF NtCreate
    <2>2. <<"Base", n>> \in BaseKeys /\ objects' = objects \cup {<<"Base", n>>}
      BY <1>6 DEF NtCreate, BaseKeys
    <2>3. FALSE \in BOOLEAN
      OBVIOUS
    <2>4. Good(WithHandle(proc[p], h, <<"Base", n>>, FALSE))
          /\ WithHandle(proc[p], h, <<"Base", n>>, FALSE).own = proc[p].own
      BY <1>1, <2>2, <2>3, GoodHandle, Zenon
    <2>5. objects' \subseteq BaseKeys /\ objects \subseteq objects'
      BY <1>1, <2>2
    <2> QED BY <1>1, <2>1, <2>4, <2>5, KeepGood
  <1> QED BY <1>3, <1>4, <1>5, <1>6 DEF Call

LEMMA NsFinish ==
    ASSUME NsInv, NEW p \in Procs, Finish(p)
    PROVE  NsInv'
  <1>1. Good(proc[p]) /\ proc[p] \in ProcState /\ proc[p].own \subseteq objects
        /\ objects \subseteq BaseKeys /\ CEKey \in BaseKeys
    BY NamespaceAssumption DEF NsInv, Good, CEKey, BaseKeys, Names
  <1>2. CASE CreateCE(p)
    <2> DEFINE s == [proc[p] EXCEPT !.autoCE = "seed", !.own = @ \cup {CEKey}]
    <2>1. Keep(p, s) /\ objects' = objects \cup {CEKey} /\ proc[p].autoCE = "create"
      BY <1>2 DEF CreateCE, CEKey
    <2>2. proc[p].own \cup {CEKey} \in SUBSET BaseKeys
      BY <1>1 DEF ProcState
    <2>3. Good(s) /\ s.own = proc[p].own \cup {CEKey}
      BY <1>1, <2>1, <2>2 DEF Good, ProcState, Covered, SeedsOwn, Named
    <2> HIDE DEF s
    <2> QED BY <1>1, <2>1, <2>3, KeepGood
  <1>3. CASE SeedCE(p)
    <2> DEFINE s == [proc[p] EXCEPT !.autoCE = "open", !.seeds = 1]
    <2>1. proc[p].seeds = 0 /\ CEKey \in proc[p].own
      BY <1>1, <1>3 DEF Good, SeedsOwn, SeedCE
    <2>2. Keep(p, s) /\ UNCHANGED objects
      BY <1>3, <2>1 DEF SeedCE
    <2>3. /\ s \in ProcState /\ s.autoCE = "open" /\ s.handle = proc[p].handle
          /\ s.stage = proc[p].stage /\ s.injected = proc[p].injected
          /\ s.loaded = proc[p].loaded /\ s.patched = proc[p].patched
          /\ s.leaks = proc[p].leaks /\ s.table = proc[p].table
          /\ s.own = proc[p].own /\ s.loading = proc[p].loading
      BY <1>1 DEF ProcState
    <2> HIDE DEF s
    <2>4. Good(s)
      BY <1>1, <2>1, <2>3 DEF Good, Covered, SeedsOwn
    <2> QED BY <2>2, <2>3, <2>4, KeepOwn
  <1>4. CASE ReopenCE(p)
    <2>1. PICK h \in Handles :
              Keep(p, [WithHandle(proc[p], h, CEKey, TRUE) EXCEPT !.autoCE = "no"])
      BY <1>4 DEF ReopenCE, CEKey
    <2> DEFINE s1 == WithHandle(proc[p], h, CEKey, TRUE)
               s  == [s1 EXCEPT !.autoCE = "no"]
    <2>2. TRUE \in BOOLEAN
      OBVIOUS
    <2>3. Good(s1) /\ s1.own = proc[p].own
      BY <1>1, <2>2, GoodHandle, Zenon
    <2> HIDE DEF s1
    <2>4. Good(s) /\ s.own = proc[p].own
      BY <2>3 DEF Good, ProcState, Covered, SeedsOwn, Named
    <2>5. Keep(p, s) /\ UNCHANGED objects
      BY <1>4, <2>1 DEF ReopenCE, s1
    <2> QED BY <2>4, <2>5, KeepOwn
  <1>5. ASSUME NEW m \in Modules, FreeFake(p, m)
        PROVE  NsInv'
    <2> DEFINE s1 == [proc[p] EXCEPT !.fakes = @ \ {m}]
               leak == ~Hooked(p, m, "free")
    <2>1. proc[p].fakes \ {m} \in SUBSET Modules
      BY <1>1 DEF ProcState
    <2>2. Good(s1) /\ s1.own = proc[p].own /\ s1.injected = proc[p].injected
      BY <1>1, <2>1 DEF Good, ProcState, Covered, SeedsOwn, Named
    <2>3. leak \in BOOLEAN /\ (proc[p].injected /\ leak => m \notin Static)
      BY <1>1, UnhookedIsLate DEF Hooked, Apis
    <2>4. Keep(p, Leak(s1, m, leak)) /\ UNCHANGED objects
      BY <1>5 DEF FreeFake
    <2> HIDE DEF s1, leak
    <2>5. Good(Leak(s1, m, leak)) /\ Leak(s1, m, leak).own = proc[p].own
      BY <2>2, <2>3, GoodLeak
    <2> QED BY <2>4, <2>5, KeepOwn
  <1>6. ASSUME NEW h \in Handles, Close(p, h)
        PROVE  NsInv'
    <2> DEFINE s == [proc[p] EXCEPT !.handle[h] = None]
    <2>1. [proc[p].handle EXCEPT ![h] = None] \in [Handles -> Opened \cup {None}]
      BY <1>1 DEF ProcState
    <2>2. /\ s \in ProcState /\ s.handle = [proc[p].handle EXCEPT ![h] = None]
          /\ s.stage = proc[p].stage /\ s.injected = proc[p].injected
          /\ s.loaded = proc[p].loaded /\ s.patched = proc[p].patched
          /\ s.leaks = proc[p].leaks /\ s.autoCE = proc[p].autoCE
          /\ s.seeds = proc[p].seeds /\ s.own = proc[p].own /\ s.loading = proc[p].loading
          /\ s.table = proc[p].table
      BY <1>1, <2>1 DEF ProcState
    <2>3. Keep(p, s) /\ objects' = Living(proc')
      BY <1>6 DEF Close
    <2> HIDE DEF s
    <2>4. Named(s.handle, s.table)
      BY <1>1, <2>2 DEF Good, Named, ProcState
    <2>5. Good(s)
      BY <1>1, <2>2, <2>4 DEF Good, Covered, SeedsOwn
    <2> QED BY <1>1, <2>2, <2>3, <2>5, LivingGood
  <1> QED BY <1>2, <1>3, <1>4, <1>5, <1>6 DEF Finish
-----------------------------------------------------------------------------
(***************************************************************************)
(* What holds of the processes and the kernel's names.                     *)
(***************************************************************************)
LEMMA NsInitially == ASSUME Init PROVE NsInv
  <1>1. Down \in ProcState
    BY GoodDown DEF Good
  <1> QED BY <1>1, GoodDown DEF Init, NsInv

LEMMA NsStep == ASSUME NsInv, [Next]_vars PROVE NsInv'
  <1>1. CASE UNCHANGED vars
    BY <1>1 DEF NsInv, vars
  <1>2. CASE Next
    BY <1>2, NsTip, NsLaunch, NsLoad, NsWorker, NsCall, NsFinish DEF Next
  <1> QED BY <1>1, <1>2

LEMMA NsAlways == Spec => []NsInv
  <1>1. Init => NsInv
    BY NsInitially
  <1>2. NsInv /\ [Next]_vars => NsInv'
    BY NsStep
  <1> QED BY <1>1, <1>2, PTL DEF Spec

LEMMA NsSharing == ASSUME NsInv PROVE Sharing
  <1> SUFFICES ASSUME NEW p \in Procs, NEW q \in Procs,
                      NEW h \in OpenHandles(p), NEW g \in OpenHandles(q),
                      proc[p].handle[h].key[2] = proc[q].handle[g].key[2]
               PROVE  proc[p].handle[h].key = proc[q].handle[g].key
    BY DEF Sharing
  <1>1. proc[p].handle[h] \in Opened /\ proc[q].handle[g] \in Opened
    BY DEF NsInv, Good, ProcState, OpenHandles
  <1> QED BY <1>1 DEF Opened, BaseKeys

\* Processes that hold an object of the same name hold the same object, for any processes,
\* modules and names: every name the shim lets through to the kernel is the bare one.
THEOREM NamesAreShared == Spec => []Sharing
  <1>1. NsInv => Sharing
    BY NsSharing
  <1> QED BY <1>1, NsAlways, PTL

\* No module that was there when the shim was injected ever reaches Wine with a prefixed name
\* or a fake handle: what DllMain patched stays patched.
THEOREM StaticModulesNeverLeak == Spec => []StaticNeverLeaks
  <1>1. NsInv => StaticNeverLeaks
    BY DEF NsInv, Good, Covered, StaticNeverLeaks
  <1> QED BY <1>1, NsAlways, PTL

LEMMA FirstEntry ==
    ASSUME NEW t \in Seq(Entries), NEW h, \E i \in DOMAIN t : t[i].h = h
    PROVE  \E i \in DOMAIN t : t[i].h = h /\ lookup_map_name(t, h) = t[i].name
  <1> DEFINE T == {i \in DOMAIN t : t[i].h = h}
             First(i) == i \in DOMAIN t /\ t[i].h = h /\ \A j \in 1..(i - 1) : t[j].h # h
  <1>1. DOMAIN t = 1..Len(t) /\ Len(t) \in Nat
    OBVIOUS
  <1>2. PICK i \in T : \A j \in T : i <= j
    <2>1. T \subseteq Nat /\ T # {}
      BY <1>1
    <2> QED BY <2>1, LeastNat, Zenon
  <1>3. First(i)
    BY <1>1, <1>2
  <1>4. First(CHOOSE k \in DOMAIN t : t[k].h = h /\ \A j \in 1..(k - 1) : t[j].h # h)
    BY <1>3
  <1> QED BY <1>4 DEF lookup_map_name

LEMMA NsTableNames == ASSUME NsInv PROVE TableNames
  <1> SUFFICES ASSUME NEW p \in Procs, NEW h \in OpenHandles(p),
                      proc[p].handle[h].hooked, proc[p].handle[h].key[2] \in Maps
               PROVE  lookup_map_name(proc[p].table, h)
                          \in {proc[p].handle[h].key[2], "(unknown)"}
    BY DEF TableNames
  <1> DEFINE t == proc[p].table
  <1>1. t \in Seq(Entries) /\ Named(proc[p].handle, t) /\ h \in Handles
        /\ proc[p].handle[h] # None
    BY DEF NsInv, Good, ProcState, OpenHandles
  <1>2. CASE \E i \in DOMAIN t : t[i].h = h
    <2>1. PICK i \in DOMAIN t : t[i].h = h /\ lookup_map_name(t, h) = t[i].name
      BY <1>1, <1>2, FirstEntry
    <2> QED BY <1>1, <2>1 DEF Named
  <1>3. CASE ~(\E i \in DOMAIN t : t[i].h = h)
    BY <1>3 DEF lookup_map_name
  <1> QED BY <1>2, <1>3

LEMMA NsConsistent == ASSUME NsInv PROVE Consistent
  <1>1. BaseKeys \subseteq ObjectKeys
    BY DEF BaseKeys, ObjectKeys
  <1>2. ASSUME NEW p \in Procs
        PROVE  /\ proc[p].stage \in {"down", "spawned", "injected", "running"}
               /\ proc[p].patched \cup proc[p].pass \subseteq Modules \X Apis
               /\ \A h \in Handles : proc[p].handle[h] = None
                      \/ proc[p].handle[h] \in [key : ObjectKeys, hooked : BOOLEAN]
               /\ Len(proc[p].table) <= Slots
    <2>1. proc[p] \in ProcState /\ Len(proc[p].table) <= Slots
      BY DEF NsInv, Good
    <2>2. Opened \subseteq [key : ObjectKeys, hooked : BOOLEAN]
      BY <1>1 DEF Opened
    <2> QED BY <2>1, <2>2 DEF ProcState
  <1>3. TypeOK
    BY <1>1, <1>2 DEF TypeOK, NsInv
  <1>4. SeedsOnce
    <2>1. ASSUME NEW p \in Procs PROVE proc[p].seeds \in {0, 1} /\ proc[p].own \subseteq objects
      BY DEF NsInv, Good, ProcState
    <2> QED BY <2>1 DEF SeedsOnce, Exists
  <1> QED BY <1>3, <1>4, NsTableNames DEF Consistent

\* The table of map names never outgrows its size and never names a map wrongly, however
\* handles are reused behind the shim's back; a process seeds the shared data once and then
\* keeps them in being.
THEOREM BooksConsistent == Spec => []Consistent
  <1>1. NsInv => Consistent
    BY NsConsistent
  <1> QED BY <1>1, NsAlways, PTL
-----------------------------------------------------------------------------
(***************************************************************************)
(* The keys of a text.                                                     *)
(***************************************************************************)

\* f is what is spelled after each number of syllables.
Spells(f, t) == /\ f \in [0..Len(t) -> Seq(Keys)]
                /\ f[0] = <<>>
                /\ \A n \in 1..Len(t) : f[n] = f[n-1] \o t[n]

LEMMA SpellIs ==
    ASSUME NEW t \in Texts
    PROVE  \E f : Spells(f, t) /\ Spell(t) = f[Len(t)]
  <1> DEFINE L == Len(t)
             V == Seq(Keys)
             F == [q \in (1..L) \X V |-> q[2] \o t[q[1]]]
             Body(f) == [n \in 0..Len(t) |-> IF n = 0 THEN <<>> ELSE f[n-1] \o t[n]]
  <1>0. L \in Nat /\ <<>> \in V /\ \A n \in 1..L : t[n] \in V
    BY DEF Texts
  <1>a. \A x, y \in V : x \o y \in V
    BY ConcatProperties
  <1> HIDE DEF V
  <1>1. F \in [(1..L) \X V -> V]
    <2>1. ASSUME NEW n \in 1..L, NEW v \in V PROVE v \o t[n] \in V
      BY <1>0, <1>a
    <2> QED BY <2>1
  <1>3. \A n \in 1..L, v \in V : F[<<n, v>>] = v \o t[n]
    OBVIOUS
  <1> HIDE DEF F
  <1>4. PICK f \in [0..L -> V] : f[0] = <<>> /\ \A n \in 1..L : f[n] = F[<<n, f[n-1]>>]
    <2> HIDE DEF L
    <2>1. PICK f : Computes(f, V, <<>>, L, F)
      BY <1>0, <1>1, RecursionExists, Zenon
    <2> QED BY <2>1 DEF Computes
  <1>5. \A n \in 1..L : n - 1 \in 0..L /\ f[n-1] \in V
    BY <1>0
  <1>6. \A n \in 1..L : f[n] = f[n-1] \o t[n]
    BY <1>3, <1>4, <1>5
  <1>7. f = Body(f)
    <2>1. ASSUME NEW n \in 0..L
          PROVE  f[n] = IF n = 0 THEN <<>> ELSE f[n-1] \o t[n]
      <3>1. n = 0 \/ n \in 1..L
        BY <1>0
      <3> QED BY <1>4, <1>6, <3>1
    <2> QED BY <1>4, <2>1
  <1> DEFINE u == CHOOSE g : g = Body(g)
  <1>8. u = Body(u)
    BY <1>7
  <1>9. Spell(t) = u[L]
    BY DEF Spell
  <1> HIDE DEF u
  <1>10. u[0] = <<>> /\ \A n \in 1..L : u[n] = u[n-1] \o t[n]
    <2>1. ASSUME NEW n \in 0..L PROVE u[n] = Body(u)[n]
      BY <1>8, Zenon
    <2>2. ASSUME NEW n \in 0..L PROVE Body(u)[n] = IF n = 0 THEN <<>> ELSE u[n-1] \o t[n]
      OBVIOUS
    <2>3. \A n \in 0..L : u[n] = IF n = 0 THEN <<>> ELSE u[n-1] \o t[n]
      BY <2>1, <2>2
    <2> HIDE DEF Body
    <2>4. 0 \in 0..L /\ \A n \in 1..L : n \in 0..L /\ n # 0
      BY <1>0
    <2> HIDE DEF L
    <2> QED BY <2>3, <2>4
  <1>11. u = [n \in 0..L |-> u[n]]
    BY <1>8
  <1>12. \A n \in 0..L : u[n] \in V
    <2> DEFINE T == {n \in 0..L : u[n] \in V}
    <2>1. 0 \in T
      BY <1>0, <1>10
    <2>2. ASSUME NEW n \in 1..L, n - 1 \in T PROVE n \in T
      <3>1. n \in 0..L /\ u[n] = u[n-1] \o t[n] /\ t[n] \in V
        BY <1>0, <1>10
      <3>2. u[n-1] \in V
        BY <2>2
      <3>3. u[n-1] \o t[n] \in V
        BY <1>a, <3>1, <3>2
      <3> QED BY <3>1, <3>3
    <2> HIDE DEF T
    <2>3. 0..L \subseteq T
      BY <2>1, <2>2, <1>0, UpTo
    <2> QED BY <2>3 DEF T
  <1>13. u \in [0..L -> V]
    BY <1>11, <1>12
  <1> QED BY <1>9, <1>10, <1>13 DEF Spells, V

LEMMA SpellPrefix ==
    ASSUME NEW t \in Texts, NEW f, Spells(f, t), NEW n \in 0..Len(t)
    PROVE  SubSeq(t, 1, n) \in Texts /\ Spell(SubSeq(t, 1, n)) = f[n]
  <1> DEFINE p == SubSeq(t, 1, n)
  <1>1. Len(t) \in Nat /\ n \in Nat
    BY DEF Texts
  <1>2. p \in Texts /\ Len(p) = n /\ \A i \in 1..n : p[i] = t[i]
    BY DEF Texts
  <1> HIDE DEF p
  <1>3. PICK g : Spells(g, p) /\ Spell(p) = g[Len(p)]
    BY <1>2, SpellIs
  <1> DEFINE T == {i \in 0..n : g[i] = f[i]}
  <1>5. 0 \in T
    BY <1>1, <1>3 DEF Spells
  <1>6. ASSUME NEW i \in 1..n, i - 1 \in T PROVE i \in T
    <2>1. i \in 1..Len(t) /\ i \in 1..Len(p) /\ i \in 0..n /\ p[i] = t[i]
      BY <1>1, <1>2
    <2>2. f[i] = f[i-1] \o t[i] /\ g[i] = g[i-1] \o p[i]
      BY <1>3, <2>1 DEF Spells
    <2> QED BY <1>6, <2>1, <2>2
  <1> HIDE DEF T
  <1>7. 0..n \subseteq T
    BY <1>1, <1>5, <1>6, UpTo
  <1>8. g[n] = f[n]
    BY <1>1, <1>7 DEF T
  <1> QED BY <1>2, <1>3, <1>8 DEF p

LEMMA SpellTyped ==
    ASSUME NEW t \in Texts
    PROVE  Spell(t) \in Seq(Keys)
  <1>1. Len(t) \in Nat
    BY DEF Texts
  <1>2. PICK f : Spells(f, t) /\ Spell(t) = f[Len(t)]
    BY SpellIs
  <1>3. f \in [0..Len(t) -> Seq(Keys)]
    BY <1>2 DEF Spells
  <1> QED BY <1>1, <1>2, <1>3

LEMMA SpellNothing == <<>> \in Texts /\ Spell(<<>>) = <<>>
  <1>1. <<>> \in Texts /\ Len(<<>>) = 0
    BY DEF Texts
  <1> QED BY <1>1, SpellIs DEF Spells

\* The last syllable, and those before it.
LEMMA SpellLast ==
    ASSUME NEW t \in Texts, t # <<>>
    PROVE  LET p == SubSeq(t, 1, Len(t) - 1)
           IN  /\ p \in Texts /\ t[Len(t)] \in Seq(Keys) /\ t = Append(p, t[Len(t)])
               /\ Spell(t) = Spell(p) \o t[Len(t)]
  <1> DEFINE p == SubSeq(t, 1, Len(t) - 1)
  <1>1. /\ p \in Texts /\ Len(t) \in Nat \ {0} /\ t[Len(t)] \in Seq(Keys)
        /\ t = Append(p, t[Len(t)])
    BY LastAppended DEF Texts
  <1>2. PICK f : Spells(f, t) /\ Spell(t) = f[Len(t)]
    BY SpellIs
  <1>3. Len(t) - 1 \in 0..Len(t) /\ Len(t) \in 1..Len(t)
    BY <1>1
  <1>4. Spell(p) = f[Len(t) - 1]
    BY <1>2, <1>3, SpellPrefix
  <1>5. f[Len(t)] = f[Len(t) - 1] \o t[Len(t)]
    BY <1>2, <1>3 DEF Spells
  <1> QED BY <1>1, <1>2, <1>4, <1>5

LEMMA SpellAppend ==
    ASSUME NEW p \in Texts, NEW x \in Seq(Keys)
    PROVE  Append(p, x) \in Texts /\ Spell(Append(p, x)) = Spell(p) \o x
  <1> DEFINE t == Append(p, x)
  <1>1. t \in Texts /\ t # <<>> /\ t[Len(t)] = x /\ SubSeq(t, 1, Len(t) - 1) = p
    BY AppendLast DEF Texts
  <1> HIDE DEF t
  <1>2. Spell(t) = Spell(p) \o x
    BY <1>1, SpellLast
  <1> QED BY <1>1, <1>2 DEF t

\* A letter joins the last syllable or starts one: it comes last.
LEMMA SpellTypeKey ==
    ASSUME NEW t \in Texts, NEW key \in Keys
    PROVE  /\ TypeKey(t, key) \in Texts /\ TypeKey(t, key) # <<>>
           /\ Spell(TypeKey(t, key)) = Append(Spell(t), key)
  <1>1. <<key>> \in Seq(Keys) /\ Spell(t) \in Seq(Keys)
    BY SpellTyped
  <1>2. CASE TypeKey(t, key) = Append(t, <<key>>)
    <2>1. Append(t, <<key>>) # <<>>
      BY <1>1, AppendProperties DEF Texts
    <2>2. Append(t, <<key>>) \in Texts /\ Spell(Append(t, <<key>>)) = Spell(t) \o <<key>>
      BY <1>1, SpellAppend
    <2>3. Spell(t) \o <<key>> = Append(Spell(t), key)
      BY <1>1, AppendIsConcat
    <2> QED BY <1>2, <2>1, <2>2, <2>3
  <1>3. CASE t # <<>> /\ TypeKey(t, key) = [t EXCEPT ![Len(t)] = Append(@, key)]
    <2> DEFINE p == SubSeq(t, 1, Len(t) - 1)
               y == t[Len(t)]
               z == Append(y, key)
    <2>1. p \in Texts /\ y \in Seq(Keys) /\ t = Append(p, y) /\ Spell(t) = Spell(p) \o y
      BY <1>3, SpellLast
    <2>2. z \in Seq(Keys) /\ z = y \o <<key>>
      BY <2>1, AppendProperties, AppendIsConcat
    <2>3. TypeKey(t, key) = [t EXCEPT ![Len(t)] = z]
      BY <1>3
    <2> HIDE DEF z, p, y
    <2>4. TypeKey(t, key) = Append(p, z)
      <3>1. [Append(p, y) EXCEPT ![Len(Append(p, y))] = z] = Append(p, z)
        <4>1. p \in Seq(Seq(Keys))
          BY <2>1 DEF Texts
        <4> DEFINE S == Seq(Keys)
        <4>2. p \in Seq(S) /\ y \in S /\ z \in S
          BY <2>1, <2>2, <4>1
        <4> HIDE DEF S
        <4> QED BY <4>2, LastReplaced
      <3> QED BY <2>1, <2>3, <3>1
    <2>5. Spell(Append(p, z)) = Spell(p) \o z /\ Append(p, z) \in Texts
      BY <2>1, <2>2, SpellAppend
    <2>6. Append(p, z) # <<>>
      <3>1. p \in Seq(Seq(Keys))
        BY <2>1 DEF Texts
      <3> DEFINE S == Seq(Keys)
      <3>2. p \in Seq(S) /\ z \in S
        BY <2>2, <3>1
      <3> HIDE DEF S
      <3>3. Len(Append(p, z)) = Len(p) + 1 /\ Len(p) \in Nat
        BY <3>2, AppendProperties
      <3>4. Len(<<>>) = 0
        OBVIOUS
      <3> QED BY <3>3, <3>4
    <2>7. Spell(p) \in Seq(Keys)
      BY <2>1, SpellTyped
    <2>8. Spell(p) \o (y \o <<key>>) = (Spell(p) \o y) \o <<key>>
      BY <1>1, <2>1, <2>7, ConcatAssociative
    <2>9. Spell(t) \o <<key>> = Append(Spell(t), key)
      BY <1>1, AppendIsConcat
    <2> QED BY <2>1, <2>2, <2>4, <2>5, <2>6, <2>8, <2>9
  <1> QED BY <1>2, <1>3 DEF TypeKey

LEMMA SpellLetters ==
    ASSUME NEW keys \in Seq(Keys)
    PROVE  Letters(keys) \in Texts /\ Spell(Letters(keys)) = keys
  <1> DEFINE t == Letters(keys)
  <1>1. /\ Len(keys) \in Nat /\ DOMAIN keys = 1..Len(keys)
        /\ \A n \in 1..Len(keys) : keys[n] \in Keys
    OBVIOUS
  <1>2. t = [n \in 1..Len(keys) |-> <<keys[n]>>]
    BY <1>1 DEF Letters
  <1>3. t \in Texts /\ Len(t) = Len(keys) /\ \A n \in 1..Len(keys) : t[n] = <<keys[n]>>
    <2>1. t \in [1..Len(keys) -> Seq(Keys)]
      <3>1. \A n \in 1..Len(keys) : <<keys[n]>> \in Seq(Keys)
        BY <1>1
      <3> HIDE DEF t
      <3> QED BY <1>2, <3>1
    <2> HIDE DEF t
    <2> QED BY <1>1, <1>2, <2>1, LenProperties, SeqDef DEF Texts
  <1> HIDE DEF t
  <1>4. PICK f : Spells(f, t) /\ Spell(t) = f[Len(t)]
    BY <1>3, SpellIs
  <1> DEFINE T == {n \in 0..Len(keys) : f[n] = SubSeq(keys, 1, n)}
  <1>5. 0 \in T
    BY <1>1, <1>4 DEF Spells
  <1>6. ASSUME NEW n \in 1..Len(keys), n - 1 \in T PROVE n \in T
    <2>1. f[n] = SubSeq(keys, 1, n - 1) \o <<keys[n]>>
      BY <1>1, <1>3, <1>4, <1>6 DEF Spells
    <2>2. SubSeq(keys, 1, n - 1) \o <<keys[n]>> = SubSeq(keys, 1, n)
      BY <1>1
    <2> QED BY <2>1, <2>2
  <1> HIDE DEF T
  <1>7. 0..Len(keys) \subseteq T
    BY <1>1, <1>5, <1>6, UpTo
  <1>8. f[Len(keys)] = SubSeq(keys, 1, Len(keys)) /\ SubSeq(keys, 1, Len(keys)) = keys
    BY <1>1, <1>7 DEF T
  <1> QED BY <1>3, <1>4, <1>8 DEF t
-----------------------------------------------------------------------------
(***************************************************************************)
(* The order of keys: what a context holds was typed in it, and after      *)
(* everything the application has got.                                     *)
(***************************************************************************)
Rising(q) == \A m, n \in DOMAIN q : m < n => q[m].n < q[n].n

Fits(a, q, i, top) ==
    /\ a \in Seq(Keys) /\ q \in Seq(Keys)
    /\ Rising(a \o q) /\ \A n \in DOMAIN (a \o q) : (a \o q)[n].n <= top
    /\ \A n \in DOMAIN q : q[n].by = i

LEMMA FitsPrefix ==
    ASSUME NEW a, NEW p \in Seq(Keys), NEW x \in Seq(Keys), NEW i, NEW top,
           Fits(a, p \o x, i, top)
    PROVE  Fits(a, p, i, top)
  <1>1. a \in Seq(Keys)
    BY DEF Fits
  <1>2. a \o (p \o x) = (a \o p) \o x
    BY <1>1, ConcatAssociative
  <1> DEFINE b == a \o p
             c == b \o x
             y == p \o x
  <1>3. /\ b \in Seq(Keys) /\ c \in Seq(Keys) /\ y \in Seq(Keys)
        /\ Len(b) \in Nat /\ Len(x) \in Nat /\ Len(p) \in Nat
        /\ Len(c) = Len(b) + Len(x) /\ Len(y) = Len(p) + Len(x)
        /\ \A n \in 1..Len(b) : c[n] = b[n]
        /\ \A n \in 1..Len(p) : y[n] = p[n]
        /\ DOMAIN b = 1..Len(b) /\ DOMAIN c = 1..Len(c) /\ DOMAIN y = 1..Len(y)
        /\ DOMAIN p = 1..Len(p)
    BY <1>1
  <1>4. /\ \A m, n \in DOMAIN c : m < n => c[m].n < c[n].n
        /\ \A n \in DOMAIN c : c[n].n <= top
        /\ \A n \in DOMAIN y : y[n].by = i
    BY <1>2 DEF Fits, Rising
  <1> HIDE DEF b, c, y
  <1>5. 1..Len(b) \subseteq DOMAIN c /\ 1..Len(p) \subseteq DOMAIN y
    BY <1>3
  <1>6. /\ \A m, n \in DOMAIN b : m < n => b[m].n < b[n].n
        /\ \A n \in DOMAIN b : b[n].n <= top
        /\ \A n \in DOMAIN p : p[n].by = i
    BY <1>3, <1>4, <1>5
  <1> QED BY <1>1, <1>6 DEF Fits, Rising, b

\* The application has got what the context held.
LEMMA FitsNothing ==
    ASSUME NEW a, NEW q, NEW i, NEW j, NEW top, Fits(a, q, i, top)
    PROVE  Fits(a \o q, <<>>, j, top) /\ Fits(a, <<>>, j, top)
  <1>1. a \in Seq(Keys) /\ q \in Seq(Keys) /\ <<>> \in Seq(Keys)
    BY DEF Fits
  <1>2. Fits(a, <<>>, i, top)
    <2>1. <<>> \o q = q
      BY <1>1
    <2> QED BY <1>1, <2>1, FitsPrefix
  <1>3. a \o q \in Seq(Keys) /\ (a \o q) \o <<>> = a \o q /\ a \o <<>> = a
    BY <1>1
  <1> DEFINE b == a \o q
  <1>4. b \o <<>> = b /\ b \in Seq(Keys)
    BY <1>3
  <1>5. Rising(b) /\ \A n \in DOMAIN b : b[n].n <= top
    BY DEF Fits
  <1>6. Rising(a) /\ \A n \in DOMAIN a : a[n].n <= top
    BY <1>2, <1>3 DEF Fits
  <1> HIDE DEF b
  <1>7. \A n \in DOMAIN <<>> : <<>>[n].by = j
    OBVIOUS
  <1>8. Fits(b, <<>>, j, top)
    BY <1>1, <1>4, <1>5, <1>7 DEF Fits
  <1>9. Fits(a, <<>>, j, top)
    BY <1>1, <1>3, <1>6, <1>7 DEF Fits
  <1> QED BY <1>8, <1>9 DEF b

LEMMA FitsMore ==
    ASSUME NEW a, NEW q, NEW i, NEW top \in Nat, Fits(a, q, i, top)
    PROVE  Fits(a, q, i, top + 1)
  <1> DEFINE b == a \o q
  <1>1. \A n \in DOMAIN b : b[n] \in Keys /\ b[n].n <= top
    <2>1. a \in Seq(Keys) /\ q \in Seq(Keys)
      BY DEF Fits
    <2>2. b \in Seq(Keys)
      BY <2>1
    <2> QED BY <2>2 DEF Fits
  <1>2. \A n \in DOMAIN b : b[n].n <= top + 1
    <2> HIDE DEF b
    <2> QED BY <1>1 DEF Keys
  <1> QED BY <1>2 DEF Fits

\* The key just typed comes last.
LEMMA FitsAppend ==
    ASSUME NEW a, NEW q, NEW i, NEW top \in Nat, Fits(a, q, i, top),
           NEW key \in Keys, key.by = i, key.n = top + 1
    PROVE  Fits(a, Append(q, key), i, top + 1)
  <1>1. a \in Seq(Keys) /\ q \in Seq(Keys)
    BY DEF Fits
  <1> DEFINE b == a \o q
             y == Append(q, key)
             c == a \o y
  <1>2. y \in Seq(Keys) /\ Len(q) \in Nat /\ DOMAIN q = 1..Len(q) /\ DOMAIN y = 1..(Len(q) + 1)
        /\ y[Len(q) + 1] = key /\ \A n \in 1..Len(q) : y[n] = q[n]
    BY <1>1
  <1>3. b \in Seq(Keys) /\ Len(b) \in Nat /\ DOMAIN b = 1..Len(b)
    BY <1>1
  <1>4. c = Append(b, key)
    BY <1>1
  <1>5. /\ \A m, n \in DOMAIN b : m < n => b[m].n < b[n].n
        /\ \A n \in DOMAIN b : b[n] \in Keys /\ b[n].n <= top
        /\ \A n \in DOMAIN q : q[n].by = i
    <2>1. Fits(a, q, i, top)
      OBVIOUS
    <2>2. Rising(b) /\ \A n \in DOMAIN b : b[n].n <= top
      BY <2>1, Zenon DEF Fits
    <2>3. \A n \in DOMAIN q : q[n].by = i
      BY <2>1, Zenon DEF Fits
    <2> HIDE DEF b
    <2>4. \A m, n \in DOMAIN b : m < n => b[m].n < b[n].n
      BY <2>2 DEF Rising
    <2>5. \A n \in DOMAIN b : b[n] \in Keys
      BY <1>3
    <2> QED BY <2>2, <2>3, <2>4, <2>5
  <1> HIDE DEF b, y, c
  <1>6. DOMAIN c = 1..(Len(b) + 1) /\ c[Len(b) + 1] = key /\ \A n \in 1..Len(b) : c[n] = b[n]
    BY <1>3, <1>4
  <1>7. \A n \in DOMAIN y : y[n].by = i
    BY <1>2, <1>5
  <1>8. \A n \in DOMAIN c : c[n].n <= top + 1
    BY <1>3, <1>5, <1>6 DEF Keys
  <1>9. ASSUME NEW m \in DOMAIN c, NEW n \in DOMAIN c, m < n PROVE c[m].n < c[n].n
    <2>1. m \in 1..Len(b) /\ (n = Len(b) + 1 \/ n \in 1..Len(b))
      BY <1>3, <1>6, <1>9
    <2> QED BY <1>3, <1>5, <1>6, <1>9, <2>1 DEF Keys
  <1> QED BY <1>1, <1>2, <1>7, <1>8, <1>9 DEF Fits, Rising, c, y
-----------------------------------------------------------------------------
(***************************************************************************)
(* The requests.                                                           *)
(***************************************************************************)
Comps  == [open : BOOLEAN, text : Texts]
Worlds == [link : {"none", "up", "dead"}, comp : Comps, clean : BOOLEAN]

Whole(comp) == comp \in Comps /\ (comp.open \/ comp = NoComposition)

\* No composition without a daemon, no daemon lost without a trace.
Sound(w) == /\ w \in Worlds /\ Whole(w.comp)
            /\ w.link # "up" => w.comp = NoComposition
            /\ w.link = "dead" => ~w.clean

LEMMA NothingIsWhole == Whole(NoComposition) /\ ~NoComposition.open /\ NoComposition.text = <<>>
  BY SpellNothing DEF Whole, Comps, NoComposition

LEMMA SoundLost ==
    ASSUME NEW link \in {"none", "dead"}
    PROVE  /\ Sound(Lost(link)) /\ ~Lost(link).clean /\ Lost(link).comp = NoComposition
           /\ Lost(link).link = link
  BY NothingIsWhole DEF Sound, Lost, Worlds, Whole

\* The composition, if it can be told apart from none, is of a daemon that is there.
LEMMA SoundConnect ==
    ASSUME NEW w \in Worlds, Whole(w.comp), NEW v \in connect(w)
    PROVE  /\ Sound(v) /\ v.link \in {"none", "up"} /\ (v.clean => w.clean)
           /\ v.link = "up" => v.comp = w.comp
           /\ v.link = "none" => v.comp = NoComposition /\ ~v.clean
           /\ v.comp \in {w.comp, NoComposition}
           /\ v.clean => v.comp = w.comp
  <1>1. CASE v = [w EXCEPT !.link = "up"]
    BY <1>1 DEF Sound, Worlds
  <1>2. CASE v = Lost("none")
    BY <1>2, SoundLost
  <1> QED BY <1>1, <1>2 DEF connect

LEMMA SoundDial ==
    ASSUME NEW w, Sound(w), NEW v \in Dial(w)
    PROVE  Sound(v) /\ (v.clean => w.clean) /\ v.comp = w.comp /\ (v.link = "none" => ~v.clean)
  <1>1. CASE w.link = "none"
    <2>1. v \in connect(w) /\ w.comp = NoComposition /\ w \in Worlds /\ Whole(w.comp)
      BY <1>1 DEF Dial, Sound
    <2> QED BY <2>1, SoundConnect
  <1>2. CASE w.link # "none"
    BY <1>2 DEF Dial
  <1> QED BY <1>1, <1>2

\* What a request leaves, answered or not.
Replied(r, w, op, a) ==
    /\ Sound(r.w) /\ r.ok \in BOOLEAN
    /\ r.w.clean => w.clean
    /\ r.ok => r.w.comp = a.comp /\ r.text = a.text
    /\ ~r.ok => r.w.comp = NoComposition \/ (op = "list" /\ r.w.comp = w.comp)
    /\ ~r.ok /\ r.w.clean => op = "convert" /\ r.w.comp = w.comp

LEMMA RequestReplied ==
    ASSUME NEW w, Sound(w), NEW op, NEW key,
           Whole(Answered(w.comp, op, key).comp), NEW r \in Request(w, op, key)
    PROVE  Replied(r, w, op, Answered(w.comp, op, key))
  <1> DEFINE a == Answered(w.comp, op, key)
  <1>1. PICK v \in Dial(w) :
            r \in IF v.link # "up" THEN {Failed(v)}
                  ELSE (IF op = "convert" /\ ~v.comp.open THEN {Failed(v)}
                        ELSE {[w |-> [v EXCEPT !.comp = Answered(v.comp, op, key).comp],
                               ok |-> TRUE, text |-> Answered(v.comp, op, key).text]})
                       \cup (IF "err" \in Faults
                             THEN {Failed([v EXCEPT !.clean = FALSE,
                                           !.comp = IF op = "list" THEN @ ELSE NoComposition])}
                             ELSE {})
                       \cup (IF "drop" \in Faults THEN {Failed(Lost("dead"))} ELSE {})
    BY DEF Request
  <1>2. /\ Sound(v) /\ (v.clean => w.clean) /\ v.comp = w.comp /\ (v.link = "none" => ~v.clean)
        /\ v \in Worlds /\ v.link \in {"none", "up", "dead"}
    BY SoundDial DEF Sound, Worlds
  <1>3. CASE r = Failed(v) /\ v.link # "up"
    BY <1>2, <1>3 DEF Failed, Sound, Replied
  <1>4. CASE r = Failed(v) /\ v.link = "up" /\ op = "convert" /\ ~v.comp.open
    BY <1>2, <1>4 DEF Failed, Sound, Replied, Whole
  <1>5. CASE v.link = "up" /\ r = [w |-> [v EXCEPT !.comp = a.comp], ok |-> TRUE, text |-> a.text]
    <2>1. Whole(a.comp)
      OBVIOUS
    <2> HIDE DEF a
    <2>2. Sound([v EXCEPT !.comp = a.comp])
      BY <1>2, <1>5, <2>1 DEF Sound, Whole, Worlds
    <2>3. [v EXCEPT !.comp = a.comp].comp = a.comp /\ [v EXCEPT !.comp = a.comp].clean = v.clean
      BY <1>2 DEF Worlds
    <2>4. Replied(r, w, op, a)
      BY <1>2, <1>5, <2>2, <2>3 DEF Replied
    <2> QED BY <2>4 DEF a
  <1>6. CASE /\ v.link = "up"
             /\ r = Failed([v EXCEPT !.clean = FALSE,
                                     !.comp = IF op = "list" THEN @ ELSE NoComposition])
    <2> DEFINE u == [v EXCEPT !.clean = FALSE, !.comp = IF op = "list" THEN @ ELSE NoComposition]
    <2>1. /\ u \in Worlds /\ u.link = "up" /\ ~u.clean
          /\ u.comp = IF op = "list" THEN v.comp ELSE NoComposition
      BY <1>2, <1>6, NothingIsWhole DEF Worlds, Whole
    <2>2. r = Failed(u)
      BY <1>6
    <2> HIDE DEF u
    <2>3. Sound(u)
      BY <1>2, <2>1, NothingIsWhole DEF Sound
    <2> QED BY <1>2, <2>1, <2>2, <2>3 DEF Replied, Failed
  <1>7. CASE r = Failed(Lost("dead"))
    BY <1>7, SoundLost DEF Failed, Replied
  <1>8. CASE v.link # "up"
    BY <1>1, <1>3, <1>8
  <1>9. CASE v.link = "up"
    BY <1>1, <1>2, <1>4, <1>5, <1>6, <1>7, <1>9
  <1> QED BY <1>8, <1>9

\* What each request makes of a composition that is whole.
Composing(t) == [open |-> TRUE, text |-> t]
Reply(c, t)  == [comp |-> c, text |-> t]

LEMMA AnsweredAs ==
    ASSUME NEW c, Whole(c), NEW key
    PROVE  /\ Answered(c, "begin", key) = Reply(Composing(<<>>), <<>>)
           /\ Answered(c, "key", key) = Reply(Composing(TypeKey(c.text, key)), TypeKey(c.text, key))
           /\ c.text # <<>> =>
                  Answered(c, "back", key) = Reply(Composing(SubSeq(c.text, 1, Len(c.text) - 1)),
                                                   SubSeq(c.text, 1, Len(c.text) - 1))
           /\ c.text = <<>> => Answered(c, "back", key) = Reply(c, <<>>)
           /\ Answered(c, "commit", key) = Reply(NoComposition, c.text)
           /\ Answered(c, "cancel", key) = Reply(NoComposition, <<>>)
           /\ Answered(c, "convert", key) = Reply(c, c.text)
           /\ Answered(c, "list", key) = Reply(c, c.text)
  <1>1. c = [open |-> c.open, text |-> c.text]
    BY DEF Whole, Comps
  <1> QED BY <1>1 DEF Answered, NoComposition, Reply, Composing

LEMMA ReplyIs ==
    ASSUME NEW c, NEW t
    PROVE  Reply(c, t).comp = c /\ Reply(c, t).text = t
  BY DEF Reply

LEMMA WholeText ==
    ASSUME NEW t \in Texts
    PROVE  Whole(Composing(t))
  BY DEF Whole, Comps, Composing

\* A request that is made again on a new connection may find no composition there.
LEMMA AgainReplied ==
    ASSUME NEW w, Sound(w), NEW op \in {"begin", "list"}, NEW r \in WithReconnect(w, op)
    PROVE  /\ Sound(r.w) /\ r.ok \in BOOLEAN /\ (r.w.clean => w.clean)
           /\ r.ok /\ op = "begin" => r.w.comp = Composing(<<>>)
           /\ ~r.ok => ~r.w.clean
           /\ ~r.ok /\ op = "begin" => r.w.comp = NoComposition
           /\ op = "list" => r.w.comp \in {w.comp, NoComposition} /\ (r.w.clean => r.w.comp = w.comp)
  <1> DEFINE first == Request(w, op, NoKey)
             again == UNION {connect([q.w EXCEPT !.link = "none"]) : q \in {q \in first : ~q.ok}}
  <1>0. ASSUME NEW u, Sound(u) PROVE Whole(Answered(u.comp, op, NoKey).comp)
    <2>1. Whole(u.comp)
      BY <1>0 DEF Sound
    <2>2. Answered(u.comp, "begin", NoKey) = Reply(Composing(<<>>), <<>>)
          /\ Answered(u.comp, "list", NoKey) = Reply(u.comp, u.comp.text)
      BY <2>1, AnsweredAs, Zenon
    <2>3. Answered(u.comp, op, NoKey).comp \in {Composing(<<>>), u.comp}
      BY <2>2, ReplyIs
    <2> QED BY <2>1, <2>3, WholeText, SpellNothing
  <1>1. ASSUME NEW u, Sound(u), NEW q \in Request(u, op, NoKey)
        PROVE  /\ Replied(q, u, op, Answered(u.comp, op, NoKey)) /\ (~q.ok => ~q.w.clean)
               /\ q.ok /\ op = "begin" => q.w.comp = Composing(<<>>)
               /\ op = "list" => q.w.comp \in {u.comp, NoComposition}
               /\ ~q.ok /\ op = "begin" => q.w.comp = NoComposition
               /\ op = "list" /\ q.w.clean => q.w.comp = u.comp
    <2>1. Replied(q, u, op, Answered(u.comp, op, NoKey))
      BY <1>0, <1>1, RequestReplied
    <2>2. Whole(u.comp)
      BY <1>1 DEF Sound
    <2>3. Answered(u.comp, "begin", NoKey) = Reply(Composing(<<>>), <<>>)
          /\ Answered(u.comp, "list", NoKey) = Reply(u.comp, u.comp.text)
      BY <2>2, AnsweredAs, Zenon
    <2>4. op = "begin" => Answered(u.comp, op, NoKey).comp = Composing(<<>>)
      BY <2>3, ReplyIs
    <2>5. op = "list" => Answered(u.comp, op, NoKey).comp = u.comp
      BY <2>3, ReplyIs
    <2> QED BY <2>1, <2>4, <2>5 DEF Replied
  <1>2. ASSUME NEW v \in again
        PROVE  /\ Sound(v) /\ ~v.clean
               /\ op = "begin" \/ v.link # "up" => v.comp = NoComposition
               /\ v.comp \in {w.comp, NoComposition}
    <2>1. PICK q \in {q \in first : ~q.ok} : v \in connect([q.w EXCEPT !.link = "none"])
      OBVIOUS
    <2>2. Sound(q.w) /\ ~q.w.clean /\ q.w.comp \in {w.comp, NoComposition}
          /\ (op = "begin" => q.w.comp = NoComposition)
      BY <1>1, <2>1 DEF Replied
    <2> DEFINE u == [q.w EXCEPT !.link = "none"]
    <2>3. u \in Worlds /\ Whole(u.comp) /\ u.comp = q.w.comp /\ ~u.clean
      BY <2>2 DEF Sound, Worlds
    <2>4. v \in connect(u)
      BY <2>1
    <2> HIDE DEF u
    <2> QED BY <2>2, <2>3, <2>4, SoundConnect
  <1>3. CASE r \in {q \in first : q.ok}
    BY <1>1, <1>3 DEF Replied
  <1>4. CASE \E v \in {u \in again : u.link = "none"} : r = Failed(v)
    <2>1. PICK v \in {u \in again : u.link = "none"} : r = Failed(v)
      BY <1>4
    <2> QED BY <1>2, <2>1 DEF Failed
  <1>5. CASE \E v \in {u \in again : u.link = "up"} : r \in Request(v, op, NoKey)
    <2>1. PICK v \in {u \in again : u.link = "up"} : r \in Request(v, op, NoKey)
      BY <1>5
    <2>2. Sound(v) /\ ~v.clean /\ v.comp \in {w.comp, NoComposition}
      BY <1>2, <2>1
    <2>3. Sound(r.w) /\ r.ok \in BOOLEAN /\ ~r.w.clean
      BY <1>1, <2>1, <2>2 DEF Replied
    <2> QED BY <1>1, <2>1, <2>2, <2>3
  <1> HIDE DEF first, again
  <1>6. \/ r \in {q \in first : q.ok}
        \/ \E v \in {u \in again : u.link = "none"} : r = Failed(v)
        \/ \E v \in {u \in again : u.link = "up"} : r \in Request(v, op, NoKey)
    BY DEF WithReconnect, first, again
  <1> QED BY <1>3, <1>4, <1>5, <1>6
-----------------------------------------------------------------------------
(***************************************************************************)
(* What each handler keeps true of the context it works for.               *)
(***************************************************************************)
States == [romaji : Seq(Keys), preedit : Texts, composing : BOOLEAN,
           list : Seq(Keys), shown : Seq(Keys)]

\* The context knows of the daemon's composition, and what the daemon has in it.
Mirrors(w, s) == /\ w.comp.open => s.composing
                 /\ w.comp.text # <<>> => s.preedit = w.comp.text
                 /\ w.clean /\ s.composing => s.preedit = w.comp.text

\* What is displayed, and nothing outside a composition.
Panel(s) == /\ s \in States
            /\ ~s.composing => s = Fresh
            /\ s.list \in {<<>>, s.romaji}
            /\ s.shown = IF s.list # <<>> THEN s.list ELSE View(s)

Ordered(i, a, top, s) == Fits(a, s.romaji, i, top) /\ Fits(a, Spell(s.preedit), i, top)

Sane(i, a, top, w, s) == Sound(w) /\ Mirrors(w, s) /\ Panel(s) /\ Ordered(i, a, top, s)

\* An outcome of a handler: nothing is committed, or what was displayed.
Kept(i, a, top, s, o) == /\ o.out \in {<<>>, s.shown}
                         /\ Sane(i, a \o o.out, top, o.w, o.s)

LEMMA FreshIs ==
    /\ Fresh.romaji = <<>> /\ Fresh.preedit = <<>> /\ ~Fresh.composing
    /\ Fresh.list = <<>> /\ Fresh.shown = <<>>
    /\ Fresh \in States /\ View(Fresh) = <<>>
  BY SpellNothing DEF Fresh, States, View

LEMMA FreshSane ==
    ASSUME NEW w, Sound(w), w.comp = NoComposition,
           NEW a, NEW q, NEW i, NEW top, Fits(a, q, i, top), NEW j
    PROVE  Sane(j, a \o q, top, w, Fresh) /\ Sane(j, a, top, w, Fresh)
  <1>1. Fits(a \o q, <<>>, j, top) /\ Fits(a, <<>>, j, top)
    BY FitsNothing
  <1>2. Panel(Fresh) /\ Mirrors(w, Fresh)
    BY FreshIs, NothingIsWhole DEF Panel, Mirrors
  <1> QED BY <1>1, <1>2, FreshIs, SpellNothing DEF Sane, Ordered

LEMMA ViewFits ==
    ASSUME NEW i, NEW a, NEW top, NEW s, Ordered(i, a, top, s)
    PROVE  Fits(a, View(s), i, top)
  BY DEF Ordered, View

LEMMA ShownFits ==
    ASSUME NEW i, NEW a, NEW top, NEW s, Panel(s), Ordered(i, a, top, s)
    PROVE  Fits(a, s.shown, i, top) /\ Fits(a, s.list, i, top)
  <1>1. Fits(a, <<>>, i, top)
    BY FitsNothing DEF Ordered
  <1> QED BY <1>1, ViewFits DEF Ordered, Panel

LEMMA CancelledIdle ==
    ASSUME NEW w, Sound(w), NEW s, w.comp.open => s.composing, NEW v \in Cancelled(w, s)
    PROVE  Sound(v) /\ v.comp = NoComposition
  <1>1. CASE s.composing
    <2>1. PICK r \in Request(w, "cancel", NoKey) : v = r.w
      BY <1>1 DEF Cancelled
    <2>2. Whole(w.comp)
      BY DEF Sound
    <2>3. Answered(w.comp, "cancel", NoKey) = Reply(NoComposition, <<>>)
      BY <2>2, AnsweredAs, Zenon
    <2>4. Answered(w.comp, "cancel", NoKey).comp = NoComposition
      BY <2>3, ReplyIs
    <2>5. Replied(r, w, "cancel", Answered(w.comp, "cancel", NoKey))
      BY <2>1, <2>4, NothingIsWhole, RequestReplied
    <2> QED BY <2>1, <2>4, <2>5 DEF Replied
  <1>2. CASE ~s.composing
    BY <1>2 DEF Cancelled, Sound, Whole
  <1> QED BY <1>1, <1>2

LEMMA ClearKept ==
    ASSUME NEW w, Sound(w), NEW s, w.comp.open => s.composing, NEW o \in clearSession(w, s),
           NEW a, NEW q, NEW i, NEW top, Fits(a, q, i, top), NEW j
    PROVE  o.out = <<>> /\ o.s = Fresh /\ Sane(j, a, top, o.w, Fresh)
  <1>1. PICK v \in Cancelled(w, s) : o = Outcome(v, Fresh, <<>>)
    BY DEF clearSession
  <1>2. Sound(v) /\ v.comp = NoComposition
    BY CancelledIdle
  <1>3. Sane(j, a, top, v, Fresh)
    BY <1>2, FreshSane
  <1> QED BY <1>1, <1>3 DEF Outcome

LEMMA CommitKept ==
    ASSUME NEW w, Sound(w), NEW s, w.comp.open => s.composing, NEW keys,
           NEW o \in commit(w, s, keys),
           NEW a, NEW i, NEW top, Fits(a, keys, i, top)
    PROVE  o.out = keys /\ Sane(i, a \o o.out, top, o.w, o.s)
  <1>1. PICK v \in Cancelled(w, s) : o = Outcome(v, Fresh, keys)
    BY DEF commit
  <1>2. Sound(v) /\ v.comp = NoComposition
    BY CancelledIdle
  <1>3. Sane(i, a \o keys, top, v, Fresh)
    BY <1>2, FreshSane
  <1> QED BY <1>1, <1>3 DEF Outcome

LEMMA SilentKept ==
    ASSUME NEW w, NEW s, NEW t, NEW i, NEW a \in Seq(Keys), NEW top,
           NEW o, o = Outcome(w, t, <<>>), Sane(i, a, top, w, t)
    PROVE  Kept(i, a, top, s, o)
  <1>1. a \o <<>> = a
    OBVIOUS
  <1> QED BY <1>1 DEF Kept, Outcome

\* What is edited is shown.
LEMMA RefreshedSane ==
    ASSUME NEW w, Sound(w), NEW s \in States, s.composing, s.list = <<>>, Mirrors(w, s),
           NEW i, NEW a, NEW top, Ordered(i, a, top, s)
    PROVE  Sane(i, a, top, w, Refreshed(s))
  <1> DEFINE t == Refreshed(s)
  <1>1. Spell(s.preedit) \in Seq(Keys) /\ View(s) \in Seq(Keys)
    BY SpellTyped DEF States, View
  <1>2. /\ t \in States /\ t.composing /\ t.list = <<>> /\ t.romaji = s.romaji
        /\ t.preedit = s.preedit /\ t.shown = View(s)
    BY <1>1 DEF Refreshed, States
  <1> HIDE DEF t
  <1>3. View(t) = View(s)
    BY <1>2 DEF View
  <1>4. Panel(t)
    BY <1>2, <1>3 DEF Panel
  <1>5. Mirrors(w, t) /\ Ordered(i, a, top, t)
    BY <1>2 DEF Mirrors, Ordered
  <1> QED BY <1>4, <1>5 DEF Sane, t

LEMMA EnsureKept ==
    ASSUME NEW w, NEW s, NEW i, NEW a, NEW top, Sane(i, a, top, w, s),
           NEW e \in ensureComposing(w, s)
    PROVE  /\ e.ok \in BOOLEAN
           /\ ~e.ok => Sane(i, a, top, e.w, s)
           /\ e.ok => e.s.composing /\ Sane(i, a, top, e.w, e.s)
  <1>1. CASE s.composing
    <2>1. e = [w |-> w, ok |-> TRUE, s |-> s]
      BY <1>1 DEF ensureComposing
    <2>2. e.ok = TRUE /\ e.w = w /\ e.s = s
      BY <2>1
    <2> QED BY <1>1, <2>2
  <1>2. CASE ~s.composing
    <2>1. s = Fresh /\ Sound(w) /\ w.comp = NoComposition /\ Fits(a, <<>>, i, top)
      BY <1>2, FreshIs DEF Sane, Panel, Mirrors, Sound, Whole, Ordered
    <2>2. PICK v \in Dial(w) :
              \E r \in IF v.link = "none" THEN {Failed(v)} ELSE WithReconnect(v, "begin") :
                  e = [w |-> r.w, ok |-> r.ok, s |-> [s EXCEPT !.composing = TRUE, !.preedit = <<>>]]
      BY <1>2 DEF ensureComposing
    <2>3. PICK r \in IF v.link = "none" THEN {Failed(v)} ELSE WithReconnect(v, "begin") :
                  e = [w |-> r.w, ok |-> r.ok, s |-> [s EXCEPT !.composing = TRUE, !.preedit = <<>>]]
      BY <2>2
    <2>4. Sound(v) /\ v.comp = NoComposition
      BY <2>1, SoundDial
    <2>5. /\ Sound(r.w) /\ r.ok \in BOOLEAN
          /\ r.ok => r.w.comp = Composing(<<>>)
          /\ ~r.ok => r.w.comp = NoComposition
      <3>1. CASE v.link = "none"
        <4>1. r = Failed(v)
          BY <2>3, <3>1
        <4>2. r.w = v /\ r.ok = FALSE
          BY <4>1 DEF Failed
        <4> QED BY <2>4, <4>2
      <3>2. CASE v.link # "none"
        <4>1. r \in WithReconnect(v, "begin")
          BY <2>3, <3>2
        <4> QED BY <2>4, <4>1, AgainReplied
      <3> QED BY <3>1, <3>2
    <2> DEFINE t == [s EXCEPT !.composing = TRUE, !.preedit = <<>>]
    <2>6. e.w = r.w /\ e.ok = r.ok /\ e.s = t
      BY <2>3
    <2>7. /\ t \in States /\ t.composing /\ t.list = <<>> /\ t.romaji = <<>> /\ t.preedit = <<>>
          /\ t.shown = <<>>
      <3>1. t = [Fresh EXCEPT !.composing = TRUE, !.preedit = <<>>]
        BY <2>1
      <3>2. Fresh \in States /\ <<>> \in Texts
        BY FreshIs, SpellNothing
      <3> QED BY <3>1, <3>2, FreshIs DEF States
    <2> HIDE DEF t
    <2>8. Panel(t) /\ Ordered(i, a, top, t)
      BY <2>1, <2>7, SpellNothing DEF Panel, View, Ordered
    <2>9. CASE r.ok
      <3>1. Mirrors(r.w, t)
        BY <2>5, <2>7, <2>9 DEF Mirrors, Composing
      <3> QED BY <2>5, <2>6, <2>7, <2>8, <2>9, <3>1 DEF Sane
    <2>10. CASE ~r.ok
      BY <2>1, <2>5, <2>6, <2>10, FreshSane
    <2> QED BY <2>5, <2>9, <2>10
  <1> QED BY <1>1, <1>2

LEMMA LetterKept ==
    ASSUME NEW w, NEW s, NEW i, NEW a, NEW top \in Nat, Sane(i, a, top, w, s),
           NEW key \in Keys, key.by = i, key.n = top + 1,
           NEW o \in Letter(w, s, key)
    PROVE  Kept(i, a, top + 1, s, o)
  <1>0. a \in Seq(Keys)
    BY DEF Sane, Ordered, Fits
  <1>1. PICK e \in ensureComposing(w, s) :
            IF ~e.ok THEN o = Outcome(e.w, s, <<>>)
            ELSE \E r \in Request(e.w, "key", key) :
                     o = Outcome(r.w,
                                 Refreshed([e.s EXCEPT
                                     !.preedit = IF r.ok THEN r.text ELSE Append(@, <<key>>),
                                     !.romaji = Append(@, key),
                                     !.list = <<>>]), <<>>)
    BY DEF Letter
  <1>2. /\ e.ok \in BOOLEAN
        /\ ~e.ok => Sane(i, a, top, e.w, s)
        /\ e.ok => e.s.composing /\ Sane(i, a, top, e.w, e.s)
    BY EnsureKept
  <1>3. CASE ~e.ok
    <2>1. Sane(i, a, top + 1, e.w, s)
      BY <1>2, <1>3, FitsMore DEF Sane, Ordered
    <2> QED BY <1>0, <1>1, <1>3, <2>1, SilentKept
  <1>4. CASE e.ok
    <2>1. PICK r \in Request(e.w, "key", key) :
              o = Outcome(r.w,
                          Refreshed([e.s EXCEPT
                              !.preedit = IF r.ok THEN r.text ELSE Append(@, <<key>>),
                              !.romaji = Append(@, key),
                              !.list = <<>>]), <<>>)
      BY <1>1, <1>4
    <2>2. /\ e.s \in States /\ e.s.composing /\ Sound(e.w) /\ Mirrors(e.w, e.s)
          /\ Fits(a, e.s.romaji, i, top) /\ Fits(a, Spell(e.s.preedit), i, top)
          /\ e.s.preedit \in Texts /\ e.s.romaji \in Seq(Keys)
          /\ Whole(e.w.comp) /\ e.w.comp.text \in Texts
      BY <1>2, <1>4 DEF Sane, Panel, Ordered, States, Sound, Whole, Comps
    <2> DEFINE typedText == TypeKey(e.w.comp.text, key)
    <2>3. typedText \in Texts /\ typedText # <<>> /\ Spell(typedText) = Append(Spell(e.w.comp.text), key)
      BY <2>2, SpellTypeKey
    <2>4. Answered(e.w.comp, "key", key) = Reply(Composing(typedText), typedText)
      BY <2>2, AnsweredAs, Zenon
    <2> HIDE DEF typedText
    <2>5. Answered(e.w.comp, "key", key).comp = Composing(typedText)
          /\ Answered(e.w.comp, "key", key).text = typedText
      BY <2>4, ReplyIs
    <2>6. Replied(r, e.w, "key", Answered(e.w.comp, "key", key))
      BY <2>1, <2>2, <2>3, <2>5, WholeText, RequestReplied
    <2>7. /\ Sound(r.w) /\ r.ok \in BOOLEAN
          /\ r.ok => r.w.comp = Composing(typedText) /\ r.text = typedText /\ (r.w.clean => e.w.clean)
          /\ ~r.ok => r.w.comp = NoComposition /\ ~r.w.clean
      BY <2>5, <2>6 DEF Replied
    <2>8. Fits(a, Append(e.s.romaji, key), i, top + 1)
      BY <2>2, FitsAppend
    <2> DEFINE p == IF r.ok THEN r.text ELSE Append(e.s.preedit, <<key>>)
               t == [e.s EXCEPT !.preedit = p, !.romaji = Append(@, key), !.list = <<>>]
    <2>9. p \in Texts /\ Fits(a, Spell(p), i, top + 1)
      <3>1. CASE r.ok /\ e.w.comp.text = <<>>
        <4>1. Fits(a, <<>>, i, top)
          BY <2>2, FitsNothing
        <4>2. Fits(a, Append(<<>>, key), i, top + 1)
          BY <4>1, FitsAppend
        <4>3. Spell(typedText) = Append(<<>>, key)
          BY <2>3, <3>1, SpellNothing
        <4> QED BY <2>3, <2>7, <3>1, <4>2, <4>3
      <3>2. CASE r.ok /\ e.w.comp.text # <<>>
        <4>1. e.s.preedit = e.w.comp.text
          BY <2>2, <3>2 DEF Mirrors
        <4>2. Fits(a, Append(Spell(e.s.preedit), key), i, top + 1)
          BY <2>2, FitsAppend
        <4> QED BY <2>3, <2>7, <3>2, <4>1, <4>2
      <3>3. CASE ~r.ok
        <4>1. <<key>> \in Seq(Keys) /\ Spell(e.s.preedit) \in Seq(Keys)
          BY <2>2, SpellTyped
        <4>2. p \in Texts /\ Spell(p) = Spell(e.s.preedit) \o <<key>>
          BY <2>2, <3>3, <4>1, SpellAppend
        <4>3. Spell(e.s.preedit) \o <<key>> = Append(Spell(e.s.preedit), key)
          BY <4>1, AppendIsConcat
        <4>4. Fits(a, Append(Spell(e.s.preedit), key), i, top + 1)
          BY <2>2, FitsAppend
        <4> QED BY <4>2, <4>3, <4>4
      <3> QED BY <2>7, <3>1, <3>2, <3>3
    <2>10. o = Outcome(r.w, Refreshed(t), <<>>)
      BY <2>1
    <2>11. p = typedText \/ ~r.ok
      BY <2>7
    <2> HIDE DEF p
    <2>12. /\ t \in States /\ t.composing /\ t.list = <<>>
           /\ t.preedit = p /\ t.romaji = Append(e.s.romaji, key)
      <3>1. Append(e.s.romaji, key) \in Seq(Keys) /\ <<>> \in Seq(Keys)
        BY <2>2, AppendProperties
      <3>2. t = [e.s EXCEPT !.preedit = p, !.romaji = Append(e.s.romaji, key), !.list = <<>>]
        BY <2>2 DEF States
      <3> QED BY <2>2, <2>9, <3>1, <3>2 DEF States
    <2> HIDE DEF t
    <2>13. Mirrors(r.w, t)
      BY <2>7, <2>11, <2>12, NothingIsWhole DEF Mirrors, Composing
    <2>14. Ordered(i, a, top + 1, t)
      BY <2>8, <2>9, <2>12 DEF Ordered
    <2>15. Sane(i, a, top + 1, r.w, Refreshed(t))
      BY <2>7, <2>12, <2>13, <2>14, RefreshedSane
    <2> QED BY <1>0, <2>10, <2>15, SilentKept
  <1> QED BY <1>2, <1>3, <1>4

LEMMA SaneParts ==
    ASSUME NEW w, NEW s, NEW i, NEW a, NEW top, Sane(i, a, top, w, s)
    PROVE  /\ Sound(w) /\ Whole(w.comp) /\ w.comp.text \in Texts /\ Mirrors(w, s) /\ Panel(s)
           /\ s \in States /\ s.preedit \in Texts /\ s.romaji \in Seq(Keys)
           /\ a \in Seq(Keys) /\ Ordered(i, a, top, s)
           /\ s.composing \in BOOLEAN /\ (w.comp.open => s.composing)
           /\ Fits(a, s.romaji, i, top) /\ Fits(a, Spell(s.preedit), i, top) /\ Fits(a, <<>>, i, top)
  <1>1. Fits(a, <<>>, i, top)
    BY FitsNothing DEF Sane, Ordered
  <1> QED BY <1>1 DEF Sane, Sound, Whole, Comps, Mirrors, Panel, States, Ordered, Fits

LEMMA StartKept ==
    ASSUME NEW w, NEW s, NEW i, NEW a, NEW top, Sane(i, a, top, w, s),
           NEW o \in startConversion(w, s)
    PROVE  Kept(i, a, top, s, o)
  <1>1. PICK r \in WithReconnect(w, "list") :
            \/ o = Outcome(r.w, s, <<>>)
            \/ s.romaji # <<>> /\ o = Outcome(r.w, [s EXCEPT !.list = s.romaji, !.shown = s.romaji], <<>>)
    BY DEF startConversion
  <1>2. /\ Sound(w) /\ Whole(w.comp) /\ Mirrors(w, s) /\ Panel(s) /\ Ordered(i, a, top, s)
        /\ a \in Seq(Keys) /\ s \in States /\ s.romaji \in Seq(Keys)
    BY SaneParts
  <1>3. /\ Sound(r.w) /\ (r.w.clean => w.clean) /\ r.w.comp \in {w.comp, NoComposition}
        /\ r.w.clean => r.w.comp = w.comp
    BY <1>2, AgainReplied
  <1>4. Mirrors(r.w, s)
    BY <1>2, <1>3, NothingIsWhole DEF Mirrors
  <1>5. CASE o = Outcome(r.w, s, <<>>)
    <2>1. Sane(i, a, top, r.w, s)
      BY <1>2, <1>3, <1>4 DEF Sane
    <2> QED BY <1>2, <1>5, <2>1, SilentKept
  <1>6. CASE s.romaji # <<>> /\ o = Outcome(r.w, [s EXCEPT !.list = s.romaji, !.shown = s.romaji], <<>>)
    <2> DEFINE t == [s EXCEPT !.list = s.romaji, !.shown = s.romaji]
    <2>1. /\ t \in States /\ t.list = s.romaji /\ t.shown = s.romaji /\ t.romaji = s.romaji
          /\ t.preedit = s.preedit /\ t.composing = s.composing
      BY <1>2 DEF States
    <2>2. o = Outcome(r.w, t, <<>>)
      BY <1>6
    <2> HIDE DEF t
    <2>3. s.composing
      BY <1>2, <1>6, FreshIs DEF Panel
    <2>4. Panel(t) /\ Mirrors(r.w, t) /\ Ordered(i, a, top, t)
      BY <1>2, <1>4, <1>6, <2>1, <2>3 DEF Panel, Mirrors, Ordered
    <2>5. Sane(i, a, top, r.w, t)
      BY <1>3, <2>4 DEF Sane
    <2> QED BY <1>2, <2>2, <2>5, SilentKept
  <1> QED BY <1>1, <1>5, <1>6

LEMMA SpaceKept ==
    ASSUME NEW w, NEW s, NEW i, NEW a, NEW top, Sane(i, a, top, w, s),
           s.composing, s.list = <<>>, NEW o \in Space(w, s)
    PROVE  Kept(i, a, top, s, o)
  <1>1. PICK r \in Request(w, "convert", NoKey) :
            IF r.ok THEN o = Outcome(r.w, Refreshed([s EXCEPT !.preedit = r.text]), <<>>)
            ELSE o \in startConversion(r.w, s)
    BY DEF Space
  <1>2. /\ Sound(w) /\ Whole(w.comp) /\ w.comp.text \in Texts /\ Mirrors(w, s) /\ Panel(s)
        /\ a \in Seq(Keys) /\ s \in States /\ Ordered(i, a, top, s)
        /\ Fits(a, s.romaji, i, top) /\ Fits(a, Spell(s.preedit), i, top) /\ Fits(a, <<>>, i, top)
    BY SaneParts
  <1>3. Answered(w.comp, "convert", NoKey) = Reply(w.comp, w.comp.text)
    BY <1>2, AnsweredAs, Zenon
  <1>4. Answered(w.comp, "convert", NoKey).comp = w.comp
        /\ Answered(w.comp, "convert", NoKey).text = w.comp.text
    BY <1>3, ReplyIs
  <1>5. Replied(r, w, "convert", Answered(w.comp, "convert", NoKey))
    BY <1>2, <1>4, RequestReplied
  <1>6. /\ Sound(r.w) /\ r.ok \in BOOLEAN /\ (r.w.clean => w.clean)
        /\ r.ok => r.w.comp = w.comp /\ r.text = w.comp.text
        /\ ~r.ok => r.w.comp \in {w.comp, NoComposition} /\ (r.w.clean => r.w.comp = w.comp)
    BY <1>4, <1>5 DEF Replied
  <1>7. CASE r.ok
    <2> DEFINE p == w.comp.text
               t == [s EXCEPT !.preedit = p]
    <2>1. /\ t \in States /\ t.composing /\ t.list = <<>> /\ t.preedit = p /\ t.romaji = s.romaji
      BY <1>2 DEF States
    <2>2. o = Outcome(r.w, Refreshed(t), <<>>)
      BY <1>1, <1>6, <1>7
    <2> HIDE DEF t
    <2>3. p = <<>> \/ p = s.preedit
      BY <1>2 DEF Mirrors
    <2>4. Ordered(i, a, top, t)
      BY <1>2, <2>1, <2>3, SpellNothing DEF Ordered
    <2>5. Mirrors(r.w, t)
      BY <1>2, <1>6, <1>7, <2>1 DEF Mirrors
    <2>6. Sane(i, a, top, r.w, Refreshed(t))
      BY <1>6, <2>1, <2>4, <2>5, RefreshedSane
    <2> QED BY <1>2, <2>2, <2>6, SilentKept
  <1>8. CASE ~r.ok
    <2>1. Mirrors(r.w, s)
      BY <1>2, <1>6, <1>8, NothingIsWhole DEF Mirrors
    <2>2. Sane(i, a, top, r.w, s)
      BY <1>2, <1>6, <2>1 DEF Sane
    <2> QED BY <1>1, <1>8, <2>2, StartKept
  <1> QED BY <1>6, <1>7, <1>8

LEMMA BackSpaceKept ==
    ASSUME NEW w, NEW s, NEW i, NEW a, NEW top, Sane(i, a, top, w, s),
           s.composing, NEW o \in BackSpace(w, s)
    PROVE  Kept(i, a, top, s, o)
  <1> DEFINE romaji == IF s.romaji = <<>> THEN <<>> ELSE SubSeq(s.romaji, 1, Len(s.romaji) - 1)
             T(p) == [s EXCEPT !.romaji = romaji, !.list = <<>>, !.preedit = p]
  <1>1. PICK r \in Request(w, "back", NoKey) :
            LET t == T(IF r.ok THEN r.text ELSE Letters(romaji))
            IN  o \in IF romaji = <<>> /\ t.preedit = <<>> THEN clearSession(r.w, t)
                      ELSE {Outcome(r.w, Refreshed(t), <<>>)}
    BY DEF BackSpace
  <1>2. /\ Sound(w) /\ Whole(w.comp) /\ w.comp.text \in Texts /\ Mirrors(w, s) /\ Panel(s)
        /\ a \in Seq(Keys) /\ s \in States /\ s.romaji \in Seq(Keys)
        /\ Fits(a, s.romaji, i, top) /\ Fits(a, Spell(s.preedit), i, top) /\ Fits(a, <<>>, i, top)
    BY SaneParts
  <1>3. romaji \in Seq(Keys) /\ Fits(a, romaji, i, top)
    <2>1. CASE s.romaji = <<>>
      BY <1>2, <2>1
    <2>2. CASE s.romaji # <<>>
      <3> DEFINE x == s.romaji[Len(s.romaji)]
      <3>1. /\ romaji \in Seq(Keys) /\ x \in Keys /\ s.romaji = Append(romaji, x)
        BY <1>2, <2>2, LastAppended
      <3> HIDE DEF romaji, x
      <3>2. <<x>> \in Seq(Keys) /\ Append(romaji, x) = romaji \o <<x>>
        BY <3>1, AppendIsConcat
      <3>3. Fits(a, romaji \o <<x>>, i, top)
        BY <1>2, <3>1, <3>2
      <3> QED BY <3>1, <3>2, <3>3, FitsPrefix
    <2> QED BY <2>1, <2>2
  <1> HIDE DEF romaji
  <1> DEFINE c == w.comp.text
             b == SubSeq(c, 1, Len(c) - 1)
             p == IF r.ok THEN r.text ELSE Letters(romaji)
             t == T(p)
  <1>4. \/ c = <<>> /\ Answered(w.comp, "back", NoKey) = Reply(w.comp, <<>>)
        \/ c # <<>> /\ Answered(w.comp, "back", NoKey) = Reply(Composing(b), b)
    BY <1>2, AnsweredAs, Zenon
  <1>5. c # <<>> => b \in Texts /\ Fits(a, Spell(b), i, top)
    <2> HAVE c # <<>>
    <2>1. /\ b \in Texts /\ c[Len(c)] \in Seq(Keys)
          /\ Spell(c) = Spell(b) \o c[Len(c)]
      BY <1>2, SpellLast
    <2>2. s.preedit = c /\ Spell(b) \in Seq(Keys)
      BY <1>2, <2>1, SpellTyped DEF Mirrors
    <2>3. Fits(a, Spell(b) \o c[Len(c)], i, top)
      BY <1>2, <2>1, <2>2
    <2> QED BY <2>1, <2>2, <2>3, FitsPrefix
  <1> HIDE DEF b
  <1>6. \/ c = <<>> /\ Answered(w.comp, "back", NoKey).comp = w.comp
                    /\ Answered(w.comp, "back", NoKey).text = <<>>
        \/ c # <<>> /\ Answered(w.comp, "back", NoKey).comp = Composing(b)
                    /\ Answered(w.comp, "back", NoKey).text = b
    BY <1>4, ReplyIs
  <1>7. Replied(r, w, "back", Answered(w.comp, "back", NoKey))
    <2>1. Whole(Answered(w.comp, "back", NoKey).comp)
      BY <1>2, <1>5, <1>6, WholeText
    <2> QED BY <1>2, <2>1, RequestReplied
  <1>8. /\ Sound(r.w) /\ r.ok \in BOOLEAN /\ (r.w.clean => w.clean)
        /\ ~r.ok => r.w.comp = NoComposition /\ ~r.w.clean
        /\ r.ok /\ c = <<>> => r.w.comp = w.comp /\ r.text = <<>>
        /\ r.ok /\ c # <<>> => r.w.comp = Composing(b) /\ r.text = b
    BY <1>6, <1>7 DEF Replied
  <1>9. p \in Texts /\ Fits(a, Spell(p), i, top)
    <2>1. CASE ~r.ok
      BY <1>3, <2>1, SpellLetters
    <2>2. CASE r.ok
      BY <1>2, <1>5, <1>8, <2>2, SpellNothing
    <2> QED BY <1>8, <2>1, <2>2
  <1>10. o \in IF romaji = <<>> /\ t.preedit = <<>> THEN clearSession(r.w, t)
               ELSE {Outcome(r.w, Refreshed(t), <<>>)}
    BY <1>1
  <1>11. r.ok => p = r.text
    OBVIOUS
  <1> HIDE DEF p
  <1>12. /\ t \in States /\ t.composing /\ t.list = <<>> /\ t.preedit = p /\ t.romaji = romaji
    <2>1. t = [s EXCEPT !.romaji = romaji, !.list = <<>>, !.preedit = p] /\ <<>> \in Seq(Keys)
      OBVIOUS
    <2> QED BY <1>2, <1>3, <1>9, <2>1 DEF States
  <1> HIDE DEF t
  <1>13. CASE romaji = <<>> /\ t.preedit = <<>>
    <2>1. o \in clearSession(r.w, t)
      BY <1>10, <1>13
    <2>2. o.out = <<>> /\ Sane(i, a, top, o.w, o.s)
      BY <1>2, <1>8, <1>12, <2>1, ClearKept
    <2>3. a \o o.out = a
      BY <1>2, <2>2
    <2> QED BY <2>2, <2>3 DEF Kept
  <1>14. CASE ~(romaji = <<>> /\ t.preedit = <<>>)
    <2>1. Mirrors(r.w, t)
      <3>1. CASE ~r.ok
        BY <1>8, <1>12, <3>1, NothingIsWhole DEF Mirrors
      <3>2. CASE r.ok /\ c = <<>>
        BY <1>8, <1>11, <1>12, <3>2 DEF Mirrors
      <3>3. CASE r.ok /\ c # <<>>
        BY <1>8, <1>11, <1>12, <3>3 DEF Mirrors, Composing
      <3> QED BY <1>8, <3>1, <3>2, <3>3
    <2>2. Ordered(i, a, top, t)
      BY <1>3, <1>9, <1>12 DEF Ordered
    <2>3. Sane(i, a, top, r.w, Refreshed(t))
      BY <1>8, <1>12, <2>1, <2>2, RefreshedSane
    <2> QED BY <1>2, <1>10, <1>14, <2>3, SilentKept
  <1> QED BY <1>13, <1>14

LEMMA ReturnKept ==
    ASSUME NEW w, NEW s, NEW i, NEW a, NEW top, Sane(i, a, top, w, s),
           s.composing, s.list = <<>>, NEW o \in ReturnKey(w, s)
    PROVE  Kept(i, a, top, s, o)
  <1>1. PICK r \in Request(w, "commit", NoKey) :
            IF r.ok /\ r.text # <<>> THEN o = Outcome(r.w, Fresh, Spell(r.text))
            ELSE o \in commit(r.w, s, View(s))
    BY DEF ReturnKey
  <1>2. /\ Sound(w) /\ Whole(w.comp) /\ w.comp.text \in Texts /\ Mirrors(w, s)
        /\ s.shown = View(s) /\ Fits(a, View(s), i, top) /\ Fits(a, Spell(s.preedit), i, top)
    BY SaneParts, ViewFits DEF Panel
  <1>3. Answered(w.comp, "commit", NoKey) = Reply(NoComposition, w.comp.text)
    BY <1>2, AnsweredAs, Zenon
  <1>4. Answered(w.comp, "commit", NoKey).comp = NoComposition
        /\ Answered(w.comp, "commit", NoKey).text = w.comp.text
    BY <1>3, ReplyIs
  <1>5. Replied(r, w, "commit", Answered(w.comp, "commit", NoKey))
    BY <1>2, <1>4, NothingIsWhole, RequestReplied
  <1>6. /\ Sound(r.w) /\ r.w.comp = NoComposition
        /\ r.ok => r.text = w.comp.text
    BY <1>4, <1>5 DEF Replied
  <1>7. CASE r.ok /\ r.text # <<>>
    <2>1. s.preedit = r.text /\ View(s) = Spell(r.text)
      BY <1>2, <1>6, <1>7 DEF Mirrors, View
    <2>2. o.out = s.shown /\ o.w = r.w /\ o.s = Fresh
      BY <1>1, <1>2, <1>7, <2>1 DEF Outcome
    <2>3. Sane(i, a \o s.shown, top, r.w, Fresh)
      BY <1>2, <1>6, FreshSane
    <2> QED BY <2>2, <2>3 DEF Kept
  <1>8. CASE ~(r.ok /\ r.text # <<>>)
    <2>1. r.w.comp.open => s.composing
      OBVIOUS
    <2>2. o.out = View(s) /\ Sane(i, a \o o.out, top, o.w, o.s)
      BY <1>1, <1>2, <1>6, <1>8, <2>1, CommitKept
    <2> QED BY <1>2, <2>2 DEF Kept
  <1> QED BY <1>7, <1>8
-----------------------------------------------------------------------------
(***************************************************************************)
(* The addon.                                                              *)
(***************************************************************************)

\* Only the context with the focus has a composition; what it holds comes after
\* all that was committed, and up to now.
AddonInv ==
    /\ focus \in Contexts /\ typed \in 0..MaxTyped /\ st \in [Contexts -> States]
    /\ \A j \in Contexts \ {focus} : st[j] = Fresh
    /\ Sane(focus, app, typed, world, st[focus])

CommitStep == app' # app => app' = app \o st[focus].shown

LEMMA AddonInitially == ASSUME AddonInit PROVE AddonInv
  <1>1. Sound(world) /\ world.comp = NoComposition
    BY NothingIsWhole DEF AddonInit, Sound, Worlds, Whole
  <1>2. Fits(<<>>, <<>>, focus, typed)
    BY DEF AddonInit, Fits, Rising
  <1>3. Sane(focus, <<>>, typed, world, Fresh)
    BY <1>1, <1>2, FreshSane
  <1>4. st \in [Contexts -> States]
    BY FreshIs DEF AddonInit
  <1> QED BY <1>3, <1>4, FaultAssumption DEF AddonInit, AddonInv

\* A handler that works for the context with the focus and leaves it there.
LEMMA HandledWell ==
    ASSUME AddonInv, NEW name, NEW outcomes, Handle(focus, name, outcomes),
           UNCHANGED focus, typed' \in 0..MaxTyped,
           \A o \in outcomes : Kept(focus, app, typed', st[focus], o)
    PROVE  AddonInv' /\ CommitStep
  <1>1. PICK o \in outcomes : /\ world' = o.w
                              /\ st' = [st EXCEPT ![focus] = o.s]
                              /\ app' = app \o o.out
    BY DEF Handle
  <1>2. /\ o.out \in {<<>>, st[focus].shown}
        /\ Sane(focus, app \o o.out, typed', o.w, o.s)
    BY <1>1 DEF Kept
  <1>3. app \in Seq(Keys) /\ o.s \in States
    BY <1>2, SaneParts DEF AddonInv
  <1>4. app \o <<>> = app
    BY <1>3
  <1>5. CommitStep
    BY <1>1, <1>2, <1>4 DEF CommitStep
  <1>6. focus \in Contexts /\ st \in [Contexts -> States] /\ focus' = focus
        /\ \A j \in Contexts \ {focus} : st[j] = Fresh
    BY DEF AddonInv
  <1>7. /\ st' \in [Contexts -> States] /\ st'[focus] = o.s
        /\ \A j \in Contexts \ {focus} : st'[j] = Fresh
    BY <1>1, <1>3, <1>6
  <1>8. Sane(focus', app', typed', world', st'[focus'])
    BY <1>1, <1>2, <1>6, <1>7
  <1>9. AddonInv'
    BY <1>6, <1>7, <1>8 DEF AddonInv
  <1> QED BY <1>5, <1>9

LEMMA AddonStep ==
    ASSUME AddonInv, [AddonNext]_addonVars
    PROVE  AddonInv' /\ CommitStep
  <1> DEFINE s == st[focus]
  <1>1. /\ Sane(focus, app, typed, world, s) /\ Sound(world) /\ Panel(s) /\ Mirrors(world, s)
        /\ (world.comp.open => s.composing) /\ app \in Seq(Keys) /\ s \in States
        /\ Ordered(focus, app, typed, s) /\ s.composing \in BOOLEAN
        /\ focus \in Contexts /\ typed \in 0..MaxTyped
        /\ Fits(app, s.shown, focus, typed) /\ Fits(app, s.list, focus, typed)
        /\ Fits(app, <<>>, focus, typed)
    BY SaneParts, ShownFits DEF AddonInv
  <1>2. MaxTyped \in Nat
    BY FaultAssumption
  <1> HIDE DEF s
  <1>3. active(focus) => s.composing
    BY <1>1, FreshIs DEF active, Panel, s
  <1>4. ~choosing(focus) => s.list = <<>>
    BY DEF choosing, s
  <1>5. ASSUME NEW name, NEW outcomes, Handle(focus, name, outcomes), UNCHANGED <<focus, typed>>,
               \A o \in outcomes : Kept(focus, app, typed, s, o)
        PROVE  AddonInv' /\ CommitStep
    BY <1>1, <1>5, HandledWell DEF s
  <1>6. ASSUME NEW l \in Consonants \cup Vowels, OnLetter(focus, l)
        PROVE  AddonInv' /\ CommitStep
    <2> DEFINE key == [letter |-> l, by |-> focus, n |-> typed + 1]
               outcomes == Letter(world, s, key)
    <2>1. /\ typed < MaxTyped /\ typed' = typed + 1 /\ UNCHANGED focus
          /\ Handle(focus, "letter", outcomes)
      BY <1>6 DEF OnLetter, s
    <2>2. key \in Keys /\ key.by = focus /\ key.n = typed + 1 /\ typed \in Nat
          /\ typed' \in 0..MaxTyped
      BY <1>1, <1>2, <2>1 DEF Keys
    <2> HIDE DEF key
    <2>3. \A o \in outcomes : Kept(focus, app, typed + 1, s, o)
      BY <1>1, <2>2, LetterKept
    <2> HIDE DEF outcomes
    <2>4. \A o \in outcomes : Kept(focus, app, typed', st[focus], o)
      BY <2>1, <2>3 DEF s
    <2> QED BY <2>1, <2>2, <2>4, HandledWell
  <1>7. ASSUME UNCHANGED <<focus, typed>>, OnSelect(focus)
        PROVE  AddonInv' /\ CommitStep
    <2>1. s.list # <<>> /\ s.shown = s.list /\ Handle(focus, "select", commit(world, s, s.list))
      BY <1>1, <1>7 DEF OnSelect, choosing, Panel, s
    <2>2. ASSUME NEW o \in commit(world, s, s.list) PROVE Kept(focus, app, typed, s, o)
      <3>1. o.out = s.list /\ Sane(focus, app \o o.out, typed, o.w, o.s)
        BY <1>1, CommitKept
      <3> QED BY <2>1, <3>1 DEF Kept
    <2> QED BY <1>5, <1>7, <2>1, <2>2
  <1>8. ASSUME UNCHANGED <<focus, typed>>, OnMove(focus)
        PROVE  AddonInv' /\ CommitStep
    <2> DEFINE t == [s EXCEPT !.shown = s.list]
    <2>1. s.list # <<>> /\ Handle(focus, "move", {Outcome(world, t, <<>>)})
      BY <1>8 DEF OnMove, choosing, s
    <2>2. s.shown = s.list
      BY <1>1, <2>1 DEF Panel
    <2>3. t = s
      <3>1. [s EXCEPT !.shown = s.shown] = s
        BY <1>1 DEF States
      <3> QED BY <2>2, <3>1
    <2> HIDE DEF t
    <2>4. ASSUME NEW o \in {Outcome(world, t, <<>>)} PROVE Kept(focus, app, typed, s, o)
      BY <1>1, <2>3, <2>4, SilentKept
    <2> QED BY <1>5, <1>8, <2>1, <2>4
  <1>9. ASSUME UNCHANGED <<focus, typed>>, OnEscapeList(focus)
        PROVE  AddonInv' /\ CommitStep
    <2> DEFINE t == [s EXCEPT !.list = <<>>]
    <2>1. s.list # <<>> /\ Handle(focus, "escape", {Outcome(world, Refreshed(t), <<>>)})
      BY <1>9 DEF OnEscapeList, EscapeList, choosing, s
    <2>2. s.composing
      BY <1>1, <2>1, FreshIs DEF Panel
    <2>3. /\ t \in States /\ t.list = <<>> /\ t.composing /\ t.romaji = s.romaji
          /\ t.preedit = s.preedit
      <3>1. <<>> \in Seq(Keys)
        OBVIOUS
      <3> QED BY <1>1, <2>2, <3>1 DEF States
    <2> HIDE DEF t
    <2>4. Mirrors(world, t) /\ Ordered(focus, app, typed, t)
      BY <1>1, <2>2, <2>3 DEF Mirrors, Ordered
    <2>5. Sane(focus, app, typed, world, Refreshed(t))
      BY <1>1, <2>3, <2>4, RefreshedSane
    <2>6. ASSUME NEW o \in {Outcome(world, Refreshed(t), <<>>)} PROVE Kept(focus, app, typed, s, o)
      BY <1>1, <2>5, <2>6, SilentKept
    <2> QED BY <1>5, <1>9, <2>1, <2>6
  <1>10. ASSUME UNCHANGED <<focus, typed>>, OnSpace(focus)
         PROVE  AddonInv' /\ CommitStep
    <2>1. s.list = <<>> /\ s.composing /\ Handle(focus, "space", Space(world, s))
      BY <1>3, <1>4, <1>10 DEF OnSpace, s
    <2>2. \A o \in Space(world, s) : Kept(focus, app, typed, s, o)
      BY <1>1, <2>1, SpaceKept
    <2> QED BY <1>5, <1>10, <2>1, <2>2
  <1>11. ASSUME UNCHANGED <<focus, typed>>, OnBackSpace(focus)
         PROVE  AddonInv' /\ CommitStep
    <2>1. s.composing /\ Handle(focus, "backspace", BackSpace(world, s))
      BY <1>3, <1>11 DEF OnBackSpace, s
    <2>2. \A o \in BackSpace(world, s) : Kept(focus, app, typed, s, o)
      BY <1>1, <2>1, BackSpaceKept
    <2> QED BY <1>5, <1>11, <2>1, <2>2
  <1>12. ASSUME UNCHANGED <<focus, typed>>, OnReturn(focus)
         PROVE  AddonInv' /\ CommitStep
    <2>1. s.list = <<>> /\ s.composing /\ Handle(focus, "return", ReturnKey(world, s))
      BY <1>3, <1>4, <1>12 DEF OnReturn, s
    <2>2. \A o \in ReturnKey(world, s) : Kept(focus, app, typed, s, o)
      BY <1>1, <2>1, ReturnKept
    <2> QED BY <1>5, <1>12, <2>1, <2>2
  <1>13. ASSUME NEW o \in clearSession(world, s), NEW j
         PROVE  o.out = <<>> /\ o.s = Fresh /\ Sane(j, app, typed, o.w, Fresh)
    BY <1>1, ClearKept
  <1>14. ASSUME UNCHANGED <<focus, typed>>, OnEscape(focus)
         PROVE  AddonInv' /\ CommitStep
    <2>1. Handle(focus, "escape", clearSession(world, s))
      BY <1>14 DEF OnEscape, s
    <2>2. ASSUME NEW o \in clearSession(world, s) PROVE Kept(focus, app, typed, s, o)
      <3>1. app \o <<>> = app
        BY <1>1
      <3> QED BY <1>13, <3>1 DEF Kept
    <2> QED BY <1>5, <1>14, <2>1, <2>2
  <1>15. ASSUME NEW j \in Contexts, reset(focus, j)
         PROVE  AddonInv' /\ CommitStep
    <2>1. PICK o \in clearSession(world, s) : /\ world' = o.w
                                              /\ st' = [st EXCEPT ![focus] = o.s]
                                              /\ app' = app \o o.out
      BY <1>15 DEF reset, Handle, s
    <2>2. focus' = j /\ typed' = typed
      BY <1>15 DEF reset
    <2>3. o.out = <<>> /\ o.s = Fresh /\ Sane(j, app, typed, o.w, Fresh)
      BY <1>13
    <2>4. app' = app
      BY <1>1, <2>1, <2>3
    <2>5. st \in [Contexts -> States] /\ \A k \in Contexts \ {focus} : st[k] = Fresh
      BY DEF AddonInv
    <2>6. st' \in [Contexts -> States] /\ \A k \in Contexts : st'[k] = Fresh
      BY <1>1, <2>1, <2>3, <2>5, FreshIs
    <2>7. Sane(focus', app', typed', world', st'[focus'])
      BY <2>1, <2>2, <2>3, <2>4, <2>6
    <2> QED BY <1>1, <2>2, <2>4, <2>6, <2>7 DEF AddonInv, CommitStep
  <1>16. ASSUME DaemonDies
         PROVE  AddonInv' /\ CommitStep
    <2> DEFINE link == IF world.link = "up" THEN "dead" ELSE world.link
    <2>1. world' = Lost(link) /\ UNCHANGED <<focus, st, app, typed>>
      BY <1>16 DEF DaemonDies
    <2>2. link \in {"none", "dead"}
      BY <1>1 DEF Sound, Worlds
    <2> HIDE DEF link
    <2>3. Sound(world') /\ ~world'.clean /\ world'.comp = NoComposition
      BY <2>1, <2>2, SoundLost
    <2>4. Mirrors(world', s)
      BY <2>3, NothingIsWhole DEF Mirrors
    <2>5. Sane(focus, app, typed, world', s)
      BY <1>1, <2>3, <2>4 DEF Sane
    <2>6. Sane(focus', app', typed', world', st'[focus'])
      BY <2>1, <2>5 DEF s
    <2> QED BY <2>1, <2>6 DEF AddonInv, CommitStep
  <1>17. CASE UNCHANGED addonVars
    BY <1>17 DEF addonVars, AddonInv, CommitStep
  <1>18. CASE keyEvent(focus)
    BY <1>6, <1>7, <1>8, <1>9, <1>10, <1>11, <1>12, <1>14, <1>18 DEF keyEvent
  <1> QED BY <1>15, <1>16, <1>17, <1>18 DEF AddonNext

LEMMA AddonAlways == AddonSpec => []AddonInv
  <1>1. AddonInit => AddonInv
    BY AddonInitially
  <1>2. AddonInv /\ [AddonNext]_addonVars => AddonInv'
    BY AddonStep
  <1> QED BY <1>1, <1>2, PTL DEF AddonSpec

LEMMA AddonIsConsistent == ASSUME AddonInv PROVE AddonConsistent /\ NoOrphan
  <1> DEFINE s == st[focus]
  <1>1. /\ Sound(world) /\ Panel(s) /\ Mirrors(world, s)
        /\ app \in Seq(Keys) /\ s \in States /\ focus \in Contexts /\ typed \in 0..MaxTyped
        /\ Fits(app, s.romaji, focus, typed) /\ Fits(app, Spell(s.preedit), focus, typed)
        /\ Fits(app, s.shown, focus, typed) /\ Fits(app, <<>>, focus, typed)
    BY SaneParts, ShownFits DEF AddonInv
  <1>2. st \in [Contexts -> States] /\ \A j \in Contexts : j = focus \/ st[j] = Fresh
    BY DEF AddonInv
  <1>3. AddonTypeOK
    BY <1>1, <1>2 DEF AddonTypeOK, States, Sound, Worlds, Comps
  <1>4. OwnKeys
    <2> SUFFICES ASSUME NEW i \in Contexts,
                        NEW key \in KeysIn(st[i].romaji) \cup KeysIn(st[i].shown)
                                        \cup KeysIn(Spell(st[i].preedit))
                 PROVE  key.by = i
      BY DEF OwnKeys
    <2>1. CASE i = focus
      BY <1>1, <2>1 DEF KeysIn, Fits
    <2>2. CASE i # focus
      <3>1. st[i] = Fresh
        BY <1>2, <2>2
      <3>2. st[i].romaji = <<>> /\ st[i].shown = <<>> /\ Spell(st[i].preedit) = <<>>
        BY <3>1, FreshIs, SpellNothing
      <3>3. KeysIn(<<>>) = {}
        BY DEF KeysIn
      <3> QED BY <3>2, <3>3
    <2> QED BY <2>1, <2>2
  <1>5. NoKeyTwice
    <2>1. app \o <<>> = app
      BY <1>1
    <2>2. \A m, n \in DOMAIN app : m < n => app[m].n < app[n].n
      BY <1>1, <2>1 DEF Fits, Rising
    <2> SUFFICES ASSUME NEW m \in DOMAIN app, NEW n \in DOMAIN app, app[m] = app[n]
                 PROVE  m = n
      BY DEF NoKeyTwice
    <2>3. m \in Nat /\ n \in Nat /\ app[m] \in Keys
      BY <1>1
    <2>4. app[m].n \in Int
      BY <2>3 DEF Keys
    <2> QED BY <2>2, <2>3, <2>4
  <1>6. MirrorsDaemon
    <2> SUFFICES ASSUME world.clean, NEW i \in Contexts, st[i].composing
                 PROVE  st[i].preedit = world.comp.text
      BY DEF MirrorsDaemon
    <2>1. i = focus
      BY <1>2, FreshIs
    <2> QED BY <1>1, <2>1 DEF Mirrors
  <1>7. NoOrphan
    BY <1>1 DEF NoOrphan, Mirrors
  <1> QED BY <1>3, <1>4, <1>5, <1>6, <1>7 DEF AddonConsistent

\* However requests fail and the focus moves, a key stays with the context it was typed in and
\* reaches the application at most once; until a request fails a context shows what the
\* daemon has.  For any contexts and letters, and any number of keys.
THEOREM KeysStayWhereTyped == AddonSpec => []AddonConsistent
  <1>1. AddonInv => AddonConsistent
    BY AddonIsConsistent
  <1> QED BY <1>1, AddonAlways, PTL

\* The daemon has no composition that no context knows of.
THEOREM NoCompositionIsOrphaned == AddonSpec => []NoOrphan
  <1>1. AddonInv => NoOrphan
    BY AddonIsConsistent
  <1> QED BY <1>1, AddonAlways, PTL

\* Whoever supplies the text of a commit, it is what the context displayed.
THEOREM CommittedAsShown == AddonSpec => CommitsWhatIsShown
  <1>1. AddonInv /\ [AddonNext]_addonVars => [app' # app => app' = app \o st[focus].shown]_addonVars
    BY AddonStep DEF CommitStep
  <1> QED BY <1>1, AddonAlways, PTL DEF AddonSpec, CommitsWhatIsShown
=============================================================================
