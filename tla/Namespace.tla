------------------------------ MODULE Namespace ------------------------------
(***************************************************************************)
(* engine/native/AtNsShim/AtNsShim.c with engine/native/AtLaunch: the shim *)
(* that makes the vendor's processes agree on the names of their kernel    *)
(* objects.  Names under "AtokPrivateNamespace\", which Wine does not have, *)
(* are opened by their bare name; for this the import slots of the         *)
(* vendor's modules are replaced, in the engine servers by the launcher    *)
(* and then by a worker thread, in the host of the TIP by the host itself. *)
(*                                                                         *)
(* Each process makes its calls from one thread; the worker is another.    *)
(***************************************************************************)
EXTENDS Naturals, Sequences, FiniteSets

CONSTANTS
    Tip,           \* the process AtTipLoad
    Servers,       \* the processes AtLaunch starts
    Static,        \* vendor modules that are there when a server starts
    Dynamic,       \* vendor modules loaded later
    Maps, Mutexes, \* bare names of the file mappings and of the mutexes and events
    CE, DN,        \* the maps the shim knows: the shared data and the model
    Handles,       \* handle numbers of a process; 0 is the handle the shim keeps
    MaxOpen,       \* bound on the handles a process has open
    MaxCalls,      \* bound on the object calls of all processes
    Slots,         \* MAP_NAME_SLOTS
    None

Procs   == Servers \cup {Tip}
Modules == Static \cup Dynamic
Names   == Maps \cup Mutexes

\* Import slots: the calls that take a name (of maps, mutexes and events in both widths, and
\* of the boundary and the namespace, which give a handle), and those that free such a handle.
Apis == {"name", "free"}

ASSUME NamespaceAssumption ==
    /\ Tip \notin Servers /\ Static \cap Dynamic = {}
    /\ CE \in Maps /\ DN \in Maps /\ Maps \cap Mutexes = {}
    /\ Handles \subseteq Nat \ {0} /\ Slots \in Nat \ {0} /\ MaxOpen \in Nat /\ MaxCalls \in Nat

VARIABLES
    proc,          \* each process, see Down
    objects,       \* the keys of the kernel's objects
    calls          \* how many object calls there have been

vars == <<proc, objects, calls>>

Down == [stage |-> "down",      \* "down", "spawned", "injected", "running"
         injected |-> FALSE,    \* history: the launcher's LoadLibrary succeeded
         installing |-> FALSE,  \* the remote AtNsShimInstall has not run yet
         init |-> FALSE,        \* g_init_state is 2, the originals are resolved
         loaded |-> {}, loading |-> {},   \* modules, and the one whose DllMain runs
         patched |-> {},        \* slots <<module, api>> that hold the shim's functions
         worker |-> FALSE,      \* g_worker_thread
         pass |-> {},           \* slots the worker has still to replace in this pass
         handle |-> [h \in Handles |-> None],
         own |-> {},            \* keys of the maps the shim keeps open itself
         autoCE |-> "no",       \* where an OpenFileMappingW of CE is: no, create, seed, open
         table |-> <<>>,        \* g_map_handles and g_map_names
         fakes |-> {},          \* modules that hold a fake handle
         seeds |-> 0,           \* history: how often the shared data were seeded
         leaks |-> {}]          \* history: modules whose call reached Wine as it was

Init == proc = [p \in Procs |-> Down] /\ objects = {} /\ calls = 0

-----------------------------------------------------------------------------
(***************************************************************************)
(* The kernel, as Wine: one directory, objects that live while somebody    *)
(* has them open.  Not part of the repository.                             *)
(***************************************************************************)
Exists(key) == key \in objects

\* The keys some process has open in a state of the processes.
Held(ps) == UNION {ps[p].own \cup {ps[p].handle[h].key : h \in {h \in Handles : ps[p].handle[h] # None}}
                       : p \in DOMAIN ps}

Living(ps) == objects \cap Held(ps)

-----------------------------------------------------------------------------
(***************************************************************************)
(* Names.                                                                  *)
(***************************************************************************)

\* Mutant: the flat name carries a tag, as sanitize_ns_name makes it.
rewrite_ns_nameTagged(n, prefixed) == IF prefixed THEN <<"Tagged", n>> ELSE <<"Base", n>>

\* The bare name, with or without the prefix.
rewrite_ns_name(n, prefixed) == <<"Base", n>>

Hooked(p, m, api) == <<m, api>> \in proc[p].patched

\* The key a call of module m asks the kernel for.
Key(p, m, n, prefixed) ==
    IF Hooked(p, m, "name") THEN rewrite_ns_name(n, prefixed)
    ELSE <<IF prefixed THEN "Private" ELSE "Base", n>>

Entry(h, n) == [h |-> h, name |-> n]

\* Mutant: the slot of the handle is left as it is.
rememberKeepsOld(t, h, n) ==
    IF \E i \in DOMAIN t : t[i].h = h THEN t
    ELSE IF Len(t) < Slots THEN Append(t, Entry(h, n)) ELSE [t EXCEPT ![1] = Entry(h, n)]

\* Mutant: the table has no end.
rememberForever(t, h, n) ==
    IF \E i \in DOMAIN t : t[i].h = h THEN [i \in DOMAIN t |-> IF t[i].h = h THEN Entry(h, n) ELSE t[i]]
    ELSE Append(t, Entry(h, n))

\* remember_map_name: the slot of the handle, else a free one, else the first.
remember_map_name(t, h, n) ==
    IF \E i \in DOMAIN t : t[i].h = h THEN [i \in DOMAIN t |-> IF t[i].h = h THEN Entry(h, n) ELSE t[i]]
    ELSE IF Len(t) < Slots THEN Append(t, Entry(h, n)) ELSE [t EXCEPT ![1] = Entry(h, n)]

\* lookup_map_name: the first entry of the handle.
lookup_map_name(t, h) ==
    IF \E i \in DOMAIN t : t[i].h = h
    THEN t[CHOOSE i \in DOMAIN t : t[i].h = h /\ \A j \in 1..(i - 1) : t[j].h # h].name
    ELSE "(unknown)"

-----------------------------------------------------------------------------
(***************************************************************************)
(* Patching.                                                               *)
(***************************************************************************)
SlotsOf(s) == (s.loaded \cup s.loading) \X Apis

\* Every module in place is hooked by the caller itself.  The list of modules is taken to be
\* complete and VirtualProtect to succeed: without a snapshot the code
\* falls back on the modules it knows by name (AtNsShim.c:1994).
patched(s) == [s EXCEPT !.patched = @ \cup SlotsOf(s)]

\* ensure_init, before anything is patched.
ensure_init(s) == [s EXCEPT !.init = TRUE]

\* Mutant: only the worker patches.
DllMainLeavesToWorker(s) == [ensure_init(s) EXCEPT !.worker = TRUE]

\* DllMain in a vendor process that is not the TIP's host.
DllMain(s) == [patched(ensure_init(s)) EXCEPT !.worker = TRUE]

\* AtNsShimInstall; AT_NSSHIM_WORKER may switch the worker off.
AtNsShimInstall(p, s, wanted) ==
    [patched(ensure_init(s)) EXCEPT !.worker = @ \/ (wanted /\ p # Tip)]

Keep(p, s) == proc' = [proc EXCEPT ![p] = s]

\* AtLaunch: CREATE_SUSPENDED; LoadLibraryW in a remote thread, which may fail at several
\* points; AtNsShimInstall in another, waited for three seconds; ResumeThread.
Spawn(p) ==
    /\ p \in Servers /\ proc[p].stage = "down"
    /\ Keep(p, [proc[p] EXCEPT !.stage = "spawned", !.loaded = Static])
    /\ UNCHANGED objects

Inject(p) ==
    /\ proc[p].stage = "spawned"
    /\ \E install \in BOOLEAN :
           Keep(p, [DllMain(proc[p]) EXCEPT !.stage = "injected", !.injected = TRUE,
                                            !.installing = install])
    /\ UNCHANGED objects

InjectFails(p) ==
    /\ proc[p].stage = "spawned"
    /\ Keep(p, [proc[p] EXCEPT !.stage = "injected"])
    /\ UNCHANGED objects

RemoteInstall(p) ==
    /\ proc[p].installing
    /\ \E wanted \in BOOLEAN :
           Keep(p, [AtNsShimInstall(p, proc[p], wanted) EXCEPT !.installing = FALSE])
    /\ UNCHANGED objects

Resume(p) ==
    /\ proc[p].stage = "injected"
    /\ Keep(p, [proc[p] EXCEPT !.stage = "running"])
    /\ UNCHANGED objects

\* The host of the TIP starts; its executable is not named like a vendor's, DllMain does nothing.
StartTip ==
    /\ proc[Tip].stage = "down"
    /\ Keep(Tip, [Down EXCEPT !.stage = "running"])
    /\ UNCHANGED objects

\* The calling thread is not inside LoadLibrary or OpenFileMapping.
Free(p) == proc[p].stage = "running" /\ proc[p].loading = {} /\ proc[p].autoCE = "no"

\* The host installs the shim, and may create and fill the model's map first, once.
InstallTip ==
    /\ Free(Tip)
    /\ \E wanted, precreate \in BOOLEAN :
           LET s   == AtNsShimInstall(Tip, proc[Tip], wanted)
               key == <<"Base", DN>>
           IN  IF precreate /\ key \notin s.own
               THEN /\ Keep(Tip, [s EXCEPT !.own = @ \cup {key}, !.table = remember_map_name(@, 0, DN)])
                    /\ objects' = objects \cup {key}
               ELSE Keep(Tip, s) /\ UNCHANGED objects

\* AtNsShimPatchNow
PatchNow ==
    /\ Free(Tip)
    /\ Keep(Tip, patched(ensure_init(proc[Tip])))
    /\ UNCHANGED objects

\* Mutant: no more passes once something is hooked.
WorkerScanOnce(p) ==
    /\ proc[p].worker /\ proc[p].pass = {} /\ proc[p].patched = {}
    /\ Keep(p, [proc[p] EXCEPT !.pass = SlotsOf(proc[p]) \ proc[p].patched])
    /\ UNCHANGED objects

\* worker_thread: a snapshot of the modules, then slot after slot; then it sleeps and starts
\* again.
WorkerScan(p) ==
    /\ proc[p].worker /\ proc[p].pass = {}
    /\ Keep(p, [proc[p] EXCEPT !.pass = SlotsOf(proc[p]) \ proc[p].patched])
    /\ UNCHANGED objects

WorkerPatch(p) ==
    /\ \E s \in proc[p].pass :
           Keep(p, [proc[p] EXCEPT !.patched = @ \cup {s}, !.pass = @ \ {s}])
    /\ UNCHANGED objects

\* A vendor module is loaded; its DllMain runs between the two steps.  When a hooked module
\* asked for it, under AT_TRACE_LOADLIB, and AT_PATCH_AFTER_LOAD is set, patching follows.
Load(p, m) ==
    /\ Free(p) /\ m \notin proc[p].loaded
    /\ Keep(p, [proc[p] EXCEPT !.loading = {m}])
    /\ UNCHANGED objects

shim_LoadLibrary(p, m) ==
    /\ proc[p].autoCE = "no" /\ m \in proc[p].loading
    /\ LET s == [proc[p] EXCEPT !.loaded = @ \cup {m}, !.loading = {}]
       IN  \E after \in BOOLEAN : Keep(p, IF after /\ s.patched # {} THEN patched(s) ELSE s)
    /\ UNCHANGED objects

-----------------------------------------------------------------------------
(***************************************************************************)
(* Object calls of a module: of a loaded one, or of the one being loaded.  *)
(***************************************************************************)
Calls(p, m) ==
    /\ proc[p].stage = "running" /\ proc[p].autoCE = "no"
    /\ IF proc[p].loading = {} THEN m \in proc[p].loaded ELSE m \in proc[p].loading

OpenHandles(p) == {h \in Handles : proc[p].handle[h] # None}

FreeHandle(p) == Cardinality(OpenHandles(p)) < MaxOpen

\* The process after a successful call: a handle, and an entry in the table when the call
\* was the shim's and is about a map.
WithHandle(s, h, key, hooked) ==
    [s EXCEPT !.handle[h] = [key |-> key, hooked |-> hooked],
              !.table = IF hooked /\ key[2] \in Maps THEN remember_map_name(@, h, key[2]) ELSE @]

\* Noted where the shim was injected.
Leak(s, m, leak) == [s EXCEPT !.leaks = IF s.injected /\ leak THEN @ \cup {m} ELSE @]

\* A Create call: what has the name is opened, a mutex or a map alike.
Create(p, m, n, prefixed) ==
    LET key == Key(p, m, n, prefixed)
        s   == Leak(proc[p], m, key[1] = "Private")
    IN  /\ Calls(p, m) /\ FreeHandle(p)
        /\ IF key[1] = "Private"
           THEN Keep(p, s) /\ UNCHANGED objects
           ELSE \E h \in Handles \ OpenHandles(p) :
                    /\ Keep(p, WithHandle(s, h, key, Hooked(p, m, "name")))
                    /\ objects' = objects \cup {key}

\* An Open call.
Open(p, m, n, prefixed) ==
    LET key == Key(p, m, n, prefixed)
        s   == Leak(proc[p], m, key[1] = "Private")
    IN  /\ Calls(p, m) /\ FreeHandle(p)
        /\ IF ~Exists(key)
           THEN Keep(p, s)
           ELSE \E h \in Handles \ OpenHandles(p) : Keep(p, WithHandle(s, h, key, Hooked(p, m, "name")))
        /\ UNCHANGED objects

\* Both widths each.
CreateFileMapping(p, m) == \E n \in Maps, prefixed \in BOOLEAN : Create(p, m, n, prefixed)

OpenFileMapping(p, m) == \E n \in Maps, prefixed \in BOOLEAN : Open(p, m, n, prefixed)

\* CreateMutex, CreateEvent.  With AT_AUTOCREATE_IB shim_CreateMutexW also asks for a map under
\* the name of the mutex, which the kernel refuses while the mutex has that name.
CreateMutex(p, m) == \E n \in Mutexes, prefixed \in BOOLEAN : Create(p, m, n, prefixed)

\* OpenMutex, OpenEvent.
OpenMutex(p, m) == \E n \in Mutexes, prefixed \in BOOLEAN : Open(p, m, n, prefixed)

\* shim_OpenFileMappingW with AT_AUTOCREATE_CE finds no shared data and makes them.
OpenCE(p, m) ==
    /\ Calls(p, m) /\ FreeHandle(p) /\ Hooked(p, m, "name")
    /\ ~Exists(<<"Base", CE>>)
    /\ Keep(p, [proc[p] EXCEPT !.autoCE = "create"])
    /\ UNCHANGED objects

\* Mutant: the handle is not kept.
CreateCELocally(p) ==
    /\ proc[p].autoCE = "create"
    /\ Keep(p, [proc[p] EXCEPT !.autoCE = "seed"])
    /\ objects' = objects \cup {<<"Base", CE>>}

CreateCE(p) ==
    /\ proc[p].autoCE = "create"
    /\ Keep(p, [proc[p] EXCEPT !.autoCE = "seed", !.own = @ \cup {<<"Base", CE>>}])
    /\ objects' = objects \cup {<<"Base", CE>>}

\* seed_ce_view writes into the map whoever made it; the count stops at two.
SeedCE(p) ==
    /\ proc[p].autoCE = "seed"
    /\ Keep(p, [proc[p] EXCEPT !.autoCE = "open", !.seeds = IF @ < 2 THEN @ + 1 ELSE @])
    /\ UNCHANGED objects

ReopenCE(p) ==
    /\ proc[p].autoCE = "open"
    /\ \E h \in Handles \ OpenHandles(p) :
           Keep(p, [WithHandle(proc[p], h, <<"Base", CE>>, TRUE) EXCEPT !.autoCE = "no"])
    /\ UNCHANGED objects

\* NtCreateSection and NtCreateMutant: no name is rewritten, nothing is remembered.
NtCreate(p, n) ==
    /\ Free(p) /\ FreeHandle(p)
    /\ \E h \in Handles \ OpenHandles(p) : Keep(p, WithHandle(proc[p], h, <<"Base", n>>, FALSE))
    /\ objects' = objects \cup {<<"Base", n>>}

\* CloseHandle is not hooked.
Close(p, h) ==
    /\ Free(p) /\ proc[p].handle[h] # None
    /\ Keep(p, [proc[p] EXCEPT !.handle[h] = None])
    /\ objects' = Living(proc')

\* CreateBoundaryDescriptorW, CreatePrivateNamespaceW, OpenPrivateNamespaceW: Wine's own are stubs.
MakeFake(p, m) ==
    /\ Calls(p, m) /\ Hooked(p, m, "name")
    /\ Keep(p, [proc[p] EXCEPT !.fakes = @ \cup {m}])
    /\ UNCHANGED objects

\* DeleteBoundaryDescriptor, ClosePrivateNamespace.
FreeFake(p, m) ==
    /\ Calls(p, m) /\ m \in proc[p].fakes
    /\ Keep(p, Leak([proc[p] EXCEPT !.fakes = @ \ {m}], m, ~Hooked(p, m, "free")))
    /\ UNCHANGED objects

\* A process ends, at any time.
Exit(p) ==
    /\ proc[p].stage # "down"
    /\ Keep(p, Down)
    /\ objects' = Living(proc')

-----------------------------------------------------------------------------
Call(p) ==
    /\ calls < MaxCalls /\ calls' = calls + 1
    /\ \/ \E m \in Modules :
              \/ CreateFileMapping(p, m) \/ OpenFileMapping(p, m) \/ OpenCE(p, m)
              \/ CreateMutex(p, m) \/ OpenMutex(p, m) \/ MakeFake(p, m)
       \/ \E n \in Names : NtCreate(p, n)

\* The rest of a call, and the calls that give something back.
Finish(p) ==
    /\ CreateCE(p) \/ SeedCE(p) \/ ReopenCE(p)
       \/ (\E m \in Modules : FreeFake(p, m)) \/ (\E h \in Handles : Close(p, h))
    /\ UNCHANGED calls

Launch(p) == Spawn(p) \/ Inject(p) \/ InjectFails(p) \/ RemoteInstall(p) \/ Resume(p) \/ Exit(p)

Worker(p) == (WorkerScan(p) \/ WorkerPatch(p)) /\ UNCHANGED calls

Next ==
    \/ (StartTip \/ InstallTip \/ PatchNow) /\ UNCHANGED calls
    \/ \E p \in Procs :
           \/ Launch(p) /\ UNCHANGED calls
           \/ (\E m \in Dynamic : Load(p, m) \/ shim_LoadLibrary(p, m)) /\ UNCHANGED calls
           \/ Worker(p) \/ Call(p) \/ Finish(p)

Spec == Init /\ [][Next]_vars

\* The worker runs; nothing else has to happen.
FairSpec == Spec /\ \A p \in Procs : WF_vars(Worker(p))

-----------------------------------------------------------------------------
(***************************************************************************)
(* Properties.                                                             *)
(***************************************************************************)
ObjectKeys == {"Base", "Private", "Tagged"} \X Names

TypeOK ==
    /\ \A p \in Procs :
           /\ proc[p].stage \in {"down", "spawned", "injected", "running"}
           /\ proc[p].patched \cup proc[p].pass \subseteq Modules \X Apis
           /\ \A h \in Handles :
                  proc[p].handle[h] = None \/ proc[p].handle[h] \in [key : ObjectKeys, hooked : BOOLEAN]
           /\ Len(proc[p].table) <= Slots
    /\ objects \subseteq ObjectKeys

\* Processes that hold an object of the same name hold the same object, whether they asked
\* for it with or without the prefix, in either width, hooked, through ntdll or not at all
\* (patch_known_atok_modules: "therefore share the same JsMmf objects").
Sharing ==
    \A p, q \in Procs : \A h \in OpenHandles(p), g \in OpenHandles(q) :
        proc[p].handle[h].key[2] = proc[q].handle[g].key[2] => proc[p].handle[h].key = proc[q].handle[g].key

\* The view logged for a map the shim has handed out carries the name of that map or no name,
\* however handles are closed behind the shim's back and reused, and the table overflows.
TableNames ==
    \A p \in Procs : \A h \in OpenHandles(p) :
        LET e == proc[p].handle[h]
        IN  e.hooked /\ e.key[2] \in Maps => lookup_map_name(proc[p].table, h) \in {e.key[2], "(unknown)"}

\* A process seeds the shared data once: from then on it keeps them in being, whoever made
\* them and whoever leaves, and its next OpenFileMapping finds them.
SeedsOnce ==
    \A p \in Procs : proc[p].seeds <= 1 /\ \A key \in proc[p].own : Exists(key)

\* The shim's books are in order: the table of names in its size and right about every handle
\* it knows, the shared data seeded once and kept.
Consistent == TypeOK /\ TableNames /\ SeedsOnce

\* Where the launcher could inject the shim, no module that was there at the start reaches
\* Wine with a prefixed name or a fake handle, however the worker is scheduled.
StaticNeverLeaks ==
    \A p \in Procs : proc[p].leaks \cap Static = {}

\* The worker of a server hooks every vendor module the server loads, or the server ends.
WorkerCatchesUp ==
    \A p \in Servers : \A m \in Dynamic :
        (proc[p].worker /\ m \in proc[p].loaded) ~>
            ({m} \X Apis \subseteq proc[p].patched \/ proc[p].stage = "down")

=============================================================================
