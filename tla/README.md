# A TLA+ model of atzc

atzc offers the Japanese conversion of an existing Windows input method to Linux
hosts. A daemon, `atzcd`, keeps the input method loaded in Wine processes
("workers") and relays requests to it over pipes; hosts (the fcitx5 addon, a
command-line client, other programs linking the client library) talk to the daemon
over a Unix socket. This directory holds TLA+ specifications of that program, the
TLC configurations that check them and TLAPS proofs about them. `PROJECT.json` lists
components, runs, mutants, findings, hazards and theorems, and maps every definition
to the source lines it models.

## The system

```
 fcitx5 addon ─┐                           ┌─ Session ──── HarnessEngine ── pipe ── worker
 CLI, modore  ─┼─ Client ── socket ── atzcd┤  (cache,      (one command,           (AtTipLoad:
 (frontend)   ─┘  (Relay)                  │  prefetch)     one block)              TIP in Wine)
                                           └─ SessionEngine ──────────── pipe ── worker 2
```

| Component | State it keeps | Operations | Talks to |
|---|---|---|---|
| `Session` (src/session.cpp) | result cache and its LRU list, top-1 hints, one pending reading, `fg_waiting_`, `stop_`, three mutexes | `top1`, `candidates`, prefetch loop, destructor | the engine, from two threads |
| `HarnessEngine` (src/harness_engine.cpp) | read buffer, the child | `start`, `topOne`, `convert`, `stop`; warm-up, respawn and one retry of a write | worker, by lines |
| `SessionEngine` (src/session_engine.cpp) | read buffer, the child, `active_` | begin, type, backspace, convert, preedit, commit, cancel, stop | its own worker |
| `HarnessProcess` (src/posix_harness_process.cpp) | pid, two pipe ends | spawn, running, terminate, write, read | worker process |
| daemon (src/atzcd/main.cpp) | listening socket, the connection being served | accept, serve one line, hang up, exit | Session, SessionEngine |
| `Client` (src/client.cpp), `ReconnectingClient` (src/frontend_posix.cpp) | socket, receive buffer | connect, close, one request/one reply; one reconnect and retry | daemon |
| fcitx5 addon (fcitx5/engine.cpp) | per input context: romaji, preedit, `composing`, candidate list | key events, select, reset | daemon, by one `Client` |
| worker host (engine/native/AtTipLoad/AtTipLoad.c, candidates.c) | COM objects, frame window, the command that is under way, the capture of a result, a guard against faults | bring-up, the stdin thread, a message pump, some forty commands, exit | the vendor's TIP, MsctfShim, relay, AtCtl |
| AtCtl (engine/native/AtCtl) | none | one line to the host's window | worker host |
| text store (engine/native/AtTipLoad/textstore.c) | the document: a text of bounded length and a selection | set and insert text, append a character, select, dump | MsctfShim, the host |
| MsctfShim (engine/native/MsctfShim) | wrappers of the framework's objects with their reference counts and sinks, three globals; per context the composition buffer and one range object | key-down, ITfRange, ITfComposition, ITfInsertAtSelection, reset; advise, unadvise, focus, queries for further interfaces | TIP, text store, worker host |
| AtNsShim (engine/native/AtNsShim), AtLaunch | per process the patched import slots, a table of map names, maps kept open | install, patch, hooked calls for maps, mutexes, events and namespaces; start and inject a server | engine servers, worker host |
| scripts (engine/scripts) | Wine prefix, server processes, a lock file for the virtual display | bring-up of the servers, launcher shell of a worker, status, stop | Wine |

What makes these parts hard to get right:

* `Session`: the serving thread and the prefetch thread share one serial engine, a
  cache kept in two containers, and a flag that is read outside the lock. Correct
  means: the engine is used by one thread at a time, cached lists are whole and
  belong to their reading and lead with a conversion made of it,
  wake-ups are not lost, and the destructor ends.
* the engines: the worker may die or fall silent at any point, answers come in
  arbitrary pieces, and a call that has given up must not leave its answer to the
  next one. Correct means: a success is the whole answer to its own command, a
  command is run at most once, a lost composition is reported and never continued on
  another worker, and calls end.
* the socket: the daemon may die at any point and serves one connection at a time.
  Correct means: a reply reaches the call that asked for it, a retry is bounded, no
  descriptor is leaked, and a call ends.
* the addon: it mirrors a composition that lives in another process, for several
  input contexts on one connection, and goes on locally when requests fail. Correct
  means: nothing crosses from one context to another, nothing is committed twice,
  what is committed is what was shown.
* text store and shim: offsets into bounded buffers that host and TIP edit in turn, one
  range object shared by everybody who asked for a range, keys typed into the buffer
  before the TIP has seen them. Correct means: a range covers the text it was made for,
  what the TIP writes replaces what was typed in advance, offsets stay inside, and a
  composition reaches the document once.
* worker host: a message that is sent to its window runs inside whatever command pumps, so
  commands nest; letters the TIP does not eat come back through the input queue later; the
  vendor's code may fault while a session is torn down. Correct means: a result holds
  the text of its own line, the relay reads one whole block per line before its READY, a fault at
  teardown does not cost a warm process, and commands and `quit` end.
* the shim's objects: the host, the TIP and wrappers among themselves hold references, some
  pointers are not counted, sinks are kept twice. Correct means: counts are exact,
  nothing freed is called, a withdrawn sink is forgotten everywhere, nothing leaks.
* namespace bridge: import slots are replaced one by one while the module runs, by three
  different parties. Correct means: all who use a name use one object, in whatever order
  they were hooked, and a process seeds the shared data once.
* processes: two threads of the daemon fork workers, nothing is marked close-on-exec, signals reach
  a shell and not the Wine process below it, and workers outlive their daemon. Correct means: the end of a
  worker's output tells of that worker's death and no other's, the daemon keeps no descriptors of workers it gave up,
  a new daemon finds nothing old running, and whoever reads is not held up for ever by who holds the other end.

## Modules

| Module | Models | Notes |
|---|---|---|
| `BatchSession` | src/session.cpp | one action per critical section or unlocked access; see below |
| `BatchSessionHistory` | | EXTENDS `BatchSession` by a record that no step depends on: the top-1s the session went by for each reading (`top1s`), and the reading whose prefetch the engine has just failed (`refused`) |
| `SessionService` | include/atzc/session.h | abstract: one answer to each call, of its own reading and limit, or a failure |
| `HarnessProcess` | src/posix_harness_process.cpp, worker stdin loop | pipes as sequences of lines; `WorkerDie` at any time |
| `HarnessEngine` | src/harness_engine.cpp | EXTENDS `HarnessProcess`; one action per loop iteration |
| `WorkerTree` | descriptors and processes of src/posix_harness_process.cpp, main of src/atzcd/main.cpp, engine/scripts/at.sh | two engines in one daemon; which process has what open |
| `ConversionService` | include/atzc/engine.h | abstract: at most one run, whole answer or failure |
| `SessionEngine` | src/session_engine.cpp | EXTENDS `HarnessProcess`; the worker's composition is `comp` |
| `Composition` | docs/protocol.md and session_engine.h, session part | abstract: a success applies the request to the text last shown |
| `Relay` | src/client.cpp, src/frontend_posix.cpp, accept loop of src/atzcd/main.cpp | any number of clients, two connections each |
| `FcitxAddon` | fcitx5/engine.cpp | a handler is one step; each request in it has its own outcome |
| `TextStore` | engine/native/AtTipLoad/textstore.c | no variables: the store after each call, as operators on a record |
| `CompositionBuffer` | composition part of engine/native/MsctfShim/MsctfShim.c, with the host's calls to it | EXTENDS `TextStore`; one action per key, message or COM call |
| `TipHost` | engine/native/AtTipLoad/AtTipLoad.c, candidates.c, engine/native/AtCtl/AtCtl.c | the main thread is a stack of scripts; stdin and AtCtl send to it |
| `ShimObjects` | wrappers and sinks of engine/native/MsctfShim/MsctfShim.c with main's calls | one action per call of host or TIP |
| `Namespace` | engine/native/AtNsShim/AtNsShim.c, engine/native/AtLaunch/AtLaunch.c | several processes, their calls and the patching of their slots |
| `BatchSessionProofs`, `HarnessEngineProofs`, `SessionEngineProofs`, `RelayProofs` | | theorems about the module each is named after |
| `ShimProofs` | | theorems about `CompositionBuffer` and about `ShimObjects`, whose definitions have names of their own (`ShimInit`, `ShimSpec`, ...) |
| `WorkerProofs` | | theorems about `WorkerTree`, the processes of a worker, and about `TipHost`, the program at the end of that tree, whose definitions have names of their own (`HostInit`, `HostSpec`, ...) |
| `HostProofs` | | theorems about `Namespace` and about `FcitxAddon`, whose definitions have names of their own (`AddonInit`, `AddonSpec`, ...) so that one module can extend both |
| `HarnessProcessProofs` | | lemmas for both engines: what spawning, reading, printing, dying and dropping do to the lines on their way |
| `MC*` | | instances for TLC; no definition of a model is replaced |

### How state and actions correspond to the code

`BatchSession`. `engineOwner` is `engine_mu_`; the short critical sections on
`cache_mu_` and on the prefetch mutex are single actions. `cache` and `lru` are
`cache_` and `lru_`, kept separately because agreement between them is a property.
Actions are named after the method and the step in it (`Top1Lock`, `Top1Run`,
`Top1Remember`, `Top1Cached`, `Top1Queue`, `Top1Notify`, ...); `BuildTake`,
`BuildHenkan` and `BuildReconv` are `buildCandidates`, run by either thread. The
condition variable is a place in the worker's program (`asleep` until notified), so
that a notification sent to a worker that is not asleep is lost, as it is in the
program; the predicate of the wait is evaluated as the code does it. Engine calls
succeed, or fail when `EngineFails` allows it. The engine may return another top-1
for the same reading from call to call (`Tops`). Under the refinement of `SessionService`, `Asked(c)` is the call that `c` has in
progress, read off its place and its locals; cache, hints, prefetch and engine are not seen.

`HarnessProcess`. `stdin` and `stdout` are the pipes, `worker.todo` the lines a
worker is still going to print for the command it has taken. `ReadSome` takes any
non-empty prefix of what is there, `ReadNothing` is a poll that ends in silence,
`ReadEof` the end of file, which also clears the process as the code does. Line
splitting is not modelled: a read in the middle of a line only delays it.

`WorkerTree` is the other view of the same file: no lines, but who has which end open. `has` is the daemon's
descriptor table, `tree[l]` the launcher shell and the Wine process of launch `l` with what they
inherited, `pc[e]` how far `spawn` is on the thread of engine `e`: `FirstPipe`, `SecondPipe`, `Fork` and
`CloseTheirs` are its four system calls, between which the other engine acts. A pipe breaks or ends when nobody
holds the other end (`Held`). `Terminate` and `SpawnFails` end the daemon while it warms up, as main does. `ResetServers` is
at.sh's `kill_existing_tipruntime`, which stops every Wine process of the prefix, and `PrepareServers` the launch of the servers that follows it.
`ReadsEnd` is the end of the stdin thread, after which the host pumps for ever: such a worker is `deaf`.
`HarnessProcess` lets a worker fall silent at any time, which covers an end of file that another worker hides.

`HarnessEngine` and `SessionEngine`. `rbuf` and `waited` are the locals of the read
loops; a time-out is `Patience` silent reads in a row, `ReadyPatience` at bring-up
(the code's milliseconds divided by its poll interval). In `SessionEngine`, `view` is
what the client has been shown, a history variable used by the refinement mapping.

`Relay`. A connection has two ends and the lines on their way in both directions;
`backlog` is the listen queue, `serving` the descriptor of `serve_conn`, `job` the
request being run. `Keepers` are clients that hold their connection between calls,
`Retriers` those that call through `ReconnectingClient`, `Ignorers` hosts whose own
code ignores SIGPIPE. `Die` closes all far ends at once, as under the service file, where systemd kills the workers with the daemon;
workers of a daemon started by hand keep the connection they inherited, which is modelled in `WorkerTree` (`WaitsEnd`).

`FcitxAddon`. `world` is the connection and the daemon's composition, `st[i]` the
state of input context `i` with its input panel. A key is a letter with its context and a
serial number, so that a key that appears twice, or in the wrong context, is
visible. A syllable is a consonant followed by a vowel, which is all that tells a
letter from a kana. The candidates of a reading are represented by the reading: which
of them is picked does not matter to the properties. The branch of `startConversion`
that commits when the list is empty and a commit is not cannot be reached, since the
daemon puts its commit in the list; the model has only the early return.

`TextStore`. The buffer's contents up to `len` are a sequence. `LogContent` writes a
terminator at `buf[len]`; when `ts_SetText` has filled the buffer this is the low half of
`len`, the field behind it, which becomes zero: the model does that. The branch of
`TextStore_AppendChar` for an interim selection is left out: the command that sets that flag
also makes the host skip the call.

`CompositionBuffer`. `ctx` is the context's `comp_active`, `comp_text` up to `comp_len`, and the
offsets of its range. The view and the composition hold the same range object, and a range
the TIP "clones" is that object with one more reference, so there is one pair of offsets.
`KeyLetter` to `KeyOther` are the branches of `msctf_append_key` (the owner's composition
sink only logs). `range_SetText` with a start behind the text uncovers characters
left in the buffer: `Stale`. What the TIP does about a key is any number of later steps. `tip` is the TIP's own view
of the composition, which is not in the repository: it calls `EndComposition` only on a
composition it started, once or repeatedly (the comment at MsctfShim.c:1503 describes such
a repetition), and has finished with it when the next key arrives. `hist` is history for the properties.

`TipHost`. `stack` is the C stack of the main thread, innermost command first, `main` last; a
frame's `script` is what is left of the command, one entry per call that touches shared state
or pumps. A line that was sent (`DispatchMessage`) becomes a new frame wherever the innermost
one pumps (`At("pump")`) or main loops (`"loop"`). Text is modelled by whose letters it is:
`comp`, `cap` and `queue` hold the numbers of lines, and `met` notes the company a command had. `armed`
and `guard` are `g_daemon_cap_active` and `g_teardown_guard` with their owner. `Teardown` is
where Wine ends the edit session and may fault; the handler resumes at the saved context if the
guard is up. `run` says how the process ended. The four modes are the environments the process is started
with: kept alive, one-shot, a snapshot, and the driven test outside the command loop.

`ShimObjects`. `refs` are the `refs` fields. `Parents` says which wrappers have a field for
which. `Release` follows the destructors: a wrapper's fields lead only to wrappers of a later rank (`Outer`, `Middle`,
`Inner`) or to sinks, so it finds those that die rank by rank (`Dying`), each when the releases it is due (`Due`) reach its
count, and notes in `wild` what is released beyond zero or called when it is free. `held` are the
references the TIP has been handed; it gives back those and no others. `host` is how far main
has come, and with it the references main has. Sources keep a `table`, and beside it the `first` sink with its
cookie; other wrappers have one `slot`. `g_key_sink`, the items and sinks of the language bar
and `active` (`g_active_tm`, `g_active_context`) are the globals. `given` is history: what
has been advised and not withdrawn. The TIP is well behaved, has one object that is an event sink, creates no
documents or contexts of its own and takes one compartment wrapper at a time. Wine has no language bar, allocations
succeed, main sets the focus. The `AT_STICKY_KEYSINK` variable is read at each call and may differ.

`Namespace`. `proc[p]` is a process: its modules, which of their import slots are the
shim's, its handles, the table of map names, the maps the shim keeps open. A module has two kinds of slots,
calls that take a name and calls that free a handle; the worker replaces them one at a
time (`WorkerPatch`), the host and `DllMain` all at once. An object exists while somebody has it open. The
two widths of a call are one action. `OpenCE`, `CreateCE`, `SeedCE`, `ReopenCE` are the steps
of one `OpenFileMappingW` that finds no shared data.

## Runs

Passing runs:

| Run | Instance | What it shows |
|---|---|---|
| `session` | one caller, worker, two readings, a cache of 1; one reading has two top-1s that take turns as the engine likes, the other none; failures at any call | `EngineExclusive`, `CacheHoldsWholeLists`; `LeadsWithTop1`: a list that is cached or returned leads with a top-1 the session has gone by for its reading, or with `convert`'s first candidate once a build had to go without one; refinement of `SessionService`; `CallsReturn` (calls and destructor), `PrefetchLands`; `Consistent`: the cache and its eviction order agree (`CacheMatchesOrder`), the naps are bounded, `fg_waiting_` counts the waiting callers, lists are well formed |
| `engine` | one henkan and one convert, patience 2 | refinement of `ConversionService`, `CallsReturn`; `Consistent`: silence is counted to the limit, and nothing of a call is left over for the next but lines that belong to no block (`NothingLeftOver`): Ready, or the timing line that AT_TIPLOAD_TIMING prints after `ATD END` |
| `composition` | two keys, texts of up to 2 symbols, patience 2 | refinement of `Composition`, `RequestsReturn`; `Consistent`: no live composition without a worker, and engine, worker and client agree between requests (`ActiveOnWorker`, `Agreement`) |
| `relay` | a keeping, retrying host and a one-shot client, two requests | `OwnAnswer`, `AnsweredUnlessHeld`; `Consistent`: no descriptor is leaked or held twice (`FarEndsOwned`), a call is begun once more than it fails at most (`RunAtMostTwice`) |
| `addon` | two contexts, three letters, refusals and lost connections | `NoOrphan`, `CommitsWhatIsShown`; `AddonConsistent`: each key stays in its context and is committed at most once (`OwnKeys`, `NoKeyTwice`), and until a request fails what is shown is the daemon's (`MirrorsDaemon`) |
| `namespace` | the host and one server, one static and one late module, two maps and one lock, one open handle each, two calls | `Sharing`, `StaticNeverLeaks`, `WorkerCatchesUp`, with processes ending at any time; `Consistent`: the table of names is right, a process seeds the shared data once (`TableNames`, `SeedsOnce`) |
| `tiphost` | two lines of stdin, one of AtCtl (which may hold two commands), readings of one letter, all four modes | `NoResidue`, `SurvivesTeardown`, `Stream`, `CommandsEnd` (`Answered`, `QuitEnds`); `HostConsistent`: capture and fault handler belong to the innermost command (`ArmedAlone`, `GuardOwned`) |
| `shimobjects` | four calls of the TIP that hand out or register, in any order and at any stage, and any number that give back; two sinks, tables of two | `NoUseAfterFree`, `FocusTold`, `NothingLeaks`; `ShimConsistent`: counts are exact, withdrawn sinks are gone everywhere (`RefsExact`, `WithdrawnGone`) |
| `buffer` | buffers of 2 and 3 characters, one key character, one TIP character | `ReadsWhole`, `TipTextWins`, `CommitOnce` with host and TIP acting in any order; `Consistent`: lengths, range and selection in order (`SelectionInStore`) |
| `worker_tree` | two engines, two spawns, two daemons; pipes and forks that fail, workers that hang, crash or go deaf | `OwnPipesOnly`, `RestartCleans`, `WaitsEnd`; `Consistent`: each engine knows its shell and its descriptors, workers run only once the servers have been launched, no end of file from a worker that lives (`ShellsKnown`, `DescriptorsKnown`, `ServersLaunched`, `EndMeansDead`) |

Where a module has a `Consistent`, it is its `TypeOK` together with the invariants about the
book-keeping that the other properties rest on. Every property, and most parts of a `Consistent`,
have a mutant in `PROJECT.json`: a changed definition under which TLC finds it violated.

Runs that show a disagreement between the code and what the repository says of it
(the trace of each is a behaviour of the code):

| Run | Property | What happens |
|---|---|---|
| `session_inline` | `ListMatchesInline` | a `candidates` call whose henkan fails caches a list that `convert`'s first candidate leads; the next `top1` shows henkan's text, prefetches nothing because a list is cached, and the list that is opened leads with the other text: session.cpp:121 has it "consistent with this top-1 when opened", docs/protocol.md:49 "a cache hit that leads with the same top-1" |
| `buffer_commit` | `CommitReachesStore` | Return marks the composition over before the TIP sees the key; the TIP's `EndComposition` then flushes nothing |

Met while modelling, and not given a run of their own:

* The accept loop serves a connection until its client closes it, and hosts are told to keep theirs
  (client.h:4): while one host is connected no other is answered, though local_converter.h:6 has
  one engine "shared across fcitx5/ibus/modore/cli". `AnsweredUnlessHeld` has the exception.
* A worker forked between the other engine's `pipe` and `close` keeps the read end of that worker's input and the
  write end of its output (posix_harness_process.cpp:72, :76). When that one dies the write succeeds
  and no end of file comes; the request waits for its time-out, where harness_engine.h:4 says the worker is
  "transparently respawned". `WaitsEnd` holds because of the time-outs; with a single engine a death always shows.
* `terminate` signals the shell (posix_harness_process.cpp:109), harness_process.h:33 says "graceful, then forceful".
  The Wine process gets no signal, and at the end of its input it goes on pumping (`ReadsEnd`): every worker that timed
  out is there until the next daemon-up, which is as far as `RestartCleans` goes.
* A shell that has not started Wine when daemon-up resets the servers escapes the reset and starts a worker
  nobody reads, with the connection of a dead daemon; hence the conditions of `ClientReleased` and `tree[l].ran`.
* session.cpp:168 says the prefetch thread does not "grab the engine while one is
  waiting". It reads `fg_waiting_` and takes `engine_mu_` in a later step, and stops
  yielding after 200 naps, so it can (steps `PrefetchYield`, `PrefetchLock`).
* harness_engine.cpp:108 kills the worker after a time-out as wedged. A `convert` for which the
  TIP has no list prints no block at all (AtTipLoad.c:93, `Session` without candidates in `TipHost`): the relay waits out
  its time-out and kills an idle worker.
* After a refused request the addon has no composition of its own to go on with: the next letter
  begins a new one and replaces all that was shown (fcitx5/engine.cpp:232, engine.cpp:243).
* The worker releases `engine_mu_` before `cachePut`; a `candidates` call that waited for
  the engine then builds the same list again (`PrefetchRecheck` to `PrefetchPut`).
* engine.cpp:177 says the second Space opens the candidate list. Every Space is sent as a
  conversion in place (`Space`); the list opens only if that fails.
* `Client::send_line` writes without MSG_NOSIGNAL and only the daemon ignores SIGPIPE: a
  host with the default disposition is killed by the write that finds the daemon gone
  (`Send`, clients outside `Ignorers`).
* `run_runtime_command` under engine/native has none of the session commands that
  session_engine.h documents (`sreset`, `stype`, ...); it acknowledges them with `ATD READY`,
  which `readReply` skips, so with that worker every session request would time out. The
  worker of `SessionEngine` is the documented one and is marked external.
* engine.h:28 says the addon mirrors the reading "plus the raw romaji". BackSpace takes one letter off
  the romaji and the daemon one kana off the reading (`BackSpace`): after "ka" and BackSpace
  the reading is empty and the romaji is "k", which the candidate window would convert.
* A letter is in `comp_text` before the TIP sees it. A TIP that ends the composition on that
  letter without writing its text again commits the raw letter too (`KeyLetter`, `EndComposition`).
* `StartComposition` empties the text but does not reset the range. After a
  `ShiftStart` by the TIP the next `SetText` writes behind a gap of old characters (`UpToStart`).
* `ts_SetText` admits a text that fills the buffer, and the next dump then zeroes the length
  (`LogContent`): the document is lost. It takes 4096 committed characters.
* A line of AtCtl that runs inside a command of the relay can clear or extend the text of
  that command's result; `NoResidue` says no more than that such company is the only way.
  `CtlBlock`: a result AtCtl asks for goes to the relay's pipe.
* `search` before the thread manager is there dereferences a null pointer (candidates.c:296); the
  window answers from the start. The TIP that `manualtip` loads is in a local variable, so main never
  deactivates it. At the end of stdin the thread ends and main pumps for ever.
* main releases the document at exit, then the thread manager releases it again
  (MsctfShim.c:5033): `tm_CreateDocumentMgr` hands out its only reference. If the TIP still holds the
  document it loses its reference instead. A TIP that the profile loaded is never deactivated.
* AtNsShim.c says the worker is only started by an explicit `AtNsShimInstall`; `DllMain` starts
  it in every vendor process (`DllMain`). The map of `AT_AUTOCREATE_IB` gets the mutex's own name and is always
  refused. The wide form of a rewritten name is cut at 256 characters, the narrow form
  goes on unrewritten.
* textstore.c:552 says that the henkan path reads `TextStore_GetText`; it reads
  `MsctfShim_GetCompText`.

### Bounds, and why they are enough

* `session`, `session_inline`: the code has one serving thread; the proofs cover any number. Two
  readings and a cache of one list force eviction, replacement of a pending reading
  and puts of a reading that is already cached. `MaxYields` stands for the 200 naps
  of the prefetch thread: 1 distinguishes "yielded" from "gave up yielding".
  Neither of the two top-1s of a reading is the first candidate of `convert`, so that it shows which of the three a
  list leads with. The hints are dropped when a top-1 comes while both readings have one, but with two readings they cannot
  exceed `CacheMax + 1` whatever the code does: that bound is left to the proof (`FewHints`), which takes a third reading.
  The empty reading, which is never prefetched, is left to the proofs as well.
* `engine`, `composition`: with a patience of 2 a time-out can come before, in the
  middle of and after an answer, and a slow answer can still arrive in time. One
  `henkan` and one `convert` command are told apart by the lines they print. Calls
  are not limited in number. Texts of two symbols allow a key, a conversion and a
  backspace in any order.
* `relay`: a client needs a second connection because the daemon may still be
  serving its previous one when it reconnects; with two at a time a client that
  reconnects again waits until the daemon has noticed. Requests differ so that a
  foreign answer is recognised. `ran` is capped at 3, one above what the property allows.
* `addon`: three letters make an open consonant, a whole syllable and one
  more; contexts lose focus in the middle of each.
* `buffer*`: `CompMax` 2 and `StoreMax` 3 stand for 255 (`comp_text` less its terminator) and 4096 (TS_BUF_CHARS): both can be empty, partly
  filled and full, a composition may fit or not, and a document may be full with or without a selection to
  replace. The TIP's texts go one character beyond the buffer, so that every refusal happens. `RangeMax` caps
  what `ShiftEnd` can add, which the code does not limit; the proofs assume only that it
  is at least `CompMax`. Key and TIP characters are told apart to see whose text is left.

* `namespace`: the two processes differ in who hooks them. The two modules differ in when they come. Two
  object calls make two holders of a name; handles are few so that numbers are reused, and the table has one
  slot so that it overflows.
* `worker_tree`: two spawns overlap when the engines make one each, and one engine that makes both replaces
  a worker; the second daemon meets what the first left. The proofs cover any number of both.
* `tiphost`: two lines show what one leaves to the next; one AtCtl line of two commands nests to a depth of
  two, and can meet both. One letter tells whose text it is.
* `shimobjects`: four calls are enough to advise two sinks and hold the wrapper they need, to
  replace a sink and its copy, or to hold three wrappers when main ends. Sinks are two so that one can
  replace the other.

### Fairness

* `BatchSession`: weak fairness of each caller inside a call, of the worker and of
  the destructor: threads that can run, run. `engine_mu_` is a mutex without a
  fairness guarantee; hence `PrefetchLands` is stated for behaviours in which the callers
  eventually leave the engine alone, and the worker's claim on the engine is not
  given strong fairness. The engine may fail any call; a prefetch that fails is excused (`refused`), as
  the code does not try again.
* `HarnessEngine`, `SessionEngine`: weak fairness of the engine's own steps only. The
  worker is never obliged to answer, nor to die: that calls end is due to the time-outs.
* `Relay`: weak fairness of a client inside a call, of the daemon's steps, and of
  `Restart` (the service file restarts a failed daemon). No client is obliged to
  call, or to close a connection. The daemon's request always ends; `engine` and
  `composition` show that.
* `TipHost`: weak fairness of the main thread and of the stdin thread's acknowledgement: both run,
  and the TIP's calls return. Nobody is obliged to send a line, and a pump may end at any time.
* `WorkerTree`: weak fairness of the start of a daemon and of its bring-up (it is started again), of a spawn's steps, of
  reading (poll times out), of the host seeing the end of its connection, and of each launch's processes; nobody is
  obliged to write, to crash or to hang, and no worker to answer.
* `Namespace`: weak fairness of each worker thread, which sleeps and scans again for ever.
* `FcitxAddon`, `CompositionBuffer` and `ShimObjects` have no liveness property: handlers run to completion.

## Proofs

`BatchSessionProofs` proves, for any set of callers, readings, limits and texts and any
cache size:

* `TypeCorrect`: `Spec => []TypeOK`;
* `EngineMutualExclusion`: a thread is in a step that uses the engine iff it owns
  `engine_mu_`;
* `CacheAgreesWithOrder`: the cache and the eviction order hold the same readings, each
  once, at most `CacheMax`;
* `CacheIsWhole`: what is cached for a reading is a whole list built for it, never
  truncated by a caller's limit and never another thread's;
* `BooksInOrder`: beside that agreement, the hints stay within `CacheMax + 1`, `fg_waiting_` is the number of callers that wait
  for the engine, and every cached list leads with its one commit and loses nothing that convert returned;
* `ListsAreLed`: `HistorySpec => []LeadsWithTop1`, with engine calls that fail and top-1s that change as they like;
* `SessionIsAService`: `Spec => Implements`, the refinement of `SessionService`.

None of these is inductive alone. The invariant is
`IInv == LocalsOK /\ SharedOK /\ CacheOK /\ EngineExclusive`. `LocalsOK` says what each
thread's locals must be at each program point (for instance that a thread about to put
holds a list built for the reading it will put it under): this is what carries wholeness from
`buildCandidates` across the release of the engine to `cachePut`. `SharedOK` types the shared
variables, `CacheOK` is agreement and wholeness; it needs `LocalsOK` at the two puts
and the lemma `CachePutKeeps` about `cachePut`, which covers insertion, replacement and
eviction. `EngineExclusive` needs `LocalsOK` for where a builder returns to. There is one
step per action in each preservation lemma.

For `BooksInOrder`, `CountOK` counts the callers at the steps between the announcement and the lock, and `FewHints` follows
`rememberTop1` through its one eviction. That lists are well formed is about the loops of `buildCandidates`, which
`BatchSession` has as recursive functions. The library's induction theorems cannot be used for them, so the induction is
made by hand: a set of numbers that is not empty has a least one (`LeastNat`), so a property that holds at 0 and is handed on holds up to n
(`UpTo`), and a function that satisfies the equations of a recursive definition exists
(`RecursionExists`), so that CHOOSE picks one that does. `WithoutKeeps` and `FirstOfEachKeeps` are what the two loops preserve.

That the list always opens with the text shown is false of the code (`session_inline`). What `ListsAreLed` says of it needs no condition on
the engine: through hints that are dropped wholesale or taken by the other thread's build, lists that are evicted and built again, and failed
calls, no list gets a leader that was not a top-1 of its own reading, but for `convert`'s first candidate where henkan had none to
give. So where one top-1 is all the session ever had for a reading, the list opens with what was shown inline. The proof
follows a top-1 from the step that puts it on record (`Settled`): it is carried by a call to its hint
(`HintsLed`), from the hint or from henkan by a build to its list (`ThreadsLed`, `MergedIsLed`), by the list to the cache and to the replies
(`CacheLed`, `RepliesLed`). The record only grows (`RecordGrows`), so what was led once stays led.

`SessionIsAService` adds `CallsOK`: the limit a call carries, that no call is in progress once `~Session` has begun, and that there is
a reply for each caller. A step of a caller begins a call (`CallBegins`), ends it (`CallReturns`) or is
not seen (`CallGoesOn`), and the worker's steps are never seen (`CallersStay`). What makes a return right is `CacheHoldsWholeLists` for a hit and
`LocalsOK` for a list just built, and that the code's cut is the promised one (`CapIsFirst`, `SuccessAnswers`).

The assumptions are those stated in `BatchSession`: distinct thread names, `CacheMax` a
positive natural number, engine results that are texts, and candidates that are not empty strings (the host prints no
empty candidate, candidates.c:358, and `readBlock` keeps no empty enriched entry, harness_engine.cpp:99).

`HarnessEngineProofs` proves, for any commands, any answers and any patience,
`NothingOutlivesACall`: `Spec => []Consistent`. `NothingLeftOver` speaks only of the places between
two calls; the invariant must say what is on its way while a call is reading.
`IInv == TypeOK /\ CommandKnown /\ OneCommand /\ Awaited /\ EndsOnce(Stream)`: one command at most is in
the pipe, and only while its answer is read; a line of a block is on its way only while the answer is read
and the command has left the pipe; and behind an `ATD END` there are only stray lines. The last part is what
makes it safe to return at the `ATD END` that is read; it rests on `AnswersAssumption`: a worker prints
one block for a command, perhaps an empty one, and then at most its timing.

`EngineIsAService` is the refinement: `Spec => Implements`, `ConversionService` with the phase of the call, the command, the
result and the number of runs mapped. A result is a recursive function of the lines read, so this too is induction by hand:
`AfterLine` is one line more, `AfterEnd` says that what follows the block changes nothing. The invariant `CallOK` relates what the engine has of an answer
to what is still on its way: from the moment the command is taken there is one answer of the command and a number of lines
of it that have been read, what was read gives `out`, and the stream continues with the rest, cut off somewhere if the worker died (`Continues`).
`StepMaps` then maps a return at `ATD END` to the whole answer, a return for any other reason to a failure with a beginning of it, and all
other steps to stutters (`Unseen`).

`SessionEngineProofs` proves, for any keys, texts, effects of the commands and patience:

* `EngineAndClientAgree`: `Spec => []Consistent`;
* `EngineIsAComposition`: `Spec => Implements`, the refinement of `Composition`.

The invariant has six parts beside the types. `Serving`: the command is that of the request, and without
a composition it is one that ends with none. `Told`: `active_` is what the client was told, except between
the two commands of a key. `OneCommand`. `InStep`: the worker's text is the one shown, or, once it has taken
the command, the one shown with the command applied. `Replies`: one reply at most is on its way, the
expected one, and only while it is awaited. `ActiveOnWorker`. `RightReply` derives from them that the line that ends a read
is the expected reply; a step of the engine then maps to the answer of `Composition` (`EnterMaps`, `FinishMaps`,
`FailureIsTold`) or to a stutter (`HiddenSteps`). The assumptions are those of `SessionEngine`: patience is positive, a reset, a cancel and a
commit leave no text, a query leaves it as it is, and Ready is not a reply.

Both engines share the lemmas of `HarnessProcessProofs`: `Stream`, the lines on their way, is unchanged by reading
and printing (`ReadKeepsStream`, `PrintKeepsStream`), loses its end when the worker dies (`DieKeepsOrder`), its first line
when one is examined (`LineRead`), and gains an answer when a command is taken (`TakeStream`).

`ShimProofs` has two parts. About `CompositionBuffer` it proves, for buffers of any size and any sets of characters:

* `BuffersStayConsistent` (`Consistent`), from `TypeCorrect` (neither buffer is ever overfilled, `comp_text` keeps room for its
  terminator, and the range is ordered) and `SelectionStaysInStore`;
* `RangeReadsWhole` (`ReadsWhole`), `TipTextReplacesAll` (`TipTextWins`) and `CommittedOnce` (`CommitOnce`).

The inductive invariant is `IInv == Typing /\ RangeCovers /\ SelectionInStore`.
`RangeCovers` is stronger than `ReadsWhole`: an unmoved range starts at 0 and ends at
or beyond the end of the text. "At or beyond" is needed because `StartComposition` leaves
the old end in place; it suffices because reading and writing clamp the end. `CommitOnce` needs
one more invariant, `DeliveredIsOver`: once the text of a composition is in the store, the
TIP is either done with it, and will not end it, or still finishing it while the shim has it inactive. The lemmas
`SetTextKeeps`, `AppendCharKeeps`, `InsertKeeps`, `WrittenText` and their like say what each
operation on the two buffers preserves. The assumptions are `StoreMax` a positive number and `CompMax <= RangeMax`.

About `ShimObjects` it proves, for any sinks and items, tables of any size and any number of calls of the TIP,
`CountsAndCookiesAreExact` (`ShimConsistent`), `NothingFreedIsUsed` (`NoUseAfterFree`), `FocusIsAnnounced` (`FocusTold`) and `NothingIsLeaked`
(`NothingLeaks`). That a count equals the references there are is not inductive: a destructor lets go of its fields
whether or not they were counted. `Stages` says what has been made, and what the TIP can have been handed, at each step of main;
`Unmade` that a wrapper that does not exist has no sinks. `WrappersExact` has an equation for the count of each wrapper, and says
which fields count: `ex` for the thread manager, but not the reverse, the context for its view, and so on; the document is
counted in no field, and the equation for it ends with the last step of main. `LeavesExact` has the equation for
sinks and items: the globals, and the slots, tables and first sinks of wrappers that are alive. `Cookies`: in each table a
cookie belongs to one registration, and the sink kept beside a table to one that is listed; `HostsCookie` keeps the
host's at 1 until main withdraws it. `Untouched` bounds what was called when free: nothing, and in the last step the document,
whose last reference is another's. `Heard` is `FocusTold` for every later step. The argument about `Release`
is `ReleaseIs` and `ReleaseKeeps`: those that die are those whose count reaches zero, each loses exactly its due, and so the
equations hold of those that live on. `OneTable`, `Advised`, `Unadvised` and `OneSlot` are about registering
and withdrawing, which change the references to two sinks at most. The assumptions are `ShimConstants` and `LeavesAreOthers`
(sinks, items and wrappers are different objects).

`WorkerProofs` has two parts. About `WorkerTree` it proves, for any number of spawns and daemons, `TreeIsConsistent` (`Consistent`), `OnlyOwnPipes`
(`OwnPipesOnly`) and `ResetLeavesNothingOld` (`RestartCleans`). None is inductive. `PipesOK` and `LeftOK` say what the daemon has
open of every launch, in hand or not, at each step of a spawn. `OwnPipesOnly` is about what workers inherited, which depends on what was open at the
fork: `ApartOK` says that the pipes an engine has in hand are unknown to its earlier workers, and `FreshOK`
that those of a launch to come are unknown to all. `LivesOK` says that a daemon that has not warmed up has launched nothing, so that what it finds
running after the reset can only be its own. `LetGo` is the common part of `terminate` and of a spawn that fails,
`EndedKeeps` of everything that ends a daemon. The assumption is `TreeAssumption`.

About `TipHost` it proves, for any lines, modes, numbers of senders and lengths of a reading, `CommandsNest` (`HostConsistent`),
`NothingIsLeftOver` (`NoResidue`), `TeardownIsSurvived` (`SurvivesTeardown`) and `StreamIsInOrder` (`Stream`). The stack has no bound, so
the invariant `HostInv` is about scripts rather than about the commands they come from. A script has its captures as whole brackets, from `arm` to
`disarm` (`Bracketed`); the composition is cleared and a reading typed before a text is captured (`Clears`, `Types`). `LinesFine` and
`MainFine` show this of everything the loop and main can run. Only the innermost command may be inside a bracket or a session's teardown, with its next n steps left of
it (`Inner`): nothing pumps between `arm` and `disarm`, so no command can come in there, and that is what lets one global
buffer and one guard serve all. All others are outside (`Outer`). `FrameOK` ties a script to the texts: unless it still has to clear the composition, the composition holds
nothing of a line the command has not met; unless it still has to type its reading, the composition has a letter of it, or one is
on its way. `Captured` carries both to the capture buffer and `Clean` to what was written. `Nested` says whose commands are on the stack,
each once, and that each has met those inside it. `Whole` follows a block from `BEGIN`, directly behind the `READY` of the line before it, to `END`; it is why a line may
ask for one result only. `Unfaulted` is what `SurvivesTeardown` needs of `Inner`: in the warm mode the guard is up whenever a teardown is
to come. There is one lemma per action. The assumptions are `TipHostAssumption` (a reading has a letter, senders' numbers differ from those of lines) and
`RelayLines` (the relay asks for at most one result in a line and does not use `search`). `NoResidue` says in its second part that the
text is exactly the line's own.

`RelayProofs` proves, for any number of clients, whichever keep their connection, retry or ignore `SIGPIPE`, that a reply read is the
reply to what was asked (`RepliesMatch` for `OwnAnswer`) and that descriptors and calls are well kept (`SocketsAreKept`
for `Consistent`). `OwnAnswer` says nothing of a client that waits, so it is not inductive: `InFlight` says where the one
request of such a client can be, in the socket, with the daemon, lost with it, or answered, and never in two of these.
`RunOK` bounds how often it has been begun by how often it was tried, and `EndsOK` says what the daemon has open. A client's step
touches nobody else (`OthersKept`); the daemon's steps are about the one connection it serves (`ServesKeeps`). The
assumption is `ClientAssumption`.

`HostProofs` has two parts. About `Namespace` it proves, for any processes, modules, names and handles and any number of
calls, `NamesAreShared` (`Sharing`), `StaticModulesNeverLeak` (`StaticNeverLeaks`) and `BooksConsistent` (`Consistent`). The
invariant `NsInv` is a predicate on one process (`Good`) for each of them, and that what a process keeps open exists. `Covered` is
what the order of bring-up gives: while a server is suspended only its static modules are loaded, so the injection, if
it succeeds, patches all of them before any runs. `Named` is stronger than `TableNames`: every entry of a handle, not only the one found first,
has the right name. It is kept through the reuse of a handle (`RememberMapName`) because a call of the shim rewrites all entries
of the handle, and a call that is not the shim's gives a handle about which nothing is claimed. `SeedsOwn` says that a process seeds at most once and has the map open from then on.

About `FcitxAddon` it proves, for any contexts and letters, any number of keys and any faults, `KeysStayWhereTyped`
(`AddonConsistent`), `NoCompositionIsOrphaned` (`NoOrphan`) and `CommittedAsShown` (`CommitsWhatIsShown`). The invariant `AddonInv` says that
contexts without the focus are fresh, and of the one with it (`Sane`): the daemon's composition is known to it, and
what the daemon has in it is what the context has (`Mirrors`); what is displayed is the list's reading or the text (`Panel`); and what it
holds, as romaji and as kana, was typed in it and comes after everything committed (`Ordered`). The last is why a key is committed once
although the daemon and the addon may both supply it: serial numbers rise along what was committed followed by what is
held, so a commit needs only that the rest is dropped. `RequestReplied` and `AgainReplied` are what a request leaves, whatever its
outcome; there is one lemma per handler, about every outcome of it. The keys of a text are a recursive function of its
syllables: `SpellAppend`, `SpellLast` and `SpellLetters` are the inductions. The assumptions are `NamespaceAssumption` and `FaultAssumption`.

Only model-checked: all liveness properties (`CallsReturn`, `PrefetchLands`, `RequestsReturn`, `AnsweredUnlessHeld`, `WorkerCatchesUp`, `CommandsEnd`, `WaitsEnd`):
liveness under fairness is not within reach of the prover. Every invariant that a passing run checks is proved.

## Not modelled, and why

* Bytes on the wire (`proto.h`): fields are values. A reading that contains a tab or a
  newline is outside the model.
* Descriptors other than pipes and the two sockets, and what a full table does beyond failing `pipe` and `fork`.
* MsctfShim: the values of compartments, UI elements, the category manager's atoms, the
  enumeration of profiles and edit sessions, which go to Wine. What a failed allocation does.
* AtTipLoad: the profile and compartment set-up, the environment's timing variables, forced sets of
  reconversion, logging; that a line is cut at `;` and at 511 characters. The runtime mode without the relay's
  pipe differs only in that nothing is printed. Locks and rectangle queries of the text store. The helpers of AtCtl that
  look for a process are dead code.
* AtNsShim: the table of registry paths, the logging of file names, what is in the maps. A module snapshot or a `VirtualProtect` that fails
  (AtNsShim.c:1994, :1921), after which slots stay as they are. Another process that creates the map between
  `OpenFileMappingW` and `CreateFileMappingW` of this one has its data seeded again (AtNsShim.c:1134): `SeedsOnce` is about the process's own seeding.
* Of the scripts: the virtual display and its lock file, the registry import and its stamp, the layout of the
  prefix, the liveness checks of the servers and the commands for use by hand. `WorkerTree` has bring-up as
  steps that succeed or end the daemon; at.sh skips a server that is not installed and checks none it launched (at.sh:257-272), so
  `ServersLaunched` says that bring-up got past the launch, not that a server answers.
* `LocalConverter`: it delegates to `Session` and has no state.
* Provisioning, build scripts, diagnostics, GUID tables, CRT shims: no state of interest.
* The vendor's input method: not in the repository.

Hazards met and not in `PROJECT.json`, because no model reaches them: `at_headless_teardown` reads the lock file after the display was probed
and can kill the one that another worker's shell has just started (wine-headless.sh:83), or a process that has
the number of a dead one (wine-headless.sh:85); `AT_HEADLESS_GFX_APPLIED` stays set when daemon-up loses
its display (at.sh:89); a registry import that comes before the first build leaves the bridge out of
AppInit_DLLs, and its stamp keeps it from being done again (at-wine.sh); a module unloaded while the bridge walks its import table
(AtNsShim.c:1986); `ClearCompartment` leaves the shim's own copy of the value (MsctfShim.c:3250);
`AdviseItemsSink` stops half way and keeps the earlier sinks (MsctfShim.c:4181); `make_context` releases its
argument on failure, as its caller does (MsctfShim.c:2248); `ActivateLanguageProfile` answers success
whatever the TIP said (MsctfShim.c:2449).

## Plan

Done: the session, both engines and their promises, the socket, the addon, the text store and the
composition buffer, the worker host, the shim's objects, the namespace bridge and the tree of worker processes; proofs
about `BatchSession`, the two engines, `CompositionBuffer`, `ShimObjects`, `WorkerTree`, `TipHost`, `Relay`, `Namespace` and `FcitxAddon`. In order, what is left:

1. The virtual display's lock file and the registry stamp, which the shells of several workers share (wine-headless.sh, at-wine.sh).
2. `TipHost` as an implementation of the worker that `HarnessProcess` assumes, and composed
   with `CompositionBuffer` for what `henkan` reads.
3. Compartment values, the clearing of a compartment and UI elements, as a part of `ShimObjects`.
4. Proofs: that `TipHost` implements that worker, step by step, once 2 is there; and for `ShimObjects` what a failed
   allocation leaves, once 3 is there.
