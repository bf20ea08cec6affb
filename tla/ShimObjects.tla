---------------------------- MODULE ShimObjects ----------------------------
(***************************************************************************)
(* The COM objects of MsctfShim.c and who keeps them alive.  The host      *)
(* (main of AtTipLoad.c) creates the thread manager, the document and the  *)
(* context through the shim and releases them at exit; the TIP, loaded by  *)
(* the shim for a pending profile or by the host, asks the shim for more   *)
(* wrappers and registers its sinks with them.  Every wrapper and every    *)
(* sink has a reference count; a wrapper whose count reaches zero releases *)
(* what its fields point to, whether or not the field was counted.         *)
(*                                                                         *)
(* The TIP runs only inside calls of the host's thread, so one call into   *)
(* the shim is one action.  The clients are well behaved: they release     *)
(* what they were handed and nothing else.                                 *)
(***************************************************************************)
EXTENDS Integers, Sequences, FiniteSets, SequencesExt

CONSTANTS
    Sinks,      \* the sink objects of the TIP
    EventSink,  \* the one of them that implements ITfThreadMgrEventSink
    HostSink,   \* g_comp_sink of the host, advised on its context
    Items,      \* language bar items of the TIP, all of one GUID
    None,       \* a null pointer
    SinkMax,    \* MSCTF_SOURCE_SINK_MAX and MSCTF_LANG_BAR_SINK_MAX
    MaxCalls    \* bound: the TIP's calls that hand out or register

ASSUME ShimConstants ==
    /\ EventSink \in Sinks
    /\ HostSink \notin Sinks
    /\ None \notin Sinks \cup Items \cup {HostSink}
    /\ SinkMax \in Nat /\ MaxCalls \in Nat

VARIABLES
    host,     \* the step of main that was done last
    loaded,   \* who activated the TIP: "none", "profile", "host", then "gone"
    focus,    \* Wine's thread manager has the focus on the document
    made,     \* the wrappers created so far and pointed to by a field
    refs,     \* reference counts, the shim's and the clients' references
    held,     \* the references the TIP was handed and still has
    table,    \* the sinks of the two sources and of the language bar
    first,    \* sink and cookie of the two sources, kept beside the table
    next,     \* next_cookie
    slot,     \* the one sink of the wrappers that keep one
    g_key_sink,
    items,    \* g_dummy_langbar->items
    active,   \* the objects of g_active_tm and g_active_context
    told,     \* the event sink was told that the document has the focus
    given,    \* the registrations the clients believe they have
    wild,     \* freed objects that were called or released
    calls     \* the TIP's calls so far

shimVars == <<host, loaded, focus, made, refs, held, table, first,
              next, slot, g_key_sink, items, active, told, given, wild, calls>>

\* The wrappers, in the order in which one's Release can reach another.
Outer == {"ex", "ctx", "compartment"}
Middle == {"tm", "ctxsrc", "view", "composition"}
Inner == {"doc", "tmsrc", "single", "km", "provider", "range"}
Wrappers == Outer \cup Middle \cup Inner
Sources == {"tmsrc", "ctxsrc"}
Tables == Sources \cup {"bar"}
Slotted == {"tm", "single", "km", "composition", "compartment"}
Leaves == Sinks \cup Items \cup {HostSink}
Counted == Wrappers \cup Leaves

ASSUME LeavesAreOthers == Wrappers \cap (Leaves \cup {None}) = {}

\* The steps of main; the TIP can run from its activation to "unkeyed".
At == [start |-> 1, created |-> 2, activated |-> 3, document |-> 4, context |-> 5, advised |-> 6,
       associated |-> 7, focused |-> 8, up |-> 9, unkeyed |-> 10, tipless |-> 11, unadvised |-> 12,
       nocontext |-> 13, nodocument |-> 14, done |-> 15]
Steps == DOMAIN At
Between(a, b) == At[host] \in At[a]..At[b]
TipRuns == loaded \in {"profile", "host"} /\ Between("activated", "unkeyed")

One(b) == IF b THEN 1 ELSE 0
Dead(S) == {o \in S : refs[o] = 0}
Listed(t, p) == Cardinality({i \in DOMAIN table[t] : table[t][i].sink = p})

---------------------------------------------------------------------------
(* What a wrapper's last Release releases.                                 *)

\* The wrappers with a field for p, which their destructor releases.
Parents ==
    [p \in Wrappers |->
        CASE p = "tm" -> {"ex"}
          [] p \in {"tmsrc", "single", "km", "provider", "doc"} -> {"tm"}
          [] p \in {"ctxsrc", "view", "composition"} -> {"ctx"}
          [] p = "range" -> {"ctx", "view", "composition"}
          [] OTHER -> {}]

\* Mutant: tm_Release forgets its source of single sinks.
ReleasesButSingle(o, p) == p \in made \ {"single"} /\ o \in Parents[p]

Releases(o, p) == p \in made /\ o \in Parents[p]

Owns(o, p) ==
    IF p \in Wrappers THEN One(Releases(o, p))
    ELSE One(o \in Slotted /\ slot[o] = p)
           + IF o \in Sources THEN Listed(o, p) + One(first[o].sink = p)
             ELSE 0

\* The references to p in the fields of the objects of S.
Owed(S, p) ==
    LET from(o) == IF o \in S THEN Owns(o, p) ELSE 0
    IN from("ex") + from("tm") + from("ctx") + from("view") + from("composition")
         + from("single") + from("km") + from("compartment") + from("tmsrc") + from("ctxsrc")

\* The releases due to p when o is released and those in S die.
Due(o, S, p) == One(p = o) + Owed(S, p)

\* Those that die next, once those in S have.
Dying(o, S, rank) == {p \in rank : refs[p] > 0 /\ Due(o, S, p) >= refs[p]}

Release(o) ==
    LET outer  == Dying(o, {}, Outer)
        middle == outer \cup Dying(o, outer, Middle)
        all    == middle \cup Dying(o, middle, Inner)
    IN [refs |-> [p \in Counted |-> IF Due(o, all, p) > refs[p] THEN 0
                                    ELSE refs[p] - Due(o, all, p)],
        wild |-> wild \cup {p \in Counted : Due(o, all, p) > refs[p]}]

\* Mutant: the context is freed and stays the active one.
ActiveKept(r) == active

\* The last Release of the context also clears g_active_context.
ActiveAfter(r) == IF r.refs["ctx"] = 0 THEN active \ {"ctx"} ELSE active

Released(o) ==
    LET r == Release(o)
    IN /\ refs' = r.refs
       /\ wild' = r.wild
       /\ active' = ActiveAfter(r)

\* A slot takes a new sink: the old one is released, the new one referenced.
Swap(rc, old, new) ==
    [p \in Counted |-> rc[p] - One(p = old) + One(p = new)]

---------------------------------------------------------------------------
ShimInit ==
    /\ host = "start" /\ loaded = "none"
    /\ focus = FALSE /\ told = FALSE
    /\ made = {}
    /\ refs = [p \in Counted |-> 0]
    /\ held = [o \in Wrappers |-> 0]
    /\ table = [t \in Tables |-> <<>>]
    /\ first = [t \in Sources |-> [sink |-> None, cookie |-> 0]]
    /\ next = [t \in Tables |-> 1]
    /\ slot = [o \in Slotted |-> None]
    /\ g_key_sink = None
    /\ items = <<>>
    /\ active = {} /\ given = {} /\ wild = {} /\ calls = 0

registry == <<table, first, next, slot, g_key_sink, items, told, given>>

HostAt(a, b) == host = a /\ host' = b /\ UNCHANGED calls

(* Wrapping makes, probes and releases an ITfThreadMgrEx: none is left.    *)
CreateThreadMgr ==
    /\ HostAt("start", "created")
    /\ made' = {"tm"}
    /\ refs' = [refs EXCEPT !["tm"] = 1]
    /\ UNCHANGED <<loaded, focus, held, registry, active, wild>>

(* The TIP of a profile that is pending is created and activated here, if  *)
(* it can be created.                                                      *)
Activate ==
    /\ HostAt("created", "activated")
    /\ active' = active \cup {"tm"}
    /\ loaded' \in {loaded, "profile"}
    /\ UNCHANGED <<focus, made, refs, held, registry, wild>>

(* The one reference of the new wrapper is both tm->docmgr's and the       *)
(* caller's; the active context is forgotten.                              *)
CreateDocumentMgr ==
    /\ HostAt("activated", "document")
    /\ made' = made \cup {"doc"}
    /\ refs' = [refs EXCEPT !["doc"] = 1]
    /\ active' = active \ {"ctx"}
    /\ UNCHANGED <<loaded, focus, held, registry, wild>>

(* CreateContext with the range, the view and the composition; Push.       *)
CreateContext ==
    /\ HostAt("document", "context")
    /\ made' = made \cup {"ctx", "range", "view", "composition"}
    /\ refs' = [refs EXCEPT !["ctx"] = 1, !["view"] = 1, !["composition"] = 1,
                            !["range"] = 3]
    /\ active' = active \cup {"ctx"}
    /\ UNCHANGED <<loaded, focus, held, registry, wild>>

---------------------------------------------------------------------------
(* Sources and the language bar: tables of sinks removed by cookie.        *)

\* The wrappers a new sink is told about, reached by uncounted pointers: an event sink of
\* the document in focus and of the context on top of it (tm->docmgr->top).
Consulted(iid) ==
    CASE iid = "event" -> {"tm"} \cup (made \cap {"doc", "ctx"})
      [] iid = "edit" -> {"ctx"}
      [] OTHER -> {}

\* Mutant: the sink is told only of a focus set later.
AnnouncedLater(iid) == FALSE

\* An event sink is told of the focus there is.
Announced(iid) == iid = "event" /\ focus

\* Mutant: the limit is off by one.
RoomForOneMore(t) == Len(table[t]) <= SinkMax

HasRoom(t) == Len(table[t]) < SinkMax

\* rc: the counts after the source itself was handed out or made.
AdviseSink(rc, t, s, iid) ==
    LET c == next[t]
        alone == t \in Sources /\ first[t].sink = None
    IN /\ HasRoom(t)
       /\ table' = [table EXCEPT ![t] =
                       Append(@, [sink |-> s, iid |-> iid, cookie |-> c])]
       /\ next' = [next EXCEPT ![t] = c + 1]
       /\ first' = IF alone
                   THEN [first EXCEPT ![t] = [sink |-> s, cookie |-> c]]
                   ELSE first
       /\ refs' = [rc EXCEPT ![s] = @ + 1 + One(alone)]
       /\ told' = (told \/ Announced(iid))
       /\ given' = given \cup {[table |-> t, cookie |-> c, sink |-> s]}
       /\ wild' = wild \cup Dead(Consulted(iid))
       /\ UNCHANGED <<slot, g_key_sink, items>>

\* Mutant: the sink kept beside the table is forgotten about.
FirstStays(t, c) == FALSE

FirstToo(t, c) ==
    t \in Sources /\ first[t].sink # None /\ first[t].cookie = c

UnadviseSink(t, c) ==
    LET i == CHOOSE j \in DOMAIN table[t] : table[t][j].cookie = c
    IN /\ refs' = [refs EXCEPT ![table[t][i].sink] = @ - 1 - One(FirstToo(t, c))]
       /\ table' = [table EXCEPT ![t] = RemoveAt(@, i)]
       /\ first' = IF FirstToo(t, c)
                   THEN [first EXCEPT ![t] = [sink |-> None, cookie |-> 0]]
                   ELSE first
       /\ given' = {g \in given : g.table # t \/ g.cookie # c}
       /\ UNCHANGED <<next, slot, g_key_sink, items, told, wild>>

(* The host advises its composition sink, through a source it gives back.  *)
CompositionSinkAdvise ==
    /\ HostAt("context", "advised")
    /\ made' = made \cup {"ctxsrc"}
    /\ AdviseSink([refs EXCEPT !["ctxsrc"] = 1], "ctxsrc", HostSink, "owner")
    /\ UNCHANGED <<loaded, focus, held, active>>

(* Wine may move the focus already; no sink is told.                       *)
AssociateFocus ==
    /\ HostAt("advised", "associated")
    /\ focus' \in BOOLEAN
    /\ UNCHANGED <<loaded, made, refs, held, registry, active, wild>>

(* The first event sink of the table is told.                              *)
EventSinks == {i \in DOMAIN table["tmsrc"] : table["tmsrc"][i].iid = "event"}

SetFocus ==
    /\ HostAt("associated", "focused")
    /\ focus' = TRUE
    /\ told' = (told \/ EventSinks # {})
    /\ wild' = wild \cup Dead({table["tmsrc"][i].sink : i \in EventSinks})
    /\ UNCHANGED <<loaded, made, refs, held, table, first, next, slot,
                   g_key_sink, items, given, active>>

---------------------------------------------------------------------------
(* The TIP comes up, and goes.                                             *)

(* ActivateLanguageProfile after the thread manager: tried at once, and    *)
(* not again once a TIP was created, whatever its Activate answered.       *)
ActivateLanguageProfile ==
    /\ host = "focused"
    /\ UNCHANGED calls
    /\ loaded = "none"
    /\ loaded' = "profile"
    /\ UNCHANGED <<host, focus, made, refs, held, registry, active,
                   wild>>

\* A wrapper made on first use has a reference of its own field.
Made(o) == IF o \in made THEN refs ELSE [refs EXCEPT ![o] = 1]

QueryKeystrokeMgr ==
    /\ HostAt("focused", "up")
    /\ made' = made \cup {"km"}
    /\ refs' = [Made("km") EXCEPT !["km"] = @ + 1]
    /\ UNCHANGED <<loaded, focus, held, registry, active, wild>>

(* CoCreateInstance and Activate by main or by the command manualtip.      *)
LoadTip ==
    /\ host = "up"
    /\ UNCHANGED calls
    /\ loaded \in {"none", "gone"}
    /\ loaded' = "host"
    /\ UNCHANGED <<host, focus, made, refs, held, registry, active,
                   wild>>

(* Activate failed: the host lets go of the TIP, its sinks stay.           *)
DropTip ==
    /\ host = "up"
    /\ UNCHANGED calls
    /\ loaded = "host"
    /\ loaded' = "gone"
    /\ UNCHANGED <<host, focus, made, refs, held, registry, active,
                   wild>>

---------------------------------------------------------------------------
(* What the TIP asks the shim for.                                         *)

Calls == TipRuns /\ calls < MaxCalls /\ calls' = calls + 1
Returns == TipRuns /\ UNCHANGED calls
hostUnchanged == <<host, loaded, focus>>

Hand(rc, o) ==
    /\ refs' = [rc EXCEPT ![o] = @ + 1]
    /\ held' = [held EXCEPT ![o] = @ + 1]

\* tm_QI for itself, and for the wrappers it makes on first use
QueryThreadMgr(o) ==
    /\ Calls
    /\ o \in {"tm", "tmsrc", "single", "km"}
    /\ made' = made \cup {o}
    /\ Hand(Made(o), o)
    /\ UNCHANGED <<hostUnchanged, registry, active, wild>>

\* The first reference is the caller's; tm->ex is not counted, ex->tm is.
QueryThreadMgrEx ==
    /\ Calls
    /\ made' = made \cup {"ex"}
    /\ IF refs["ex"] = 0
       THEN Hand([refs EXCEPT !["tm"] = @ + 1], "ex")
       ELSE Hand(refs, "ex")
    /\ UNCHANGED <<hostUnchanged, registry, active, wild>>

\* The document is known by tm->docmgr, which is followed uncounted.
GetFocus ==
    /\ Calls
    /\ focus
    /\ wild' = wild \cup Dead({"doc"})
    /\ Hand(refs, "doc")
    /\ UNCHANGED <<hostUnchanged, made, registry, active>>

\* d->top, and the enumerator of contexts, follow it uncounted.
GetTop ==
    /\ Calls
    /\ held["doc"] > 0
    /\ wild' = wild \cup Dead({"doc", "ctx"})
    /\ Hand(refs, "ctx")
    /\ UNCHANGED <<hostUnchanged, made, registry, active>>

\* ctx_QI for the source, made at first use
QueryContextSource ==
    /\ Calls
    /\ held["ctx"] > 0
    /\ made' = made \cup {"ctxsrc"}
    /\ Hand(Made("ctxsrc"), "ctxsrc")
    /\ UNCHANGED <<hostUnchanged, registry, active, wild>>

\* GetStart, GetEnd and GetSelection all hand out the context's one range.
GetRange ==
    /\ Calls
    /\ held["ctx"] > 0
    /\ Hand(refs, "range")
    /\ UNCHANGED <<hostUnchanged, made, registry, active, wild>>

\* Mutant: the sink that is replaced keeps its reference.
ReplacedStays == None

Replaced == slot["composition"]

\* StartComposition and TakeOwnership replace the composition's sink.
ctxcomp_StartComposition(s) ==
    /\ Calls
    /\ held["ctx"] > 0
    /\ slot' = [slot EXCEPT !["composition"] = s]
    /\ Hand(Swap(refs, Replaced, s), "composition")
    /\ UNCHANGED <<hostUnchanged, made, table, first, next, g_key_sink,
                   items, told, given, active, wild>>

\* Every GetCompartment wraps anew; one wrapper at a time is followed.
GetCompartment ==
    /\ Calls
    /\ refs["compartment"] = 0
    /\ made' = made \cup {"compartment"}
    /\ slot' = [slot EXCEPT !["compartment"] = None]
    /\ Hand(refs, "compartment")
    /\ UNCHANGED <<hostUnchanged, table, first, next, g_key_sink, items, told,
                   given, active, wild>>

TipRelease(o) ==
    /\ Returns
    /\ held[o] > 0
    /\ held' = [held EXCEPT ![o] = @ - 1]
    /\ Released(o)
    /\ UNCHANGED <<hostUnchanged, made, registry>>

---------------------------------------------------------------------------
(* What the TIP registers.                                                 *)

TipAdvise(t, s, iid) ==
    /\ Calls
    /\ t \in Sources => held[t] > 0
    /\ iid = "event" => s = EventSink
    /\ AdviseSink(refs, t, s, iid)
    /\ UNCHANGED <<hostUnchanged, made, held, active>>

TipUnadvise(t, c) ==
    /\ Returns
    /\ t \in Sources => held[t] > 0
    /\ \E g \in given : g.table = t /\ g.cookie = c /\ g.sink # HostSink
    /\ UnadviseSink(t, c)
    /\ UNCHANGED <<hostUnchanged, made, held, active>>

\* The sink is kept once more as tm->advised_provider when it is one.
AdviseSingleSink(s, provider) ==
    /\ Calls
    /\ held["single"] > 0
    /\ slot' = IF provider THEN [slot EXCEPT !["single"] = s, !["tm"] = s]
                           ELSE [slot EXCEPT !["single"] = s]
    /\ refs' = IF provider
               THEN Swap(Swap(refs, slot["single"], s), slot["tm"], s)
               ELSE Swap(refs, slot["single"], s)
    /\ wild' = wild \cup (IF provider THEN Dead({"tm"}) ELSE {})
    /\ UNCHANGED <<hostUnchanged, made, held, table, first, next, g_key_sink,
                   items, told, given, active>>

\* Whatever interface is named, the one sink goes.
UnadviseSingleSink(provider) ==
    /\ Returns
    /\ held["single"] > 0
    /\ LET old == IF provider THEN slot["tm"] ELSE None
       IN /\ slot' = IF provider
                     THEN [slot EXCEPT !["single"] = None, !["tm"] = None]
                     ELSE [slot EXCEPT !["single"] = None]
          /\ refs' = Swap(Swap(refs, slot["single"], None), old, None)
    /\ wild' = wild \cup (IF provider THEN Dead({"tm"}) ELSE {})
    /\ UNCHANGED <<hostUnchanged, made, held, table, first, next, g_key_sink,
                   items, told, given, active>>

\* The key sink is kept by the keystroke manager and globally.
AdviseKeyEventSink(s) ==
    /\ Calls
    /\ held["km"] > 0
    /\ slot' = [slot EXCEPT !["km"] = s]
    /\ g_key_sink' = s
    /\ refs' = Swap(Swap(refs, slot["km"], s), g_key_sink, s)
    /\ UNCHANGED <<hostUnchanged, made, held, table, first, next, items, told,
                   given, active, wild>>

\* Mutant: a sticky sink is released all the same.
WithdrawnAlways(sticky) == g_key_sink

Withdrawn(sticky) == IF sticky THEN None ELSE g_key_sink

\* AT_STICKY_KEYSINK, read at each call: the global sink is kept.
UnadviseKeyEventSink(sticky) ==
    /\ Returns
    /\ held["km"] > 0
    /\ {slot["km"], g_key_sink} # {None}
    /\ slot' = [slot EXCEPT !["km"] = None]
    /\ g_key_sink' = IF sticky THEN g_key_sink ELSE None
    /\ refs' = Swap(Swap(refs, slot["km"], None), Withdrawn(sticky), None)
    /\ UNCHANGED <<hostUnchanged, made, held, table, first, next, items, told,
                   given, active, wild>>

CompartmentAdvise(s) ==
    /\ Calls
    /\ held["compartment"] > 0
    /\ slot' = [slot EXCEPT !["compartment"] = s]
    /\ refs' = Swap(refs, slot["compartment"], s)
    /\ UNCHANGED <<hostUnchanged, made, held, table, first, next, g_key_sink,
                   items, told, given, active, wild>>

\* With the cookie of the sink in place, or with 0; others do nothing.
CompartmentUnadvise ==
    /\ Returns
    /\ held["compartment"] > 0
    /\ slot["compartment"] # None
    /\ slot' = [slot EXCEPT !["compartment"] = None]
    /\ refs' = Swap(refs, slot["compartment"], None)
    /\ UNCHANGED <<hostUnchanged, made, held, table, first, next, g_key_sink,
                   items, told, given, active, wild>>

\* Every sink of the bar is told of a change of its items.
BarSinks == {table["bar"][i].sink : i \in DOMAIN table["bar"]}

ItemsChange(new, gone, come) ==
    /\ items' = new
    /\ refs' = Swap(refs, gone, come)
    /\ wild' = wild \cup Dead(BarSinks)
    /\ UNCHANGED <<hostUnchanged, made, held, table, first, next, slot,
                   g_key_sink, told, given, active>>

\* An item of a GUID the bar already has is ignored.
AddItem(it) ==
    /\ Calls
    /\ items = <<>>
    /\ ItemsChange(<<it>>, None, it)

\* Found by its pointer or, failing that, by its GUID.
RemoveItem(it) ==
    /\ Returns
    /\ items # <<>>
    /\ ItemsChange(<<>>, items[1], None)

---------------------------------------------------------------------------
(* The shim calls out: a key, the TIP's use of a range or a composition,   *)
(* the host's search for a function provider.                              *)

KeyTarget == IF slot["km"] # None THEN slot["km"] ELSE g_key_sink

KeyDown ==
    /\ host = "up"
    /\ UNCHANGED calls
    /\ KeyTarget # None
    /\ wild' = wild \cup Dead({KeyTarget, "km"} \cup (active \cap {"ctx"}))
    /\ UNCHANGED <<hostUnchanged, made, refs, held, registry, active>>

\* Both follow their uncounted pointer to the context.
UseRange ==
    /\ Returns
    /\ held["range"] + held["composition"] > 0
    /\ wild' = wild \cup Dead({"ctx"})
    /\ UNCHANGED <<hostUnchanged, made, refs, held, registry, active>>

\* The advised provider, or one of the shim's own, used and released.
GetFunctionProvider ==
    /\ host = "up"
    /\ UNCHANGED calls
    /\ IF slot["tm"] # None
       THEN /\ wild' = wild \cup Dead({slot["tm"]})
            /\ UNCHANGED <<made, refs>>
       ELSE /\ made' = made \cup {"provider"}
            /\ refs' = Made("provider")
            /\ UNCHANGED wild
    /\ UNCHANGED <<hostUnchanged, held, registry, active>>

---------------------------------------------------------------------------
(* runtime_cleanup of main.                                                *)

ReleaseKeystrokeMgr ==
    /\ HostAt("up", "unkeyed")
    /\ Released("km")
    /\ UNCHANGED <<loaded, focus, made, held, registry>>

(* Only a TIP the host itself loaded is deactivated and released.          *)
DeactivateTip ==
    /\ HostAt("unkeyed", "tipless")
    /\ loaded' = IF loaded = "host" THEN "gone" ELSE loaded
    /\ UNCHANGED <<focus, made, refs, held, registry, active, wild>>

CompositionSinkUnadvise ==
    /\ HostAt("tipless", "unadvised")
    /\ UnadviseSink("ctxsrc", 1)
    /\ UNCHANGED <<loaded, focus, made, held, active>>

ReleaseContext ==
    /\ HostAt("unadvised", "nocontext")
    /\ Released("ctx")
    /\ UNCHANGED <<loaded, focus, made, held, registry>>

ReleaseDocument ==
    /\ HostAt("nocontext", "nodocument")
    /\ Released("doc")
    /\ UNCHANGED <<loaded, focus, made, held, registry>>

(* Deactivate forgets g_active_tm before the last Release.                 *)
ReleaseThreadMgr ==
    /\ HostAt("nodocument", "done")
    /\ LET r == Release("tm")
       IN refs' = r.refs /\ wild' = r.wild
    /\ active' = active \ {"tm"}
    /\ UNCHANGED <<loaded, focus, made, held, registry>>

Iids == [t \in Tables |-> CASE t = "tmsrc" -> {"event", "other"}
                            [] t = "ctxsrc" -> {"edit"}
                            [] OTHER -> {"item"}]

HostNext ==
    \/ CreateThreadMgr \/ Activate \/ CreateDocumentMgr \/ CreateContext
    \/ CompositionSinkAdvise \/ AssociateFocus \/ SetFocus
    \/ ActivateLanguageProfile \/ QueryKeystrokeMgr \/ LoadTip \/ DropTip
    \/ KeyDown \/ GetFunctionProvider
    \/ ReleaseKeystrokeMgr \/ DeactivateTip \/ CompositionSinkUnadvise
    \/ ReleaseContext \/ ReleaseDocument \/ ReleaseThreadMgr

TipNext ==
    \/ \E o \in {"tm", "tmsrc", "single", "km"} : QueryThreadMgr(o)
    \/ QueryThreadMgrEx \/ GetFocus \/ GetTop \/ QueryContextSource
    \/ GetRange \/ GetCompartment \/ UseRange
    \/ \E s \in Sinks : ctxcomp_StartComposition(s)
    \/ \E o \in Wrappers : TipRelease(o)
    \/ \E t \in Tables, s \in Sinks : \E i \in Iids[t] : TipAdvise(t, s, i)
    \/ \E t \in Tables, c \in 1..MaxCalls + 1 : TipUnadvise(t, c)
    \/ \E s \in Sinks, b \in BOOLEAN : AdviseSingleSink(s, b)
    \/ \E b \in BOOLEAN : UnadviseSingleSink(b)
    \/ \E s \in Sinks : AdviseKeyEventSink(s)
    \/ \E sticky \in BOOLEAN : UnadviseKeyEventSink(sticky)
    \/ \E s \in Sinks : CompartmentAdvise(s)
    \/ CompartmentUnadvise
    \/ \E it \in Items : AddItem(it) \/ RemoveItem(it)

ShimNext == HostNext \/ TipNext

ShimSpec == ShimInit /\ [][ShimNext]_shimVars

---------------------------------------------------------------------------
\* The references of the host, by the steps of main.
HostHolds(o) ==
    One(\/ o = "tm" /\ Between("created", "nodocument")
        \/ o = "doc" /\ Between("document", "nocontext")
        \/ o = "ctx" /\ Between("context", "unadvised")
        \/ o = "km" /\ host = "up")

\* The references of what is never freed: the globals and the bar.
GlobalHolds(p) ==
    One(g_key_sink = p) + Listed("bar", p)
      + Cardinality({i \in DOMAIN items : items[i] = p})

(* The state has the shape the code gives it: at most SinkMax sinks in a   *)
(* table (source_AdviseSink, langbaritemmgr_AdviseItemSink), no count      *)
(* below zero.                                                             *)
ShimTypeOK ==
    /\ host \in Steps
    /\ loaded \in {"none", "profile", "host", "gone"}
    /\ {focus, told} \subseteq BOOLEAN
    /\ made \subseteq Wrappers
    /\ \A p \in Counted : refs[p] \in Nat
    /\ \A o \in Wrappers : held[o] \in 0..MaxCalls
    /\ \A t \in Tables : Len(table[t]) <= SinkMax
    /\ \A o \in Slotted : slot[o] \in Sinks \cup {None}
    /\ g_key_sink \in Sinks \cup {None}
    /\ active \subseteq {"tm", "ctx"}
    /\ wild \subseteq Counted

\* The references of the fields of live wrappers that were counted.
Alive == Wrappers \ Dead(Wrappers)
FieldHolds(p) == IF p = "doc" THEN 0 ELSE Owed(Alive, p)

(* Every count is exactly the references there are: those of the host, of  *)
(* the TIP, of the globals and of the fields of live wrappers.  So no      *)
(* sequence of advising, replacing and withdrawing sinks, through tables,  *)
(* single slots and the copies kept beside them, leaks a sink or releases  *)
(* one twice.  The document is the one exception: the reference tm->docmgr *)
(* gives back in tm_Release was never taken in tm_CreateDocumentMgr, so    *)
(* the last Release of the thread manager takes another's.                 *)
RefsExact ==
    \A p \in Counted : ~(p = "doc" /\ host = "done") =>
        refs[p] = (IF p \in Wrappers THEN HostHolds(p) + held[p] ELSE 0)
                    + GlobalHolds(p) + FieldHolds(p)

(* No freed wrapper or sink is called or released while the host is up,    *)
(* although tm->docmgr, d->top, the ranges and the sources point to their  *)
(* owners uncounted.  Only the last Release of the thread manager touches  *)
(* one: the document the host released just before (tm_Release).  And      *)
(* g_active_context and g_active_tm, which route keys, Reset and the TIP   *)
(* of a late profile, never outlive their object (ctx_Release,             *)
(* tm_Deactivate).                                                         *)
NoUseAfterFree ==
    /\ wild # {} => host = "done" /\ wild = {"doc"}
    /\ Dead(active) = {}

(* A table lists, and keeps beside it, exactly the sinks of the            *)
(* registrations not yet withdrawn: a cookie removes its own sink and no   *)
(* other, whatever was removed before it (source_UnadviseSink).            *)
WithdrawnGone ==
    \A t \in Tables :
        /\ {[table |-> t, cookie |-> e.cookie, sink |-> e.sink]
              : e \in ToSet(table[t])} = {g \in given : g.table = t}
        /\ t \in Sources /\ first[t].sink # None =>
             [table |-> t, cookie |-> first[t].cookie,
              sink |-> first[t].sink] \in given

(* The counts and the tables say what was advised and what was not yet     *)
(* given back, after any sequence of calls.                                *)
ShimConsistent == ShimTypeOK /\ RefsExact /\ WithdrawnGone

(* Once main has set the focus, an event sink that is advised has been     *)
(* told of it, whether it was advised before (tm_SetFocus tells it) or     *)
(* after (source_AdviseSink does).                                         *)
FocusTold == Between("focused", "unkeyed") /\ EventSinks # {} => told

(* When main is done and the TIP has given back what it was handed, every  *)
(* wrapper is freed, and no sink is referenced but by the globals, which   *)
(* nothing clears.                                                         *)
NothingLeaks ==
    host = "done" /\ (\A o \in Wrappers : held[o] = 0) =>
        /\ Dead(Wrappers) = Wrappers
        /\ \A s \in Leaves : refs[s] = GlobalHolds(s)
=============================================================================
