------------------------ MODULE BatchSessionHistory ------------------------
(***************************************************************************)
(* BatchSession with a record of the top-1s the session went by and of the *)
(* prefetches the engine failed, to say which entry a candidate list leads *)
(* with, and when it is there, of an engine that may fail at any call and  *)
(* answer the same reading differently.  No step depends on the record.    *)
(***************************************************************************)
EXTENDS BatchSession

VARIABLES
    top1s,    \* top1s[r]: the top-1s that calls and builds of r have gone by so far
    refused   \* the reading whose prefetch the engine failed in the last step, or Unset

\* The threads that have just got a top-1 for r: a call of top1 from its engine
\* call, a build once henkan has answered or failed (NoText: it goes without).
Deciding(r) ==
    {t \in Threads : /\ loc[t].reading = r
                     /\ \/ pc[t] = "top1_run" /\ pc'[t] = "top1_remember"
                        \/ pc[t] = "henkan"   /\ pc'[t] = "reconv"}

Recorded ==
    /\ top1s' = [r \in Readings |-> top1s[r] \cup {loc'[t].t1 : t \in Deciding(r)}]
    /\ refused' = IF pc[Worker] = "reconv" /\ pc'[Worker] = "wait" THEN loc[Worker].reading
                  ELSE Unset

HistoryInit == Init /\ top1s = [r \in Readings |-> {}] /\ refused = Unset
HistoryNext == Next /\ Recorded
historyVars == <<vars, top1s, refused>>

HistorySpec == HistoryInit /\ [][HistoryNext]_historyVars
HistoryFairSpec == HistorySpec /\ Fairness
-----------------------------------------------------------------------------
\* What a list of r may lead with: a top-1 the session went by, or convert's own
\* first candidate once a build has gone without.
leaders == [r \in Readings |->
    top1s[r] \cup (IF NoText \in top1s[r] /\ Reconv[r] # <<>> THEN {Head(Reconv[r])} ELSE {})]

\* session.cpp:121, docs/protocol.md:49, as far as the code keeps it: through the hints that are
\* dropped wholesale or taken by the other thread's build, evicted and rebuilt
\* lists, failed engine calls and other answers to the same reading, a list that is cached or
\* returned leads with a top-1 the session has gone by for that very reading. It is convert's
\* candidate instead only if henkan had none to give; so when one top-1 is all the
\* session ever had for a reading, the list opens with what top1 showed inline.
LeadsWithTop1 ==
    /\ \A r \in Readings : cacheHas(r) => cache[r].commit \in leaders[r]
    /\ \A c \in Callers :
           reply[c] # Unset /\ reply[c].ok => reply[c].commit \in leaders[reply[c].r]

\* No wake-up is lost: once the callers leave the engine alone, a reading left
\* in pending_ gets its list into the cache, unless a later convert replaced it,
\* the engine fails its prefetch or the session ends.  (engine_mu_ is not a fair
\* mutex: callers that never pause may keep the worker from it for ever.)
PrefetchLands ==
    <>[](engineOwner \notin Callers) =>
        \A r \in Readings \ {NoReading} :
            pending = r ~>
                (cacheHas(r) \/ pending \notin {r, NoReading} \/ refused = r \/ stop)
=============================================================================
