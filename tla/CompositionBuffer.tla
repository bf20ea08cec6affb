-------------------------- MODULE CompositionBuffer --------------------------
(***************************************************************************)
(* engine/native/MsctfShim/MsctfShim.c: the composition the shim keeps in  *)
(* a context of its own, between the input method (the TIP), which edits   *)
(* it through ITfRange, ITfComposition and ITfInsertAtSelection, and the   *)
(* host, which sends keys and reads the result.  Every range the TIP gets  *)
(* is the context's one range object.                                      *)
(*                                                                         *)
(* A key is put into the buffer before the TIP sees it; what the TIP does  *)
(* about it are later steps, in any number and order.  The TIP is not part *)
(* of this repository: it ends a composition only if it started one, and   *)
(* has done with it when the next key arrives.                             *)
(***************************************************************************)
EXTENDS TextStore

CONSTANTS
    CompMax,       \* the characters comp_text holds beside its terminator
    KeyChars,      \* characters the shim types for a key
    TipChars,      \* characters the TIP writes
    Stale,         \* whatever was in comp_text behind the terminator
    RangeMax       \* bound on the offsets of the range

ASSUME BufferAssumption == CompMax \in Nat /\ RangeMax \in Nat /\ CompMax <= RangeMax

VARIABLES
    ctx,           \* comp_active, comp_text up to comp_len, and the range
    store,         \* the text store
    tip,           \* "idle", "composing", "finishing": the composition as the TIP sees it
    hist           \* history: moved, delivered, overrun, wrote (see Init)

vars == <<ctx, store, tip, hist>>

Chars == KeyChars \cup TipChars \cup {Stale}

Init ==
    /\ ctx = [active |-> FALSE, text |-> <<>>, start |-> 0, end |-> 0]
    /\ store = Create
    /\ tip = "idle"
    /\ hist = [moved |-> FALSE,        \* the TIP has moved the range off the text
               delivered |-> FALSE,    \* the text of this composition is in the store
               overrun |-> FALSE,      \* the store's length was lost since its last edit
               wrote |-> FALSE]        \* the TIP has written a text into this composition

\* Mutant: the end of the range stays.
syncStartOnly(c) == [c EXCEPT !.start = 0]

\* sync_context_ranges: the range covers the text.
sync(c) == [c EXCEPT !.start = 0, !.end = Len(c.text)]

Synced(h) == [h EXCEPT !.moved = FALSE]

\* context_replace_comp_text
replaceText(c, t) == sync([c EXCEPT !.text = SubSeq(t, 1, Least(Len(t), CompMax))])

\* A character goes in at the end, if there is a place left.
appendText(c, ch) ==
    IF Len(c.text) < CompMax THEN sync([c EXCEPT !.text = Append(@, ch)]) ELSE c

-----------------------------------------------------------------------------
(***************************************************************************)
(* The host: keys, characters, the reset between two commands, the dump.   *)
(***************************************************************************)

\* The TIP handles one key at a time.
NextKey == tip' = IF tip = "finishing" THEN "idle" ELSE tip

\* msctf_append_key, called by km_KeyDown before the TIP's OnKeyDown.
KeyLetter ==
    /\ \E ch \in KeyChars : ctx' = appendText([ctx EXCEPT !.active = TRUE], ch)
    /\ hist' = IF Len(ctx.text) < CompMax THEN Synced(hist) ELSE hist
    /\ NextKey
    /\ UNCHANGED store

KeyBack ==
    /\ ctx' = sync([ctx EXCEPT !.active = TRUE,
                               !.text = SubSeq(@, 1, Most(Len(@) - 1, 0))])
    /\ hist' = Synced(hist)
    /\ NextKey
    /\ UNCHANGED store

KeyReturn ==
    /\ ctx' = [ctx EXCEPT !.active = FALSE]
    /\ NextKey
    /\ UNCHANGED <<store, hist>>

KeyConvert ==
    /\ ctx' = [ctx EXCEPT !.active = TRUE]
    /\ NextKey
    /\ UNCHANGED <<store, hist>>

KeyOther ==
    /\ NextKey
    /\ UNCHANGED <<ctx, store, hist>>

\* WM_CHAR of a key the TIP did not eat; with interim input on, the store is left out.
WmChar ==
    \E ch \in KeyChars, interim \in BOOLEAN :
        /\ ctx' = appendText(ctx, ch)
        /\ store' = IF interim THEN store ELSE AppendChar(store, ch)
        /\ hist' = [hist EXCEPT !.moved = @ /\ Len(ctx.text) >= CompMax,
                                !.overrun = @ /\ store' = store]
        /\ UNCHANGED tip

\* MsctfShim_Reset; the TIP is not told.
Reset ==
    /\ ctx' = sync([ctx EXCEPT !.active = FALSE, !.text = <<>>])
    /\ hist' = [Synced(hist) EXCEPT !.delivered = FALSE, !.wrote = FALSE]
    /\ UNCHANGED <<store, tip>>

\* TextStore_LogContent, in every dump.
Dump ==
    /\ store' = LogContent(store)
    /\ hist' = [hist EXCEPT !.overrun = @ \/ Overrun(store)]
    /\ UNCHANGED <<ctx, tip>>

-----------------------------------------------------------------------------
(***************************************************************************)
(* The TIP: ITfRange.                                                      *)
(***************************************************************************)

\* range_GetText, into a buffer that is large enough.
range_GetText == SubSeq(ctx.text, ctx.start + 1, Least(ctx.end, Len(ctx.text)))

\* Mutant: the new text is put in front of the old.
WriteEndAtStart == ctx.start

\* The offset range_SetText writes up to: below the start when the start is behind the text.
WriteEnd == Least(Most(ctx.end, ctx.start), Len(ctx.text))

\* range_SetText's check of the size.
Room(t) == Len(ctx.text) + Len(t) - (WriteEnd - ctx.start) <= CompMax

\* The text up to the start of the range, and beyond its end whatever was in the buffer.
UpToStart == [n \in 1..ctx.start |-> IF n <= Len(ctx.text) THEN ctx.text[n] ELSE Stale]

range_SetText(t) ==
    /\ Room(t)
    /\ ctx' = sync([ctx EXCEPT
                  !.text = UpToStart \o t \o SubSeq(@, WriteEnd + 1, Len(@))])
    /\ hist' = [Synced(hist) EXCEPT !.wrote = t # <<>>]
    /\ UNCHANGED <<store, tip>>

\* TS_E_INVALIDPOS
range_SetTextRefused(t) == ~Room(t) /\ UNCHANGED vars

Shifts == (-RangeMax)..RangeMax

\* ShiftStart, ShiftEnd, Collapse to the start.
range_Shift ==
    /\ \/ ctx' \in {[ctx EXCEPT !.start = Least(Most(@ + n, 0), ctx.end)] : n \in Shifts}
       \/ ctx' \in {[ctx EXCEPT !.end = Most(@ + n, ctx.start)] :
                       n \in {n \in Shifts : ctx.end + n <= RangeMax}}
    /\ hist' = [hist EXCEPT !.moved = TRUE]
    /\ UNCHANGED <<store, tip>>

range_Collapse ==
    /\ ctx' = [ctx EXCEPT !.end = ctx.start]
    /\ hist' = [hist EXCEPT !.moved = TRUE]
    /\ UNCHANGED <<store, tip>>

-----------------------------------------------------------------------------
(***************************************************************************)
(* The TIP: ITfContextComposition, ITfComposition, ITfInsertAtSelection.   *)
(***************************************************************************)

\* The text is emptied; the range stays as the last caller left it.
Emptied(c) == [c EXCEPT !.active = TRUE, !.text = <<>>]

NewComposition ==
    /\ ctx' = Emptied(ctx)
    /\ tip' = "composing"
    /\ hist' = [hist EXCEPT !.moved = ctx.start > 0, !.delivered = FALSE, !.wrote = FALSE]
    /\ UNCHANGED store

StartComposition == NewComposition

TakeOwnership == NewComposition

\* Mutant: the text is appended whether or not the composition is active.
endCompositionAnyway(c, s) ==
    [ctx |-> [c EXCEPT !.active = FALSE],
     store |-> SetText(s, Len(s.text), Len(s.text), c.text)]

\* comp_EndComposition, with flush_comp_text_to_store.
endComposition(c, s) ==
    [ctx |-> [c EXCEPT !.active = FALSE],
     store |-> IF c.active /\ c.text # <<>>
               THEN SetText(s, Len(s.text), Len(s.text), c.text)
               ELSE s]

\* The first call commits; the TIP may call again.
EndComposition ==
    LET after == endComposition(ctx, store)
    IN  /\ tip # "idle"
        /\ tip' = "finishing"
        /\ ctx' = after.ctx
        /\ store' = after.store
        /\ hist' = [hist EXCEPT !.delivered = @ \/ after.store # store,
                                !.overrun = @ /\ after.store = store]

\* The text inserted stays behind as the composition's, which is over.
inserted(c, t) == [replaceText(c, t) EXCEPT !.active = FALSE]

\* insert_InsertTextAtSelection
InsertText(t) ==
    /\ Fits(store, InsertSpan(store)[1], InsertSpan(store)[2], t)
    /\ store' = InsertTextAtSelection(store, t)
    /\ ctx' = inserted(ctx, t)
    /\ tip' = IF tip = "composing" THEN "finishing" ELSE tip
    /\ hist' = [Synced(hist) EXCEPT !.delivered = @ \/ tip # "idle", !.overrun = FALSE]

InsertTextRefused(t) ==
    /\ ~Fits(store, InsertSpan(store)[1], InsertSpan(store)[2], t)
    /\ UNCHANGED vars

\* With TF_IAS_QUERYONLY the range takes the length asked about.
InsertTextQuery(t) ==
    /\ Len(t) <= RangeMax
    /\ ctx' = [ctx EXCEPT !.start = 0, !.end = Len(t)]
    /\ hist' = [hist EXCEPT !.moved = TRUE]
    /\ UNCHANGED <<store, tip>>

\* ctx_SetSelection reaches ts_SetSelection through the framework.
Select ==
    /\ store' \in {SetSelection(store, m, n) : m, n \in -1..(StoreMax + 1)}
    /\ hist' = [hist EXCEPT !.overrun = FALSE]
    /\ UNCHANGED <<ctx, tip>>

-----------------------------------------------------------------------------
\* Texts the TIP writes: one character more than the buffer holds is enough to be refused.
TipTexts == UNION {[1..n -> TipChars] : n \in 0..(CompMax + 1)}

Host == KeyLetter \/ KeyBack \/ KeyReturn \/ KeyConvert \/ KeyOther \/ WmChar \/ Reset \/ Dump

Tip ==
    \/ range_Shift \/ range_Collapse \/ Select
    \/ StartComposition \/ TakeOwnership \/ EndComposition
    \/ \E t \in TipTexts :
           \/ range_SetText(t) \/ range_SetTextRefused(t)
           \/ InsertText(t) \/ InsertTextRefused(t) \/ InsertTextQuery(t)

Next == Host \/ Tip

Spec == Init /\ [][Next]_vars

-----------------------------------------------------------------------------
\* The type of every variable: comp_text keeps room for its terminator, the range is
\* ordered, and no edit makes the store longer than its buffer.
TypeOK ==
    /\ ctx \in [active : BOOLEAN, text : Seq(Chars), start : Nat, end : Nat]
    /\ Len(ctx.text) <= CompMax
    /\ ctx.start <= ctx.end
    /\ store \in [text : Seq(Chars), selStart : Nat, selEnd : Nat]
    /\ Len(store.text) <= StoreMax
    /\ tip \in {"idle", "composing", "finishing"}
    /\ hist \in [moved : BOOLEAN, delivered : BOOLEAN, overrun : BOOLEAN, wrote : BOOLEAN]

\* Until the TIP itself moves the range, reading it gives the whole composition, whichever of
\* the shim, the host and the TIP changed the text last.  StartComposition empties the text
\* without touching the range (MsctfShim.c:1684), and this is why it may.
ReadsWhole == ~hist.moved => range_GetText = ctx.text

\* The selection of the store lies in its text, except between the loss of the length in a
\* full buffer (TextStore_LogContent) and the next edit or selection: every caller of
\* ts_SetText clamps the stale selection first.
SelectionInStore == ~hist.overrun => Selected(store)

\* Both buffers are in order whoever edits them: nothing is overfilled, the range is ordered,
\* the selection lies in the text.
Consistent == TypeOK /\ SelectionInStore

\* A text the TIP writes into a range it did not move replaces everything, the key the shim
\* had typed in advance too: nothing of an earlier text is left in front of it or behind it.
TipTextWins ==
    [][\A t \in TipTexts : (range_SetText(t) /\ ~hist.moved) => ctx'.text = t]_vars

\* A composition reaches the store once: the TIP ends it again, or inserts its result and then
\* ends it, and the second call adds nothing.
CommitOnce == [][(EndComposition /\ store'.text # store.text) => ~hist.delivered]_vars

\* A composition the TIP has written and ends, and the store has room for, is appended to the
\* store (MsctfShim.c:1480: "On commit we append comp_text to the store").
CommitReachesStore ==
    [][(/\ EndComposition
        /\ tip = "composing" /\ hist.wrote /\ ctx.text # <<>>
        /\ Len(store.text) + Len(ctx.text) <= StoreMax)
       => store'.text = store.text \o ctx.text]_vars
=============================================================================
