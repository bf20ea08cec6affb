------------------------------ MODULE TextStore ------------------------------
(***************************************************************************)
(* engine/native/AtTipLoad/textstore.c: the document the input method      *)
(* commits into.  A store is a record of its text and its selection; each  *)
(* operator is the store after one call.  A refused call leaves it as it   *)
(* is.                                                                     *)
(***************************************************************************)
EXTENDS Integers, Sequences

CONSTANT StoreMax      \* TS_BUF_CHARS, the size of the buffer

ASSUME StoreAssumption == StoreMax \in Nat \ {0}

Least(m, n) == IF m <= n THEN m ELSE n
Most(m, n)  == IF m <= n THEN n ELSE m

Create == [text |-> <<>>, selStart |-> 0, selEnd |-> 0]

\* Clamp an offset, and a pair of offsets, to the text.
Inside(s, n) == Least(Most(n, 0), Len(s.text))
Span(s, m, n) == <<Inside(s, m), Inside(s, Most(n, Most(m, 0)))>>

\* ts_SetSelection
SetSelection(s, m, n) ==
    [s EXCEPT !.selStart = Span(s, m, n)[1], !.selEnd = Span(s, m, n)[2]]

\* Mutant: the new text is not counted.
FitsForgetsSpan(s, m, n, t) == Len(s.text) <= StoreMax

\* The check of ts_SetText: the text that results may fill the buffer.
Fits(s, m, n, t) == Len(s.text) + Len(t) - (n - m) <= StoreMax

\* Mutant: the selection stays where it was.
SetTextKeepsSelection(s, m, n, t) ==
    [s EXCEPT !.text = IF Fits(s, m, n, t)
                       THEN SubSeq(@, 1, m) \o t \o SubSeq(@, n + 1, Len(@))
                       ELSE @]

\* ts_SetText, called with m <= n <= Len(s.text): its callers clamp both, or pass the end twice.
SetText(s, m, n, t) ==
    IF Fits(s, m, n, t)
    THEN [text     |-> SubSeq(s.text, 1, m) \o t \o SubSeq(s.text, n + 1, Len(s.text)),
          selStart |-> m + Len(t),
          selEnd   |-> m + Len(t)]
    ELSE s

\* ts_InsertTextAtSelection: the span it edits, and the edit.
InsertSpan(s) == Span(s, s.selStart, s.selEnd)
InsertTextAtSelection(s, t) == SetText(s, InsertSpan(s)[1], InsertSpan(s)[2], t)

\* TextStore_AppendChar keeps a place for the terminator.
AppendChar(s, ch) ==
    IF Len(s.text) >= StoreMax - 1
    THEN s
    ELSE [text     |-> Append(s.text, ch),
          selStart |-> Len(s.text) + 1,
          selEnd   |-> Len(s.text) + 1]

\* TextStore_LogContent terminates the text in the buffer before it prints it.  In a buffer
\* that ts_SetText has filled, the terminator lands on the low half of the length, which is
\* the next field: the length becomes zero.
Overrun(s) == Len(s.text) >= StoreMax
LogContent(s) == IF Overrun(s) THEN [s EXCEPT !.text = <<>>] ELSE s

\* The selection lies in the text.
Selected(s) == 0 <= s.selStart /\ s.selStart <= s.selEnd /\ s.selEnd <= Len(s.text)
=============================================================================
