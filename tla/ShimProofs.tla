----------------------------- MODULE ShimProofs -----------------------------
(***************************************************************************)
(* Proofs about the parts of MsctfShim: CompositionBuffer, for buffers of  *)
(* any size and any texts, and ShimObjects, for any sinks and items, any   *)
(* room in the tables and any number of calls of the TIP.                  *)
(***************************************************************************)
EXTENDS CompositionBuffer, ShimObjects, SequenceTheorems, FiniteSetTheorems, FunctionTheorems, TLAPS

(***************************************************************************)
(* CompositionBuffer: the store and the context.                           *)
(***************************************************************************)
Stores   == [text : Seq(Chars), selStart : Nat, selEnd : Nat]
Contexts == [active : BOOLEAN, text : Seq(Chars), start : Nat, end : Nat]
Hists    == [moved : BOOLEAN, delivered : BOOLEAN, overrun : BOOLEAN, wrote : BOOLEAN]

StoreOK(s)   == s \in Stores /\ Len(s.text) <= StoreMax
ContextOK(c) == c \in Contexts /\ Len(c.text) <= CompMax /\ c.start <= c.end

\* The range reaches from the start of the text to its end or beyond: what ReadsWhole needs
\* to be kept by every step.
Covers(c) == c.start = 0 /\ Len(c.text) <= c.end

RangeCovers == ~hist.moved => Covers(ctx)

\* TypeOK, in the terms of the lemmas.
Typing ==
    /\ ContextOK(ctx)
    /\ StoreOK(store)
    /\ tip \in {"idle", "composing", "finishing"}
    /\ hist \in Hists

IInv == Typing /\ RangeCovers /\ SelectionInStore

LEMMA TypingIsTypeOK == Typing <=> TypeOK
  BY DEF Typing, TypeOK, ContextOK, StoreOK, Contexts, Stores, Hists

-----------------------------------------------------------------------------
(***************************************************************************)
(* Texts.                                                                  *)
(***************************************************************************)

\* A piece of a text is a text.
LEMMA Piece ==
    ASSUME NEW S, NEW s \in Seq(S), NEW m \in Int, NEW n \in Int, 1 <= m, n <= Len(s)
    PROVE  /\ SubSeq(s, m, n) \in Seq(S)
           /\ Len(SubSeq(s, m, n)) = IF m <= n THEN n - m + 1 ELSE 0
  <1>1. Len(s) \in Nat
    BY LenProperties
  <1>2. \A i \in m..n : s[i] \in S
    BY <1>1, ElementOfSeq
  <1> QED BY <1>2, SubSeqProperties

\* Three texts make one.
LEMMA Splice ==
    ASSUME NEW S, NEW p \in Seq(S), NEW t \in Seq(S), NEW q \in Seq(S)
    PROVE  p \o t \o q \in Seq(S) /\ Len(p \o t \o q) = Len(p) + Len(t) + Len(q)
  <1>1. p \o t \in Seq(S) /\ Len(p \o t) = Len(p) + Len(t)
    BY ConcatProperties
  <1>2. /\ (p \o t) \o q \in Seq(S)
        /\ Len((p \o t) \o q) = Len(p \o t) + Len(q)
    BY <1>1, ConcatProperties
  <1> QED BY <1>1, <1>2

\* A text the TIP writes is a text.
LEMMA TipTextIsText ==
    ASSUME NEW t \in TipTexts
    PROVE  t \in Seq(Chars)
  <1>1. PICK n \in 0..(CompMax + 1) : t \in [1..n -> TipChars]
    BY DEF TipTexts
  <1>2. n \in Nat
    BY <1>1, BufferAssumption
  <1>3. t \in Seq(TipChars)
    BY <1>1, <1>2, SeqDef
  <1> QED BY <1>3, SeqMonotonic DEF Chars

-----------------------------------------------------------------------------
(***************************************************************************)
(* The store.                                                              *)
(***************************************************************************)

\* A pair of offsets is clamped to an ordered pair in the text.
LEMMA SpanInside ==
    ASSUME NEW s, StoreOK(s), NEW m \in Int, NEW n \in Int
    PROVE  /\ Span(s, m, n)[1] \in Nat /\ Span(s, m, n)[2] \in Nat
           /\ Span(s, m, n)[1] <= Span(s, m, n)[2]
           /\ Span(s, m, n)[2] <= Len(s.text)
  <1>1. Len(s.text) \in Nat
    BY LenProperties DEF StoreOK, Stores
  <1> QED BY <1>1 DEF Span, Inside, Least, Most

\* An edit inside the text keeps the store in its buffer and leaves the selection inside it.
LEMMA SetTextKeeps ==
    ASSUME NEW s, StoreOK(s), NEW m \in Nat, NEW n \in Nat, m <= n, n <= Len(s.text),
           NEW t \in Seq(Chars)
    PROVE  /\ StoreOK(SetText(s, m, n, t))
           /\ Fits(s, m, n, t) => Selected(SetText(s, m, n, t))
           /\ Selected(s) => Selected(SetText(s, m, n, t))
  <1> DEFINE len  == Len(s.text)
             pre  == SubSeq(s.text, 1, m)
             tail == SubSeq(s.text, n + 1, len)
             new  == pre \o t \o tail
  <1>1. s.text \in Seq(Chars) /\ len \in Nat /\ Len(t) \in Nat /\ StoreMax \in Nat
    BY LenProperties, StoreAssumption DEF StoreOK, Stores
  <1>2. m <= len /\ n <= len
    BY <1>1
  <1>3. pre \in Seq(Chars) /\ Len(pre) = m
    BY <1>1, <1>2, Piece
  <1>4. tail \in Seq(Chars) /\ Len(tail) = len - n
    <2>1. n + 1 \in Int /\ 1 <= n + 1 /\ len \in Int
      BY <1>1
    <2>2. /\ tail \in Seq(Chars)
          /\ Len(tail) = IF n + 1 <= len THEN len - (n + 1) + 1 ELSE 0
      BY <1>1, <2>1, Piece
    <2> QED BY <1>1, <1>2, <2>2
  <1>5. SetText(s, m, n, t) =
          IF Fits(s, m, n, t)
          THEN [text |-> new, selStart |-> m + Len(t), selEnd |-> m + Len(t)] ELSE s
    BY DEF SetText
  <1>6. Fits(s, m, n, t) <=> len + Len(t) - (n - m) <= StoreMax
    BY DEF Fits
  <1> HIDE DEF pre, tail, len
  <1>7. pre \in Seq(Chars) /\ tail \in Seq(Chars)
    BY <1>3, <1>4
  <1>8. new \in Seq(Chars) /\ Len(new) = Len(pre) + Len(t) + Len(tail)
    BY <1>7, Splice
  <1> HIDE DEF new
  <1>9. Len(new) = len + Len(t) - (n - m)
    BY <1>1, <1>3, <1>4, <1>8
  <1>10. m + Len(t) \in Nat /\ m + Len(t) <= Len(new)
    BY <1>1, <1>2, <1>9
  <1>11. CASE Fits(s, m, n, t)
    <2>1. Len(new) <= StoreMax
      BY <1>6, <1>9, <1>11
    <2> DEFINE k == m + Len(t)
               r == [text |-> new, selStart |-> k, selEnd |-> k]
    <2>2. SetText(s, m, n, t) = r
      BY <1>5, <1>11
    <2>3. k \in Nat /\ k <= Len(new)
      BY <1>10
    <2> HIDE DEF k
    <2>4. r \in Stores /\ r.text = new /\ r.selStart = k /\ r.selEnd = k
      BY <1>8, <2>3 DEF Stores
    <2> HIDE DEF r
    <2>5. StoreOK(r)
      BY <2>1, <2>4 DEF StoreOK
    <2>6. Selected(r)
      BY <2>3, <2>4 DEF Selected
    <2> QED BY <2>2, <2>5, <2>6
  <1>12. CASE ~Fits(s, m, n, t)
    BY <1>5, <1>12
  <1> QED BY <1>11, <1>12

LEMMA AppendCharKeeps ==
    ASSUME NEW s, StoreOK(s), NEW ch \in Chars
    PROVE  /\ StoreOK(AppendChar(s, ch))
           /\ AppendChar(s, ch) # s => Selected(AppendChar(s, ch))
           /\ Selected(s) => Selected(AppendChar(s, ch))
  <1>1. s.text \in Seq(Chars) /\ Len(s.text) \in Nat /\ StoreMax \in Nat
    BY LenProperties, StoreAssumption DEF StoreOK, Stores
  <1>2. Append(s.text, ch) \in Seq(Chars) /\ Len(Append(s.text, ch)) = Len(s.text) + 1
    BY <1>1
  <1> QED BY <1>1, <1>2 DEF AppendChar, StoreOK, Stores, Selected

LEMMA LogContentKeeps ==
    ASSUME NEW s, StoreOK(s)
    PROVE  /\ StoreOK(LogContent(s))
           /\ ~Overrun(s) => LogContent(s) = s
  <1>1. <<>> \in Seq(Chars) /\ Len(<<>>) = 0 /\ StoreMax \in Nat
    BY EmptySeq, StoreAssumption
  <1> DEFINE e == [s EXCEPT !.text = <<>>]
  <1>2. e \in Stores /\ e.text = <<>>
    BY <1>1 DEF StoreOK, Stores
  <1>3. LogContent(s) = IF Overrun(s) THEN e ELSE s
    BY DEF LogContent
  <1> HIDE DEF e
  <1> QED BY <1>1, <1>2, <1>3 DEF StoreOK

LEMMA SetSelectionKeeps ==
    ASSUME NEW s, StoreOK(s), NEW m \in Int, NEW n \in Int
    PROVE  StoreOK(SetSelection(s, m, n)) /\ Selected(SetSelection(s, m, n))
  <1> DEFINE a == Span(s, m, n)[1]
             b == Span(s, m, n)[2]
  <1>1. a \in Nat /\ b \in Nat /\ a <= b /\ b <= Len(s.text)
    BY SpanInside
  <1>2. SetSelection(s, m, n) = [s EXCEPT !.selStart = a, !.selEnd = b]
    BY DEF SetSelection
  <1> HIDE DEF a, b
  <1> DEFINE d == [s EXCEPT !.selStart = a, !.selEnd = b]
  <1>3. d \in Stores /\ d.text = s.text /\ d.selStart = a /\ d.selEnd = b
    BY <1>1 DEF StoreOK, Stores
  <1> HIDE DEF d
  <1>4. StoreOK(d) /\ Selected(d)
    BY <1>1, <1>3 DEF StoreOK, Selected
  <1> QED BY <1>2, <1>4 DEF d

\* An insertion at the selection, wherever the selection is.
LEMMA InsertKeeps ==
    ASSUME NEW s, StoreOK(s), NEW t \in Seq(Chars),
           Fits(s, InsertSpan(s)[1], InsertSpan(s)[2], t)
    PROVE  StoreOK(InsertTextAtSelection(s, t)) /\ Selected(InsertTextAtSelection(s, t))
  <1> DEFINE a == InsertSpan(s)[1]
             b == InsertSpan(s)[2]
  <1>1. s.selStart \in Int /\ s.selEnd \in Int
    BY DEF StoreOK, Stores
  <1>2. a \in Nat /\ b \in Nat /\ a <= b /\ b <= Len(s.text)
    BY <1>1, SpanInside DEF InsertSpan
  <1>3. Fits(s, a, b, t) /\ InsertTextAtSelection(s, t) = SetText(s, a, b, t)
    BY DEF InsertTextAtSelection
  <1> HIDE DEF a, b
  <1> QED BY <1>2, <1>3, SetTextKeeps

-----------------------------------------------------------------------------
(***************************************************************************)
(* The composition.                                                        *)
(***************************************************************************)

\* After a sync the range is the text.
LEMMA SyncKeeps ==
    ASSUME NEW c \in Contexts, Len(c.text) <= CompMax
    PROVE  ContextOK(sync(c)) /\ Covers(sync(c))
  <1>1. Len(c.text) \in Nat
    BY LenProperties DEF Contexts
  <1>2. /\ sync(c) \in Contexts /\ sync(c).text = c.text
        /\ sync(c).start = 0 /\ sync(c).end = Len(c.text)
    BY <1>1 DEF sync, Contexts
  <1> QED BY <1>1, <1>2 DEF ContextOK, Covers

LEMMA AppendTextKeeps ==
    ASSUME NEW c, ContextOK(c), NEW ch \in Chars
    PROVE  /\ ContextOK(appendText(c, ch))
           /\ Len(c.text) < CompMax => Covers(appendText(c, ch))
           /\ Covers(c) => Covers(appendText(c, ch))
  <1>1. c.text \in Seq(Chars) /\ Len(c.text) \in Nat /\ CompMax \in Nat
    BY LenProperties, BufferAssumption DEF ContextOK, Contexts
  <1>2. Append(c.text, ch) \in Seq(Chars) /\ Len(Append(c.text, ch)) = Len(c.text) + 1
    BY <1>1
  <1> DEFINE d == [c EXCEPT !.text = Append(@, ch)]
  <1>3. CASE Len(c.text) < CompMax
    <2>1. d \in Contexts /\ d.text = Append(c.text, ch)
      BY <1>2 DEF ContextOK, Contexts
    <2>2. Len(d.text) <= CompMax
      BY <1>1, <1>2, <1>3, <2>1
    <2>3. appendText(c, ch) = sync(d)
      BY <1>3 DEF appendText
    <2> HIDE DEF d
    <2> QED BY <2>1, <2>2, <2>3, SyncKeeps
  <1>4. CASE ~(Len(c.text) < CompMax)
    BY <1>4 DEF appendText
  <1> QED BY <1>3, <1>4

LEMMA ReplaceTextKeeps ==
    ASSUME NEW c, ContextOK(c), NEW t \in Seq(Chars)
    PROVE  ContextOK(replaceText(c, t)) /\ Covers(replaceText(c, t))
  <1> DEFINE n == Least(Len(t), CompMax)
             u == SubSeq(t, 1, n)
             d == [c EXCEPT !.text = u]
  <1>1. n \in Nat /\ n <= Len(t) /\ n <= CompMax
    BY LenProperties, BufferAssumption DEF Least
  <1>2. u \in Seq(Chars) /\ Len(u) = n
    <2>1. /\ SubSeq(t, 1, n) \in Seq(Chars)
          /\ Len(SubSeq(t, 1, n)) = IF 1 <= n THEN n - 1 + 1 ELSE 0
      BY <1>1, Piece
    <2> QED BY <1>1, <2>1
  <1> HIDE DEF u, n
  <1>3. d \in Contexts /\ d.text = u
    BY <1>2 DEF ContextOK, Contexts
  <1>4. replaceText(c, t) = sync(d)
    BY DEF replaceText, u, n
  <1> HIDE DEF d
  <1> QED BY <1>1, <1>2, <1>3, <1>4, SyncKeeps

\* The text range_SetText makes has the length its check computed.
LEMMA WrittenText ==
    ASSUME ContextOK(ctx), NEW t \in Seq(Chars)
    PROVE  LET new == UpToStart \o t \o SubSeq(ctx.text, WriteEnd + 1, Len(ctx.text))
           IN  /\ new \in Seq(Chars)
               /\ Len(new) = Len(ctx.text) + Len(t) - (WriteEnd - ctx.start)
  <1> DEFINE len == Len(ctx.text)
             tail == SubSeq(ctx.text, WriteEnd + 1, len)
  <1>1. /\ ctx.text \in Seq(Chars) /\ len \in Nat /\ ctx.start \in Nat /\ ctx.end \in Nat
        /\ Len(t) \in Nat
    BY LenProperties DEF ContextOK, Contexts
  <1>2. WriteEnd \in Nat /\ WriteEnd <= len
    BY <1>1 DEF WriteEnd, Least, Most
  <1>3. UpToStart \in Seq(Chars) /\ Len(UpToStart) = ctx.start
    <2>1. UpToStart \in [1..ctx.start -> Chars]
      <3>1. ASSUME NEW i \in 1..ctx.start
            PROVE  (IF i <= len THEN ctx.text[i] ELSE Stale) \in Chars
        <4>1. CASE i <= len
          <5>1. i \in 1..Len(ctx.text)
            BY <1>1, <3>1, <4>1
          <5> QED BY <1>1, <4>1, <5>1, ElementOfSeq
        <4>2. CASE ~(i <= len)
          BY <4>2 DEF Chars
        <4> QED BY <4>1, <4>2
      <3> QED BY <3>1 DEF UpToStart
    <2>2. UpToStart \in Seq(Chars)
      BY <1>1, <2>1, SeqDef
    <2>3. DOMAIN UpToStart = 1..ctx.start
      BY DEF UpToStart
    <2> QED BY <1>1, <2>2, <2>3, LenProperties
  <1>4. tail \in Seq(Chars) /\ Len(tail) = len - WriteEnd
    <2>1. WriteEnd + 1 \in Int /\ 1 <= WriteEnd + 1 /\ len \in Int
      BY <1>1, <1>2
    <2>2. tail \in Seq(Chars)
          /\ Len(tail) = IF WriteEnd + 1 <= len THEN len - (WriteEnd + 1) + 1 ELSE 0
      BY <1>1, <2>1, Piece
    <2> QED BY <1>1, <1>2, <2>2
  <1>5. UpToStart \o t \in Seq(Chars) /\ Len(UpToStart \o t) = ctx.start + Len(t)
    BY <1>3, ConcatProperties
  <1>6. /\ (UpToStart \o t) \o tail \in Seq(Chars)
        /\ Len((UpToStart \o t) \o tail) = Len(UpToStart \o t) + Len(tail)
    BY <1>4, <1>5, ConcatProperties
  <1>7. Len((UpToStart \o t) \o tail) = len + Len(t) - (WriteEnd - ctx.start)
    <2> HIDE DEF tail, len
    <2> QED BY <1>1, <1>2, <1>4, <1>5, <1>6
  <1> QED BY <1>6, <1>7

-----------------------------------------------------------------------------
(***************************************************************************)
(* The invariant.                                                          *)
(***************************************************************************)

LEMMA InitIInv == Init => IInv
  <1> SUFFICES ASSUME Init PROVE IInv
    OBVIOUS
  <1>1. <<>> \in Seq(Chars) /\ Len(<<>>) = 0
    BY EmptySeq
  <1>2. StoreMax \in Nat /\ CompMax \in Nat
    BY StoreAssumption, BufferAssumption
  <1>3. ContextOK(ctx) /\ Covers(ctx)
    BY <1>1, <1>2 DEF Init, ContextOK, Contexts, Covers
  <1>4. StoreOK(store) /\ Selected(store)
    BY <1>1, <1>2 DEF Init, Create, StoreOK, Stores, Selected
  <1> QED BY <1>3, <1>4 DEF Init, IInv, Typing, Hists, RangeCovers, SelectionInStore

\* Keys touch the composition only.
LEMMA KeysKeep ==
    ASSUME IInv, KeyLetter \/ KeyBack \/ KeyReturn \/ KeyConvert \/ KeyOther
    PROVE  IInv'
  <1>1. /\ ContextOK(ctx) /\ StoreOK(store) /\ hist \in Hists
        /\ tip \in {"idle", "composing", "finishing"}
    BY DEF IInv, Typing
  <1>2. ASSUME NextKey PROVE tip' \in {"idle", "composing", "finishing"}
    BY <1>1, <1>2 DEF NextKey
  <1>3. Len(ctx.text) \in Nat /\ CompMax \in Nat
    BY <1>1, LenProperties, BufferAssumption DEF ContextOK, Contexts
  <1>4. CASE KeyLetter
    <2> DEFINE c == [ctx EXCEPT !.active = TRUE]
    <2>1. PICK ch \in KeyChars : ctx' = appendText(c, ch)
      BY <1>4 DEF KeyLetter
    <2>2. ContextOK(c) /\ c.text = ctx.text /\ (Covers(ctx) => Covers(c))
      BY <1>1 DEF ContextOK, Contexts, Covers
    <2>3. ch \in Chars
      BY DEF Chars
    <2> HIDE DEF c
    <2>4. /\ ContextOK(ctx')
          /\ Len(ctx.text) < CompMax => Covers(ctx')
          /\ Covers(ctx) => Covers(ctx')
      BY <2>1, <2>2, <2>3, AppendTextKeeps
    <2>5. hist' \in Hists /\ hist'.overrun = hist.overrun
          /\ (~hist'.moved => ~hist.moved \/ Len(ctx.text) < CompMax)
      BY <1>1, <1>4 DEF KeyLetter, Hists, Synced
    <2>6. store' = store
      BY <1>4 DEF KeyLetter
    <2>7. RangeCovers'
      BY <2>4, <2>5 DEF IInv, RangeCovers
    <2>8. SelectionInStore'
      BY <2>5, <2>6 DEF IInv, SelectionInStore
    <2>9. Typing'
      BY <1>1, <1>2, <1>4, <2>4, <2>5, <2>6 DEF Typing, KeyLetter
    <2> QED BY <2>7, <2>8, <2>9 DEF IInv
  <1>5. CASE KeyBack
    <2> DEFINE n == Most(Len(ctx.text) - 1, 0)
               c == [ctx EXCEPT !.active = TRUE, !.text = SubSeq(@, 1, n)]
    <2>1. ctx' = sync(c)
      BY <1>5 DEF KeyBack
    <2>2. n \in Nat /\ n <= Len(ctx.text)
      BY <1>3 DEF Most
    <2>3. SubSeq(ctx.text, 1, n) \in Seq(Chars) /\ Len(SubSeq(ctx.text, 1, n)) = n
      <3> HIDE DEF n
      <3>1. ctx.text \in Seq(Chars)
        BY <1>1 DEF ContextOK, Contexts
      <3>2. Len(SubSeq(ctx.text, 1, n)) = IF 1 <= n THEN n - 1 + 1 ELSE 0
        BY <2>2, <3>1, Piece
      <3> QED BY <2>2, <3>1, <3>2, Piece
    <2> HIDE DEF n
    <2>4. c \in Contexts /\ c.text = SubSeq(ctx.text, 1, n)
      BY <1>1, <2>3 DEF ContextOK, Contexts
    <2>5. Len(c.text) <= CompMax
      BY <1>1, <1>3, <2>2, <2>3, <2>4 DEF ContextOK
    <2> HIDE DEF c
    <2>6. ContextOK(ctx') /\ Covers(ctx')
      BY <2>1, <2>4, <2>5, SyncKeeps
    <2>7. hist' \in Hists /\ hist'.overrun = hist.overrun
      BY <1>1, <1>5 DEF KeyBack, Hists, Synced
    <2>8. Typing'
      BY <1>1, <1>2, <1>5, <2>6, <2>7 DEF Typing, KeyBack
    <2> QED BY <1>5, <2>6, <2>7, <2>8 DEF IInv, RangeCovers, SelectionInStore, KeyBack
  <1>6. CASE KeyReturn \/ KeyConvert \/ KeyOther
    <2>1. ContextOK(ctx') /\ (Covers(ctx) => Covers(ctx'))
      BY <1>1, <1>6 DEF KeyReturn, KeyConvert, KeyOther, ContextOK, Contexts, Covers
    <2>2. store' = store /\ hist' = hist
      BY <1>6 DEF KeyReturn, KeyConvert, KeyOther
    <2>3. Typing'
      BY <1>1, <1>2, <1>6, <2>1, <2>2 DEF Typing, KeyReturn, KeyConvert, KeyOther
    <2> QED BY <2>1, <2>2, <2>3 DEF IInv, RangeCovers, SelectionInStore
  <1> QED BY <1>4, <1>5, <1>6

LEMMA HostKeeps ==
    ASSUME IInv, WmChar \/ Reset \/ Dump
    PROVE  IInv'
  <1>1. /\ ContextOK(ctx) /\ StoreOK(store) /\ hist \in Hists
        /\ tip \in {"idle", "composing", "finishing"}
    BY DEF IInv, Typing
  <1>2. Len(ctx.text) \in Nat /\ CompMax \in Nat
    BY <1>1, LenProperties, BufferAssumption DEF ContextOK, Contexts
  <1>3. CASE WmChar
    <2>1. PICK ch \in KeyChars, interim \in BOOLEAN :
               /\ ctx' = appendText(ctx, ch)
               /\ store' = IF interim THEN store ELSE AppendChar(store, ch)
               /\ hist' = [hist EXCEPT !.moved = @ /\ Len(ctx.text) >= CompMax,
                                       !.overrun = @ /\ store' = store]
               /\ tip' = tip
      BY <1>3 DEF WmChar
    <2>2. ch \in Chars
      BY DEF Chars
    <2>3. /\ ContextOK(ctx')
          /\ Len(ctx.text) < CompMax => Covers(ctx')
          /\ Covers(ctx) => Covers(ctx')
      BY <1>1, <2>1, <2>2, AppendTextKeeps
    <2>4. /\ StoreOK(store')
          /\ store' # store => Selected(store')
          /\ Selected(store) => Selected(store')
      BY <1>1, <2>1, <2>2, AppendCharKeeps
    <2>5. /\ hist' \in Hists
          /\ hist'.moved = (hist.moved /\ Len(ctx.text) >= CompMax)
          /\ hist'.overrun = (hist.overrun /\ store' = store)
      BY <1>1, <2>1 DEF Hists
    <2>6. RangeCovers'
      <3>1. Len(ctx.text) < CompMax \/ Len(ctx.text) >= CompMax
        BY <1>2
      <3>2. ~hist'.moved => ~hist.moved \/ Len(ctx.text) < CompMax
        BY <2>5, <3>1
      <3> QED BY <2>3, <3>2 DEF IInv, RangeCovers
    <2>7. SelectionInStore'
      BY <2>4, <2>5 DEF IInv, SelectionInStore
    <2>8. Typing'
      BY <1>1, <2>1, <2>3, <2>4, <2>5 DEF Typing
    <2> QED BY <2>6, <2>7, <2>8 DEF IInv
  <1>4. CASE Reset
    <2> DEFINE c == [ctx EXCEPT !.active = FALSE, !.text = <<>>]
    <2>1. <<>> \in Seq(Chars) /\ Len(<<>>) = 0
      BY EmptySeq
    <2>2. c \in Contexts /\ c.text = <<>>
      BY <1>1, <2>1 DEF ContextOK, Contexts
    <2>3. ctx' = sync(c)
      BY <1>4 DEF Reset
    <2> HIDE DEF c
    <2>4. ContextOK(ctx') /\ Covers(ctx')
      BY <1>2, <2>1, <2>2, <2>3, SyncKeeps
    <2>5. hist' \in Hists /\ hist'.overrun = hist.overrun
      BY <1>1, <1>4 DEF Reset, Hists, Synced
    <2>6. store' = store /\ tip' = tip
      BY <1>4 DEF Reset
    <2>7. Typing'
      BY <1>1, <2>4, <2>5, <2>6 DEF Typing
    <2> QED BY <2>4, <2>5, <2>6, <2>7 DEF IInv, RangeCovers, SelectionInStore
  <1>5. CASE Dump
    <2>1. StoreOK(store') /\ (~Overrun(store) => store' = store)
      BY <1>1, <1>5, LogContentKeeps DEF Dump
    <2>2. /\ hist' \in Hists /\ hist'.moved = hist.moved
          /\ hist'.overrun = (hist.overrun \/ Overrun(store))
      <3>1. Overrun(store) \in BOOLEAN
        BY DEF Overrun
      <3> QED BY <1>1, <1>5, <3>1 DEF Dump, Hists
    <2>3. ctx' = ctx /\ tip' = tip
      BY <1>5 DEF Dump
    <2>4. Typing'
      BY <1>1, <2>1, <2>2, <2>3 DEF Typing
    <2> QED BY <2>1, <2>2, <2>3, <2>4 DEF IInv, RangeCovers, SelectionInStore
  <1> QED BY <1>3, <1>4, <1>5

LEMMA RangeKeeps ==
    ASSUME IInv, range_Shift \/ range_Collapse \/ \E t \in TipTexts : range_SetText(t)
    PROVE  IInv'
  <1>1. /\ ContextOK(ctx) /\ StoreOK(store) /\ hist \in Hists
        /\ tip \in {"idle", "composing", "finishing"}
    BY DEF IInv, Typing
  <1>2. CASE range_Shift \/ range_Collapse
    <2>1. ContextOK(ctx')
      <3>1. CASE range_Shift
        <4>1. PICK n \in Shifts :
                 \/ ctx' = [ctx EXCEPT !.start = Least(Most(ctx.start + n, 0), ctx.end)]
                 \/ ctx' = [ctx EXCEPT !.end = Most(ctx.end + n, ctx.start)]
          BY <3>1 DEF range_Shift
        <4>2. n \in Int /\ ctx.start \in Nat /\ ctx.end \in Nat /\ ctx.start <= ctx.end
          BY <1>1, BufferAssumption DEF Shifts, ContextOK, Contexts
        <4>3. /\ Least(Most(ctx.start + n, 0), ctx.end) \in Nat
              /\ Least(Most(ctx.start + n, 0), ctx.end) <= ctx.end
              /\ Most(ctx.end + n, ctx.start) \in Nat
              /\ ctx.start <= Most(ctx.end + n, ctx.start)
          BY <4>2 DEF Least, Most
        <4> QED BY <1>1, <4>1, <4>3 DEF ContextOK, Contexts
      <3>2. CASE range_Collapse
        BY <1>1, <3>2 DEF range_Collapse, ContextOK, Contexts
      <3> QED BY <1>2, <3>1, <3>2
    <2>2. hist' \in Hists /\ hist'.moved /\ hist'.overrun = hist.overrun
      BY <1>1, <1>2 DEF range_Shift, range_Collapse, Hists
    <2>3. store' = store /\ tip' = tip
      BY <1>2 DEF range_Shift, range_Collapse
    <2>4. Typing'
      BY <1>1, <2>1, <2>2, <2>3 DEF Typing
    <2> QED BY <2>2, <2>3, <2>4 DEF IInv, RangeCovers, SelectionInStore
  <1>3. ASSUME NEW t \in TipTexts, range_SetText(t) PROVE IInv'
    <2> DEFINE new == UpToStart \o t \o SubSeq(ctx.text, WriteEnd + 1, Len(ctx.text))
               c == [ctx EXCEPT !.text = new]
    <2>1. new \in Seq(Chars) /\ Len(new) = Len(ctx.text) + Len(t) - (WriteEnd - ctx.start)
      BY <1>1, TipTextIsText, WrittenText
    <2>2. ctx' = sync(c)
      BY <1>3 DEF range_SetText
    <2> HIDE DEF new
    <2>3. c \in Contexts /\ c.text = new
      BY <1>1, <2>1 DEF ContextOK, Contexts
    <2>4. Len(new) <= CompMax
      BY <1>3, <2>1 DEF range_SetText, Room
    <2> HIDE DEF c
    <2>5. ContextOK(ctx') /\ Covers(ctx')
      BY <2>2, <2>3, <2>4, SyncKeeps
    <2>6. hist' \in Hists /\ hist'.overrun = hist.overrun
      BY <1>1, <1>3 DEF range_SetText, Hists, Synced
    <2>7. store' = store /\ tip' = tip
      BY <1>3 DEF range_SetText
    <2>8. Typing'
      BY <1>1, <2>5, <2>6, <2>7 DEF Typing
    <2> QED BY <2>5, <2>6, <2>7, <2>8 DEF IInv, RangeCovers, SelectionInStore
  <1> QED BY <1>2, <1>3

\* A composition that begins finds the range of the last one; what it covers is empty.
LEMMA CompositionKeeps ==
    ASSUME IInv, NewComposition \/ EndComposition
    PROVE  IInv'
  <1>1. /\ ContextOK(ctx) /\ StoreOK(store) /\ hist \in Hists
        /\ tip \in {"idle", "composing", "finishing"}
    BY DEF IInv, Typing
  <1>2. CASE NewComposition
    <2>1. <<>> \in Seq(Chars) /\ Len(<<>>) = 0 /\ CompMax \in Nat
      BY EmptySeq, BufferAssumption
    <2>2. /\ ctx' \in Contexts /\ ctx'.text = <<>>
          /\ ctx'.start = ctx.start /\ ctx'.end = ctx.end
      BY <1>1, <1>2, <2>1 DEF NewComposition, Emptied, ContextOK, Contexts
    <2>3. ctx.start \in Nat /\ ctx.end \in Nat
      BY <1>1 DEF ContextOK, Contexts
    <2>4. ContextOK(ctx') /\ (ctx.start = 0 => Covers(ctx'))
      BY <1>1, <2>1, <2>2, <2>3 DEF ContextOK, Covers
    <2>5. /\ hist' \in Hists /\ hist'.overrun = hist.overrun
          /\ hist'.moved = (ctx.start > 0)
      <3>1. (ctx.start > 0) \in BOOLEAN
        OBVIOUS
      <3> QED BY <1>1, <1>2, <3>1 DEF NewComposition, Hists
    <2>6. ~hist'.moved => ctx.start = 0
      <3>1. ctx.start = 0 \/ ctx.start > 0
        BY <2>3
      <3> QED BY <2>5, <3>1
    <2>7. store' = store /\ tip' = "composing"
      BY <1>2 DEF NewComposition
    <2>8. Typing'
      BY <1>1, <2>4, <2>5, <2>7 DEF Typing
    <2> QED BY <2>4, <2>5, <2>6, <2>7, <2>8 DEF IInv, RangeCovers, SelectionInStore
  <1>3. CASE EndComposition
    <2> DEFINE after == endComposition(ctx, store)
    <2>1. /\ ctx' = after.ctx /\ store' = after.store /\ tip' = "finishing"
          /\ hist' = [hist EXCEPT !.delivered = @ \/ after.store # store,
                                  !.overrun = @ /\ after.store = store]
      BY <1>3 DEF EndComposition
    <2>2. after.ctx = [ctx EXCEPT !.active = FALSE]
      BY DEF endComposition
    <2>3. \/ after.store = store
          \/ after.store = SetText(store, Len(store.text), Len(store.text), ctx.text)
      BY DEF endComposition
    <2> HIDE DEF after
    <2>4. ContextOK(ctx') /\ (Covers(ctx) => Covers(ctx'))
      BY <1>1, <2>1, <2>2 DEF ContextOK, Contexts, Covers
    <2>5. /\ StoreOK(store')
          /\ store' # store => Selected(store')
          /\ Selected(store) => Selected(store')
      <3> DEFINE n == Len(store.text)
                 s == SetText(store, n, n, ctx.text)
      <3>1. n \in Nat /\ n <= n /\ ctx.text \in Seq(Chars)
        BY <1>1, LenProperties DEF ContextOK, Contexts, StoreOK, Stores
      <3>2. /\ StoreOK(s) /\ (Selected(store) => Selected(s))
            /\ (Fits(store, n, n, ctx.text) => Selected(s))
        BY <1>1, <3>1, SetTextKeeps
      <3>3. ~Fits(store, n, n, ctx.text) => s = store
        BY DEF SetText
      <3> HIDE DEF s
      <3>4. store' = store \/ store' = s
        BY <2>1, <2>3 DEF s
      <3> QED BY <1>1, <3>2, <3>3, <3>4
    <2>6. /\ hist' \in Hists /\ hist'.moved = hist.moved
          /\ hist'.overrun = (hist.overrun /\ store' = store)
      BY <1>1, <2>1 DEF Hists
    <2>7. Typing'
      BY <1>1, <2>1, <2>4, <2>5, <2>6 DEF Typing
    <2> QED BY <2>4, <2>5, <2>6, <2>7 DEF IInv, RangeCovers, SelectionInStore
  <1> QED BY <1>2, <1>3

LEMMA InsertionKeeps ==
    ASSUME IInv, Select \/ \E t \in TipTexts : InsertText(t) \/ InsertTextQuery(t)
    PROVE  IInv'
  <1>1. /\ ContextOK(ctx) /\ StoreOK(store) /\ hist \in Hists
        /\ tip \in {"idle", "composing", "finishing"}
    BY DEF IInv, Typing
  <1>2. CASE Select
    <2>1. PICK m, n \in -1..(StoreMax + 1) : store' = SetSelection(store, m, n)
      BY <1>2 DEF Select
    <2>2. m \in Int /\ n \in Int
      BY <2>1, StoreAssumption
    <2>3. StoreOK(store') /\ Selected(store')
      BY <1>1, <2>1, <2>2, SetSelectionKeeps
    <2>4. hist' \in Hists /\ hist'.moved = hist.moved
      BY <1>1, <1>2 DEF Select, Hists
    <2>5. ctx' = ctx /\ tip' = tip
      BY <1>2 DEF Select
    <2>6. Typing'
      BY <1>1, <2>3, <2>4, <2>5 DEF Typing
    <2> QED BY <2>3, <2>4, <2>5, <2>6 DEF IInv, RangeCovers, SelectionInStore
  <1>3. ASSUME NEW t \in TipTexts, InsertText(t) PROVE IInv'
    <2>1. t \in Seq(Chars)
      BY TipTextIsText
    <2>2. StoreOK(store') /\ Selected(store')
      BY <1>1, <1>3, <2>1, InsertKeeps DEF InsertText
    <2> DEFINE c == replaceText(ctx, t)
    <2>3. ContextOK(c) /\ Covers(c)
      BY <1>1, <2>1, ReplaceTextKeeps
    <2>4. ctx' = [c EXCEPT !.active = FALSE]
      BY <1>3 DEF InsertText, inserted
    <2> HIDE DEF c
    <2>5. ContextOK(ctx') /\ Covers(ctx')
      BY <2>3, <2>4 DEF ContextOK, Contexts, Covers
    <2>6. hist' \in Hists /\ tip' \in {"idle", "composing", "finishing"}
      BY <1>1, <1>3 DEF InsertText, Hists, Synced
    <2>7. Typing'
      BY <2>2, <2>5, <2>6 DEF Typing
    <2> QED BY <2>2, <2>5, <2>7 DEF IInv, RangeCovers, SelectionInStore
  <1>4. ASSUME NEW t \in TipTexts, InsertTextQuery(t) PROVE IInv'
    <2>1. Len(t) \in Nat
      BY TipTextIsText, LenProperties
    <2>2. ContextOK(ctx')
      <3>1. /\ ctx' \in Contexts /\ ctx'.text = ctx.text
            /\ ctx'.start = 0 /\ ctx'.end = Len(t)
        BY <1>1, <1>4, <2>1 DEF InsertTextQuery, ContextOK, Contexts
      <3> QED BY <1>1, <2>1, <3>1 DEF ContextOK
    <2>3. hist' \in Hists /\ hist'.moved /\ hist'.overrun = hist.overrun
      BY <1>1, <1>4 DEF InsertTextQuery, Hists
    <2>4. store' = store /\ tip' = tip
      BY <1>4 DEF InsertTextQuery
    <2>5. Typing'
      BY <1>1, <2>2, <2>3, <2>4 DEF Typing
    <2> QED BY <2>3, <2>4, <2>5 DEF IInv, RangeCovers, SelectionInStore
  <1> QED BY <1>2, <1>3, <1>4

\* Every step keeps the invariant; the refused calls change nothing.
LEMMA NextIInv == IInv /\ [Next]_vars => IInv'
  <1> SUFFICES ASSUME IInv, [Next]_vars PROVE IInv'
    OBVIOUS
  <1>1. CASE UNCHANGED vars
    BY <1>1 DEF vars, IInv, Typing, RangeCovers, SelectionInStore
  <1>2. CASE Host
    BY <1>2, KeysKeep, HostKeeps DEF Host
  <1>3. CASE Tip
    <2>1. CASE range_Shift \/ range_Collapse
      BY <2>1, RangeKeeps
    <2>2. CASE Select
      BY <2>2, InsertionKeeps
    <2>3. CASE StartComposition \/ TakeOwnership \/ EndComposition
      BY <2>3, CompositionKeeps DEF StartComposition, TakeOwnership
    <2>4. ASSUME NEW t \in TipTexts,
                 \/ range_SetText(t) \/ range_SetTextRefused(t)
                 \/ InsertText(t) \/ InsertTextRefused(t) \/ InsertTextQuery(t)
          PROVE  IInv'
      <3>1. CASE range_SetText(t)
        BY <3>1, RangeKeeps
      <3>2. CASE InsertText(t) \/ InsertTextQuery(t)
        BY <3>2, InsertionKeeps
      <3>3. CASE range_SetTextRefused(t) \/ InsertTextRefused(t)
        BY <1>1, <3>3 DEF range_SetTextRefused, InsertTextRefused
      <3> QED BY <2>4, <3>1, <3>2, <3>3
    <2> QED BY <1>3, <2>1, <2>2, <2>3, <2>4 DEF Tip
  <1> QED BY <1>1, <1>2, <1>3 DEF Next

LEMMA AlwaysIInv == Spec => []IInv
  BY InitIInv, NextIInv, PTL DEF Spec

-----------------------------------------------------------------------------
\* Whatever the TIP and the host do, comp_text keeps room for its terminator, the shared range
\* stays ordered and the store stays in its buffer.
THEOREM TypeCorrect == Spec => []TypeOK
  <1>1. IInv => TypeOK
    BY TypingIsTypeOK DEF IInv
  <1> QED BY <1>1, AlwaysIInv, PTL

\* Until the TIP moves the range, reading it gives the whole composition.
THEOREM RangeReadsWhole == Spec => []ReadsWhole
  <1>1. ASSUME IInv PROVE ReadsWhole
    <2> SUFFICES ASSUME ~hist.moved PROVE range_GetText = ctx.text
      BY DEF ReadsWhole
    <2>1. ctx.start = 0 /\ Len(ctx.text) <= ctx.end
      BY <1>1 DEF IInv, RangeCovers, Covers
    <2>2. ctx.text \in Seq(Chars) /\ Len(ctx.text) \in Nat /\ ctx.end \in Nat
      BY <1>1, LenProperties DEF IInv, Typing, ContextOK, Contexts
    <2>3. Least(ctx.end, Len(ctx.text)) = Len(ctx.text)
      BY <2>1, <2>2 DEF Least
    <2>4. range_GetText = SubSeq(ctx.text, 1, Len(ctx.text))
      BY <2>1, <2>3 DEF range_GetText
    <2> QED BY <2>2, <2>4, SubSeqFull
  <1> QED BY <1>1, AlwaysIInv, PTL

\* The store's selection lies in its text unless a dump of a full buffer has lost its length.
THEOREM SelectionStaysInStore == Spec => []SelectionInStore
  <1>1. IInv => SelectionInStore
    BY DEF IInv
  <1> QED BY <1>1, AlwaysIInv, PTL

\* Lengths, range and selection stay in order in every state.
THEOREM BuffersStayConsistent == Spec => []Consistent
  <1>1. TypeOK /\ SelectionInStore => Consistent
    BY DEF Consistent
  <1> QED BY <1>1, TypeCorrect, SelectionStaysInStore, PTL

\* A text the TIP writes into a range it did not move becomes the whole composition.
THEOREM TipTextReplacesAll == Spec => TipTextWins
  <1>1. ASSUME IInv, NEW t \in TipTexts, range_SetText(t), ~hist.moved
        PROVE  ctx'.text = t
    <2>1. ctx.start = 0 /\ Len(ctx.text) <= ctx.end
      BY <1>1 DEF IInv, RangeCovers, Covers
    <2>2. /\ ctx \in Contexts /\ ctx.text \in Seq(Chars) /\ Len(ctx.text) \in Nat
          /\ ctx.end \in Nat /\ t \in Seq(Chars)
      BY <1>1, TipTextIsText, LenProperties DEF IInv, Typing, ContextOK, Contexts
    <2>3. WriteEnd = Len(ctx.text)
      BY <2>1, <2>2 DEF WriteEnd, Least, Most
    <2>4. SubSeq(ctx.text, WriteEnd + 1, Len(ctx.text)) = <<>>
      BY <2>2, <2>3, SubSeqEmpty
    <2>5. UpToStart = <<>>
      <3>1. UpToStart \in Seq(Chars) /\ Len(UpToStart) = 0
        BY <2>1 DEF UpToStart
      <3> QED BY <3>1, EmptySeq
    <2>6. UpToStart \o t \o SubSeq(ctx.text, WriteEnd + 1, Len(ctx.text)) = t
      BY <2>2, <2>4, <2>5, ConcatEmptySeq
    <2>7. ctx' = sync([ctx EXCEPT !.text = t])
      BY <1>1, <2>6 DEF range_SetText
    <2> QED BY <2>2, <2>7 DEF sync, Contexts
  <1>2. IInv => \A t \in TipTexts : (range_SetText(t) /\ ~hist.moved) => ctx'.text = t
    BY <1>1
  <1> QED BY <1>2, AlwaysIInv, PTL DEF TipTextWins

-----------------------------------------------------------------------------
\* While the TIP is not done with a composition that is in the store, the composition is not
\* active: no key comes between.
DeliveredIsOver ==
    hist.delivered => tip = "idle" \/ (tip = "finishing" /\ ~ctx.active)

\* A composition reaches the store once, however often the TIP ends it.
THEOREM CommittedOnce == Spec => CommitOnce
  <1>1. Init => DeliveredIsOver
    BY DEF Init, DeliveredIsOver
  <1>2. ASSUME IInv, DeliveredIsOver, [Next]_vars
        PROVE  DeliveredIsOver'
    <2>1. ctx \in Contexts /\ hist \in Hists /\ tip \in {"idle", "composing", "finishing"}
      BY <1>2 DEF IInv, Typing, ContextOK
    <2>2. CASE UNCHANGED vars
      BY <1>2, <2>2 DEF vars, DeliveredIsOver
    <2>3. CASE KeyLetter \/ KeyBack \/ KeyReturn \/ KeyConvert \/ KeyOther
      <3>1. hist'.delivered = hist.delivered /\ NextKey
        BY <2>1, <2>3
           DEF KeyLetter, KeyBack, KeyReturn, KeyConvert, KeyOther, Hists, Synced
      <3> QED BY <1>2, <2>1, <3>1 DEF DeliveredIsOver, NextKey
    <2>4. CASE WmChar
      <3>1. ctx'.active = ctx.active
        BY <2>1, <2>4 DEF WmChar, appendText, sync, Contexts
      <3>2. hist'.delivered = hist.delivered /\ tip' = tip
        BY <2>1, <2>4 DEF WmChar, Hists
      <3> QED BY <1>2, <3>1, <3>2 DEF DeliveredIsOver
    <2>5. CASE Reset \/ StartComposition \/ TakeOwnership
      <3>1. ~hist'.delivered
        BY <2>1, <2>5
           DEF Reset, StartComposition, TakeOwnership, NewComposition, Hists, Synced
      <3> QED BY <3>1 DEF DeliveredIsOver
    <2>6. CASE Dump \/ Select \/ range_Shift \/ range_Collapse
      <3>1. hist'.delivered = hist.delivered /\ tip' = tip /\ ctx'.active = ctx.active
        BY <2>1, <2>6 DEF Dump, Select, range_Shift, range_Collapse, Hists, Contexts
      <3> QED BY <1>2, <3>1 DEF DeliveredIsOver
    <2>7. CASE EndComposition
      <3>1. tip' = "finishing" /\ ~ctx'.active
        BY <2>1, <2>7 DEF EndComposition, endComposition, Contexts
      <3> QED BY <3>1 DEF DeliveredIsOver
    <2>8. ASSUME NEW t \in TipTexts, range_SetText(t) PROVE DeliveredIsOver'
      <3>1. hist'.delivered = hist.delivered /\ tip' = tip /\ ctx'.active = ctx.active
        BY <2>1, <2>8 DEF range_SetText, sync, Synced, Hists, Contexts
      <3> QED BY <1>2, <3>1 DEF DeliveredIsOver
    <2>9. ASSUME NEW t \in TipTexts, InsertTextQuery(t) PROVE DeliveredIsOver'
      <3>1. hist'.delivered = hist.delivered /\ tip' = tip /\ ctx'.active = ctx.active
        BY <2>1, <2>9 DEF InsertTextQuery, Hists, Contexts
      <3> QED BY <1>2, <3>1 DEF DeliveredIsOver
    <2>10. ASSUME NEW t \in TipTexts, InsertText(t) PROVE DeliveredIsOver'
      <3>1. ~ctx'.active
        BY <2>1, <2>10 DEF InsertText, inserted, replaceText, sync, Contexts
      <3>2. tip' = IF tip = "composing" THEN "finishing" ELSE tip
        BY <2>10 DEF InsertText
      <3> QED BY <2>1, <3>1, <3>2 DEF DeliveredIsOver
    <2>11. ASSUME NEW t \in TipTexts, range_SetTextRefused(t) \/ InsertTextRefused(t)
           PROVE  DeliveredIsOver'
      BY <2>2, <2>11 DEF range_SetTextRefused, InsertTextRefused
    <2> QED BY <1>2, <2>2, <2>3, <2>4, <2>5, <2>6, <2>7, <2>8, <2>9, <2>10, <2>11
            DEF Next, Host, Tip
  <1>3. ASSUME IInv, DeliveredIsOver, EndComposition, store'.text # store.text
        PROVE  ~hist.delivered
    <2>1. ctx.active
      BY <1>3 DEF EndComposition, endComposition
    <2> QED BY <1>3, <2>1 DEF DeliveredIsOver, EndComposition
  <1>4. IInv /\ DeliveredIsOver
          => ((EndComposition /\ store'.text # store.text) => ~hist.delivered)
    BY <1>3
  <1>5. IInv /\ DeliveredIsOver /\ [Next]_vars => DeliveredIsOver'
    BY <1>2
  <1> QED BY <1>1, <1>4, <1>5, AlwaysIInv, PTL DEF Spec, CommitOnce

-----------------------------------------------------------------------------
(***************************************************************************)
(* ShimObjects: the state.                                                 *)
(***************************************************************************)
TipSinks == Sinks \cup {HostSink}
SinkEntries == [sink : TipSinks, iid : {"event", "other", "edit", "owner", "item"}, cookie : Nat \ {0}]
Registrations == [table : Tables, cookie : Nat \ {0}, sink : TipSinks]

HostKinds ==
    /\ host \in Steps /\ loaded \in {"none", "profile", "host", "gone"}
    /\ focus \in BOOLEAN /\ told \in BOOLEAN
    /\ made \in SUBSET Wrappers
    /\ active \in SUBSET {"tm", "ctx"} /\ wild \in SUBSET Counted
    /\ calls \in 0..MaxCalls

CountKinds ==
    /\ refs \in [Counted -> Nat] /\ held \in [Wrappers -> Nat]
    /\ \A o \in Wrappers : held[o] <= calls

RegistryKinds ==
    /\ table \in [Tables -> Seq(SinkEntries)] /\ \A t \in Tables : Len(table[t]) <= SinkMax
    /\ first \in [Sources -> [sink : TipSinks \cup {None}, cookie : Nat]]
    /\ next \in [Tables -> Nat \ {0}]
    /\ slot \in [Slotted -> Sinks \cup {None}] /\ g_key_sink \in Sinks \cup {None}
    /\ items \in Seq(Items) /\ Len(items) <= 1
    /\ given \in SUBSET Registrations

ObjectKinds == HostKinds /\ CountKinds /\ RegistryKinds

\* What there is at each step of main.
Stages ==
    /\ At[host] < 2 => made = {}
    /\ "tm" \in made <=> At[host] >= 2
    /\ "doc" \in made <=> At[host] >= 4
    /\ \A o \in {"ctx", "range", "view", "composition"} : o \in made <=> At[host] >= 5
    /\ "ctxsrc" \in made <=> At[host] >= 6
    /\ At[host] >= 9 => "km" \in made
    /\ focus => At[host] >= 7
    /\ At[host] >= 8 => focus
    /\ \A o \in Wrappers : held[o] > 0 => o \in made
    /\ \A o \in {"doc", "ctx", "ctxsrc", "view", "composition", "range"} : held[o] > 0 => At[host] >= 7

\* What has not been made has nothing in its fields.
Unmade ==
    /\ \A o \in Slotted \ made : slot[o] = None
    /\ \A t \in Sources \ made : table[t] = <<>> /\ first[t].sink = None

HostAdvised == [table |-> "ctxsrc", cookie |-> 1, sink |-> HostSink]

\* A cookie stands for one registration.
CookiesExact ==
    /\ \A g \in given : g.cookie < next[g.table]
    /\ \A t \in Tables : \A i, j \in DOMAIN table[t] : table[t][i].cookie = table[t][j].cookie => i = j
    /\ \A t \in Tables : \A i \in DOMAIN table[t] :
           [table |-> t, cookie |-> table[t][i].cookie, sink |-> table[t][i].sink] \in given
    /\ \A g \in given : \E i \in DOMAIN table[g.table] :
           table[g.table][i].cookie = g.cookie /\ table[g.table][i].sink = g.sink
    /\ \A t \in Sources : first[t].sink # None =>
           [table |-> t, cookie |-> first[t].cookie, sink |-> first[t].sink] \in given

\* The host's is the first of the context.
HostsCookie ==
    /\ HostAdvised \in given <=> At[host] \in 6..11
    /\ \A g \in given : g.sink = HostSink => g = HostAdvised
    /\ At[host] < 6 => next["ctxsrc"] = 1

Cookies == CookiesExact /\ HostsCookie

\* A field of q for p that is in use and counted.
Field(q, p) == IF p \in made /\ refs[q] > 0 THEN 1 ELSE 0

Listings(q, p) == Cardinality({i \in DOMAIN q : q[i].sink = p})

\* The references to a sink in the fields of live wrappers.
FieldsTo(rf, sl, fs, tb, p) ==
    LET single(o) == IF rf[o] > 0 /\ sl[o] = p THEN 1 ELSE 0
        source(t) == IF rf[t] > 0 THEN Listings(tb[t], p) + (IF fs[t].sink = p THEN 1 ELSE 0) ELSE 0
    IN single("tm") + single("single") + single("km") + single("composition") + single("compartment")
         + source("tmsrc") + source("ctxsrc")

GlobalsTo(g, tb, it, p) ==
    (IF g = p THEN 1 ELSE 0) + Listings(tb["bar"], p) + (IF it # <<>> /\ it[1] = p THEN 1 ELSE 0)

\* What main has at step n.
MainHas(n, p) ==
    IF \/ p = "tm" /\ n \in 2..14
       \/ p = "doc" /\ n \in 4..13
       \/ p = "ctx" /\ n \in 5..12
       \/ p = "km" /\ n = 9
    THEN 1 ELSE 0

WrappersExact ==
    /\ refs["ex"] = held["ex"] /\ refs["compartment"] = held["compartment"]
    /\ refs["tm"] = MainHas(At[host], "tm") + held["tm"] + Field("ex", "tm")
    /\ host # "done" => refs["doc"] = MainHas(At[host], "doc") + held["doc"]
    /\ refs["ctx"] = MainHas(At[host], "ctx") + held["ctx"]
    /\ refs["km"] = MainHas(At[host], "km") + held["km"] + Field("tm", "km")
    /\ \A p \in {"tmsrc", "single", "provider"} : refs[p] = held[p] + Field("tm", p)
    /\ \A p \in {"ctxsrc", "view", "composition"} : refs[p] = held[p] + Field("ctx", p)
    /\ refs["range"] = held["range"] + Field("ctx", "range") + Field("view", "range") + Field("composition", "range")

LeavesExact ==
    \A p \in Leaves : refs[p] = GlobalsTo(g_key_sink, table, items, p) + FieldsTo(refs, slot, first, table, p)

Untouched ==
    /\ host = "done" => refs["doc"] <= held["doc"]
    /\ wild \subseteq IF host = "done" THEN {"doc"} ELSE {}
    /\ "tm" \in active => At[host] \in 3..14
    /\ "ctx" \in active => refs["ctx"] > 0

Heard == At[host] >= 8 /\ EventSinks # {} => told

ObjectsInv ==
    ObjectKinds /\ Stages /\ Unmade /\ Cookies /\ WrappersExact /\ LeavesExact /\ Untouched /\ Heard
-----------------------------------------------------------------------------
LEMMA StageIs ==
    /\ Steps = {"start", "created", "activated", "document", "context", "advised", "associated", "focused", "up",
                "unkeyed", "tipless", "unadvised", "nocontext", "nodocument", "done"}
    /\ At["start"] = 1 /\ At["created"] = 2 /\ At["activated"] = 3 /\ At["document"] = 4 /\ At["context"] = 5
    /\ At["advised"] = 6 /\ At["associated"] = 7 /\ At["focused"] = 8 /\ At["up"] = 9 /\ At["unkeyed"] = 10
    /\ At["tipless"] = 11 /\ At["unadvised"] = 12 /\ At["nocontext"] = 13 /\ At["nodocument"] = 14 /\ At["done"] = 15
  BY DEF At, Steps

LEMMA StageNumbers == \A s \in Steps : At[s] \in 1..15 /\ (At[s] = 15 <=> s = "done") /\ (At[s] = 9 <=> s = "up")
  BY StageIs

\* The wrappers and the leaves are different objects.
LEMMA ApartFromLeaves ==
    /\ \A p \in Leaves : p \notin Wrappers /\ p \in Counted
    /\ \A o \in Wrappers : o \in Counted /\ o # None
    /\ None \notin Leaves
  BY LeavesAreOthers, ShimConstants DEF Counted, Leaves

LEMMA ListingsType ==
    ASSUME NEW q \in Seq(SinkEntries), NEW p
    PROVE  /\ Listings(q, p) \in Nat
           /\ IsFiniteSet({i \in DOMAIN q : q[i].sink = p})
           /\ \A i \in DOMAIN q : q[i].sink = p => Listings(q, p) > 0
  <1> DEFINE S == {i \in DOMAIN q : q[i].sink = p}
  <1>1. Len(q) \in Nat /\ DOMAIN q = 1..Len(q)
    OBVIOUS
  <1>2. IsFiniteSet(1..Len(q)) /\ S \in SUBSET (1..Len(q))
    BY <1>1, FS_Interval
  <1>3. IsFiniteSet(S)
    BY <1>2, FS_Subset
  <1>4. Cardinality(S) \in Nat /\ (Cardinality(S) = 0 <=> S = {})
    BY <1>3, FS_CardinalityType, FS_EmptySet
  <1>5. Listings(q, p) = Cardinality(S)
    BY DEF Listings
  <1>6. ASSUME NEW i \in DOMAIN q, q[i].sink = p PROVE S # {}
    BY <1>6
  <1> HIDE DEF S
  <1>7. \A i \in DOMAIN q : q[i].sink = p => Listings(q, p) > 0
    BY <1>4, <1>5, <1>6
  <1>8. Listings(q, p) \in Nat
    BY <1>4, <1>5
  <1> QED
    BY <1>3, <1>7, <1>8 DEF S

LEMMA ListingsEmpty == \A p : Listings(<<>>, p) = 0
  <1> TAKE p
  <1>1. {i \in DOMAIN <<>> : <<>>[i].sink = p} = {}
    OBVIOUS
  <1> QED
    BY <1>1, FS_EmptySet DEF Listings

LEMMA ListingsAppend ==
    ASSUME NEW q \in Seq(SinkEntries), NEW e \in SinkEntries, NEW p
    PROVE  Listings(Append(q, e), p) = Listings(q, p) + IF e.sink = p THEN 1 ELSE 0
  <1> DEFINE r == Append(q, e)
             n == Len(q)
             S == {i \in DOMAIN q : q[i].sink = p}
             T == {i \in DOMAIN r : r[i].sink = p}
  <1>1. n \in Nat /\ DOMAIN q = 1..n /\ DOMAIN r = 1..(n + 1) /\ r[n + 1] = e /\ \A i \in 1..n : r[i] = q[i]
    BY AppendProperties
  <1> HIDE DEF r, n
  <1>0. IsFiniteSet(S)
    BY ListingsType
  <1>2. IsFiniteSet(S) /\ n + 1 \notin S /\ Cardinality(S) \in Nat
    <2>1. Cardinality(S) \in Nat
      BY <1>0, FS_CardinalityType
    <2> QED
      BY <1>0, <1>1, <2>1
  <1>a. Listings(q, p) = Cardinality(S) /\ Listings(r, p) = Cardinality(T)
    BY DEF Listings
  <1>3. CASE e.sink = p
    <2>1. T = S \cup {n + 1}
      BY <1>1, <1>3
    <2> HIDE DEF S, T
    <2>2. Cardinality(T) = Cardinality(S) + 1
      BY <2>1, <1>2, FS_AddElement
    <2> QED
      BY <2>2, <1>3, <1>a DEF r
  <1>4. CASE e.sink # p
    <2>1. T = S
      BY <1>1, <1>4
    <2> HIDE DEF S, T
    <2> QED
      BY <2>1, <1>2, <1>4, <1>a DEF r
  <1> QED
    BY <1>3, <1>4

LEMMA RemoveIs ==
    ASSUME NEW S, NEW q \in Seq(S), NEW i \in DOMAIN q
    PROVE  /\ RemoveAt(q, i) \in Seq(S) /\ Len(q) \in Nat /\ i \in 1..Len(q)
           /\ Len(RemoveAt(q, i)) = Len(q) - 1
           /\ \A j \in 1..(Len(q) - 1) : RemoveAt(q, i)[j] = IF j < i THEN q[j] ELSE q[j + 1]
  <1> DEFINE n == Len(q)
             a == SubSeq(q, 1, i - 1)
             b == SubSeq(q, i + 1, n)
             r == RemoveAt(q, i)
  <1>1. n \in Nat /\ i \in 1..n /\ \A j \in 1..n : q[j] \in S
    OBVIOUS
  <1>2. a \in Seq(S) /\ Len(a) = i - 1 /\ \A j \in 1..(i - 1) : a[j] = q[j]
    <2>1. PICK k \in Int : k = i - 1
      BY <1>1
    <2>2. \A j \in 1..k : q[j] \in S
      BY <1>1, <2>1
    <2>3. /\ SubSeq(q, 1, k) \in Seq(S) /\ Len(SubSeq(q, 1, k)) = IF 1 <= k THEN k - 1 + 1 ELSE 0
          /\ \A j \in 1..(k - 1 + 1) : SubSeq(q, 1, k)[j] = q[1 + j - 1]
      BY <2>1, <2>2, SubSeqProperties
    <2>4. \A j \in 1..k : 1 + j - 1 = j /\ j \in 1..(k - 1 + 1)
      BY <2>1
    <2>5. \A j \in 1..k : SubSeq(q, 1, k)[j] = q[j]
      BY <2>3, <2>4
    <2>6. k - 1 + 1 = k /\ (1 <= k \/ k = 0)
      BY <2>1, <1>1
    <2> QED
      BY <2>1, <2>3, <2>5, <2>6
  <1>3. b \in Seq(S) /\ Len(b) = n - i /\ \A j \in 1..(n - i) : b[j] = q[i + j]
    <2>1. PICK k \in Int : k = i + 1
      BY <1>1
    <2>2. \A j \in k..n : q[j] \in S
      BY <1>1, <2>1
    <2>3. /\ SubSeq(q, k, n) \in Seq(S) /\ Len(SubSeq(q, k, n)) = IF k <= n THEN n - k + 1 ELSE 0
          /\ \A j \in 1..(n - k + 1) : SubSeq(q, k, n)[j] = q[k + j - 1]
      BY <2>1, <2>2, <1>1, SubSeqProperties
    <2>4. n - k + 1 = n - i /\ (k <= n \/ n - i = 0) /\ \A j \in 1..(n - i) : k + j - 1 = i + j
      <3>0. i \in Int /\ n \in Int /\ i <= n
        BY <1>1
      <3>1. n - k + 1 = n - i
        BY <2>1, <3>0
      <3>2. k <= n \/ n - i = 0
        BY <2>1, <3>0
      <3>3. \A j \in 1..(n - i) : k + j - 1 = i + j
        BY <2>1, <3>0
      <3> QED
        BY <3>1, <3>2, <3>3
    <2>5. \A j \in 1..(n - i) : SubSeq(q, k, n)[j] = q[i + j]
      BY <2>3, <2>4
    <2> QED
      BY <2>1, <2>3, <2>4, <2>5
  <1> HIDE DEF a, b
  <1>4. r = a \o b
    BY DEF RemoveAt, a, b
  <1>5. r \in Seq(S) /\ Len(r) = Len(a) + Len(b)
        /\ \A j \in 1..(Len(a) + Len(b)) : r[j] = IF j <= Len(a) THEN a[j] ELSE b[j - Len(a)]
    BY <1>2, <1>3, <1>4, ConcatProperties
  <1>6. ASSUME NEW j \in 1..(n - 1) PROVE r[j] = IF j < i THEN q[j] ELSE q[j + 1]
    <2>1. j \in 1..(Len(a) + Len(b)) /\ (j <= Len(a) <=> j < i)
      BY <1>1, <1>2, <1>3
    <2>2. CASE j < i
      <3>1. j \in 1..(i - 1)
        BY <2>2, <1>1
      <3>2. r[j] = a[j]
        BY <2>1, <2>2, <1>5
      <3> QED
        BY <3>1, <3>2, <2>2, <1>2
    <2>3. CASE ~(j < i)
      <3>1. PICK k \in Nat : k = j - Len(a)
        BY <2>3, <1>1, <1>2
      <3>2. k \in 1..(n - i) /\ i + k = j + 1
        BY <3>1, <2>3, <1>1, <1>2
      <3>3. b[k] = q[i + k]
        BY <3>2, <1>3
      <3> QED
        BY <2>1, <2>3, <3>1, <3>2, <3>3, <1>5
    <2> QED
      BY <2>2, <2>3
  <1>7. Len(r) = n - 1
    BY <1>1, <1>2, <1>3, <1>5
  <1> QED
    BY <1>1, <1>5, <1>6, <1>7

LEMMA ListingsRemove ==
    ASSUME NEW q \in Seq(SinkEntries), NEW i \in DOMAIN q, NEW p
    PROVE  Listings(RemoveAt(q, i), p) = Listings(q, p) - IF q[i].sink = p THEN 1 ELSE 0
  <1> DEFINE r == RemoveAt(q, i)
             n == Len(q)
             S == {j \in DOMAIN q : q[j].sink = p}
             T == {j \in DOMAIN r : r[j].sink = p}
             U == S \ {i}
             f == [j \in T |-> IF j < i THEN j ELSE j + 1]
  <1>1. /\ n \in Nat /\ i \in 1..n /\ DOMAIN q = 1..n /\ r \in Seq(SinkEntries) /\ DOMAIN r = 1..(n - 1)
        /\ \A j \in 1..(n - 1) : r[j] = IF j < i THEN q[j] ELSE q[j + 1]
    <2>1. r \in Seq(SinkEntries) /\ Len(r) = n - 1 /\ n \in Nat /\ i \in 1..n
      BY RemoveIs
    <2>2. \A j \in 1..(n - 1) : r[j] = IF j < i THEN q[j] ELSE q[j + 1]
      BY RemoveIs
    <2> HIDE DEF r, n
    <2>3. DOMAIN r = 1..Len(r)
      BY <2>1
    <2>4. DOMAIN q = 1..n
      BY DEF n
    <2> QED
      BY <2>1, <2>2, <2>3, <2>4
  <1> HIDE DEF r, n
  <1>2. IsFiniteSet(S) /\ IsFiniteSet(T) /\ Cardinality(S) \in Nat
    <2>1. IsFiniteSet(S) /\ IsFiniteSet(T)
      BY <1>1, ListingsType
    <2> QED
      BY <2>1, FS_CardinalityType
  <1>3. IsFiniteSet(U) /\ Cardinality(U) = Cardinality(S) - IF q[i].sink = p THEN 1 ELSE 0
    <2>1. i \in S <=> q[i].sink = p
      BY <1>1
    <2> HIDE DEF S
    <2> QED
      BY <2>1, <1>2, FS_RemoveElement
  <1>4. f \in [T -> U]
    BY <1>1
  <1>5. \A j, k \in T : f[j] = f[k] => j = k
    BY <1>1
  <1>6. \A u \in U : \E j \in T : f[j] = u
    <2> TAKE u \in U
    <2>1. u \in 1..n /\ u # i /\ q[u].sink = p
      BY <1>1
    <2>2. CASE u < i
      <3>1. u \in T /\ f[u] = u
        BY <2>1, <2>2, <1>1
      <3> QED
        BY <3>1
    <2>3. CASE u > i
      <3>1. PICK j \in Int : j = u - 1
        BY <2>1
      <3>2. j \in 1..(n - 1) /\ ~(j < i) /\ j + 1 = u
        BY <2>1, <2>3, <3>1, <1>1
      <3>3. j \in T
        BY <3>2, <2>1, <1>1
      <3>4. f[j] = u
        BY <3>2, <3>3
      <3> QED
        BY <3>3, <3>4
    <2>4. u < i \/ u > i
      BY <2>1, <1>1
    <2> QED
      BY <2>2, <2>3, <2>4
  <1> HIDE DEF f, T, U
  <1>7. f \in Bijection(T, U)
    BY <1>4, <1>5, <1>6, Fun_IsBij
  <1>8. Cardinality(U) = Cardinality(T)
    BY <1>2, <1>7, FS_Bijection DEF ExistsBijection
  <1> QED
    BY <1>3, <1>8 DEF Listings, T, r

-----------------------------------------------------------------------------
(***************************************************************************)
(* ShimObjects: what a Release releases.                                   *)
(***************************************************************************)
LEMMA OwnsWrapper ==
    ASSUME NEW o \in Wrappers, NEW p \in Wrappers
    PROVE  Owns(o, p) = IF p \in made /\ o \in Parents[p] THEN 1 ELSE 0
  BY DEF Owns, Releases, One

LEMMA ParentsAre ==
    /\ Parents["ex"] = {} /\ Parents["ctx"] = {} /\ Parents["compartment"] = {}
    /\ Parents["tm"] = {"ex"}
    /\ \A p \in {"tmsrc", "single", "km", "provider", "doc"} : Parents[p] = {"tm"}
    /\ \A p \in {"ctxsrc", "view", "composition"} : Parents[p] = {"ctx"}
    /\ Parents["range"] = {"ctx", "view", "composition"}
  BY DEF Parents, Wrappers, Outer, Middle, Inner

LEMMA OwedWrapper ==
    ASSUME NEW S
    PROVE  /\ \A p \in Outer : Owed(S, p) = 0
           /\ Owed(S, "tm") = IF "ex" \in S /\ "tm" \in made THEN 1 ELSE 0
           /\ \A p \in {"tmsrc", "single", "km", "provider", "doc"} :
                  Owed(S, p) = IF "tm" \in S /\ p \in made THEN 1 ELSE 0
           /\ \A p \in {"ctxsrc", "view", "composition"} :
                  Owed(S, p) = IF "ctx" \in S /\ p \in made THEN 1 ELSE 0
           /\ Owed(S, "range") =
                  (IF "ctx" \in S /\ "range" \in made THEN 1 ELSE 0)
                    + (IF "view" \in S /\ "range" \in made THEN 1 ELSE 0)
                    + (IF "composition" \in S /\ "range" \in made THEN 1 ELSE 0)
  <1>1. \A o, p \in Wrappers : Owns(o, p) = IF p \in made /\ o \in Parents[p] THEN 1 ELSE 0
    BY OwnsWrapper
  <1>2. \A p \in Outer : Owed(S, p) = 0
    BY <1>1, ParentsAre DEF Owed, Wrappers, Outer, Middle, Inner
  <1>3. Owed(S, "tm") = IF "ex" \in S /\ "tm" \in made THEN 1 ELSE 0
    BY <1>1, ParentsAre DEF Owed, Wrappers, Outer, Middle, Inner
  <1>4. \A p \in {"tmsrc", "single", "km", "provider", "doc"} :
            Owed(S, p) = IF "tm" \in S /\ p \in made THEN 1 ELSE 0
    BY <1>1, ParentsAre DEF Owed, Wrappers, Outer, Middle, Inner
  <1>5. \A p \in {"ctxsrc", "view", "composition"} : Owed(S, p) = IF "ctx" \in S /\ p \in made THEN 1 ELSE 0
    BY <1>1, ParentsAre DEF Owed, Wrappers, Outer, Middle, Inner
  <1>6. Owed(S, "range") =
            (IF "ctx" \in S /\ "range" \in made THEN 1 ELSE 0)
              + (IF "view" \in S /\ "range" \in made THEN 1 ELSE 0)
              + (IF "composition" \in S /\ "range" \in made THEN 1 ELSE 0)
    BY <1>1, ParentsAre DEF Owed, Wrappers, Outer, Middle, Inner
  <1> QED
    BY <1>2, <1>3, <1>4, <1>5, <1>6

\* What the fields of the objects of S hold of a leaf.
FieldsIn(S, p) ==
    LET single(o) == IF o \in S /\ slot[o] = p THEN 1 ELSE 0
        source(t) == IF t \in S THEN Listings(table[t], p) + (IF first[t].sink = p THEN 1 ELSE 0) ELSE 0
    IN single("tm") + single("single") + single("km") + single("composition") + single("compartment")
         + source("tmsrc") + source("ctxsrc")

LEMMA ListedType ==
    ASSUME ObjectKinds, NEW t \in Tables, NEW p
    PROVE  Listings(table[t], p) \in Nat /\ Listed(t, p) = Listings(table[t], p)
  <1>1. table[t] \in Seq(SinkEntries)
    BY DEF ObjectKinds, HostKinds, CountKinds, RegistryKinds
  <1> QED
    BY <1>1, ListingsType DEF Listed, Listings

LEMMA OwedLeaf ==
    ASSUME ObjectKinds, NEW S, NEW p \in Leaves
    PROVE  Owed(S, p) = FieldsIn(S, p) /\ FieldsIn(S, p) \in Nat
  <1>1. p \notin Wrappers
    BY ApartFromLeaves
  <1>2. \A t \in Sources : Listed(t, p) = Listings(table[t], p) /\ Listings(table[t], p) \in Nat
    BY ListedType DEF Tables
  <1>3. \A o \in {"ex", "ctx", "view"} : Owns(o, p) = 0
    BY <1>1 DEF Owns, One, Slotted, Sources
  <1>4. \A o \in Slotted : Owns(o, p) = IF slot[o] = p THEN 1 ELSE 0
    BY <1>1 DEF Owns, One, Slotted, Sources
  <1>5. \A t \in Sources : Owns(t, p) = Listings(table[t], p) + (IF first[t].sink = p THEN 1 ELSE 0)
    BY <1>1, <1>2 DEF Owns, One, Slotted, Sources
  <1>6. FieldsIn(S, p) \in Nat
    BY <1>2 DEF FieldsIn, Sources
  <1>7. Owed(S, p) = FieldsIn(S, p)
    BY <1>2, <1>3, <1>4, <1>5 DEF Owed, FieldsIn, Slotted, Sources
  <1> QED
    BY <1>6, <1>7

\* Those that die are those whose count reaches zero.
LEMMA ReleaseIs ==
    ASSUME ObjectKinds, NEW o \in Wrappers
    PROVE  \E all \in SUBSET Wrappers :
               /\ Release(o).refs = [p \in Counted |-> IF Due(o, all, p) > refs[p] THEN 0 ELSE refs[p] - Due(o, all, p)]
               /\ Release(o).wild = wild \cup {p \in Counted : Due(o, all, p) > refs[p]}
               /\ \A p \in Wrappers : p \in all <=> refs[p] > 0 /\ Due(o, all, p) >= refs[p]
  <1> DEFINE outer  == Dying(o, {}, Outer)
             middle == outer \cup Dying(o, outer, Middle)
             all    == middle \cup Dying(o, middle, Inner)
  <1>1. all \in SUBSET Wrappers /\ outer \subseteq Outer /\ middle \subseteq Outer \cup Middle
    BY DEF Dying, Wrappers
  <1>2. /\ Release(o).refs = [p \in Counted |-> IF Due(o, all, p) > refs[p] THEN 0 ELSE refs[p] - Due(o, all, p)]
        /\ Release(o).wild = wild \cup {p \in Counted : Due(o, all, p) > refs[p]}
    BY DEF Release
  <1>3. \A p \in Outer : p \in all <=> p \in outer
    BY DEF Dying, Outer, Middle, Inner
  <1>4. \A p \in Middle : p \in all <=> p \in Dying(o, outer, Middle)
    BY DEF Dying, Outer, Middle, Inner
  <1>5. \A p \in Middle : p \in all <=> p \in middle
    BY DEF Dying, Outer, Middle, Inner
  <1>6. \A p \in Inner : p \in all <=> p \in Dying(o, middle, Inner)
    BY DEF Dying, Outer, Middle, Inner
  <1>7. \A p \in Outer : p \in middle <=> p \in outer
    BY DEF Dying, Outer, Middle, Inner
  <1>8. \A p \in Outer : Due(o, {}, p) = Due(o, all, p)
    BY OwedWrapper DEF Due
  <1> HIDE DEF outer, middle, all
  <1>9. \A p \in Middle : Due(o, outer, p) = Due(o, all, p)
    BY <1>3, OwedWrapper DEF Due, Middle, Outer
  <1>10. \A p \in Inner : Due(o, middle, p) = Due(o, all, p)
    BY <1>3, <1>5, <1>7, OwedWrapper DEF Due, Middle, Outer, Inner
  <1>11. \A p \in Wrappers : p \in all <=> refs[p] > 0 /\ Due(o, all, p) >= refs[p]
    <2>1. \A p \in Outer : p \in all <=> refs[p] > 0 /\ Due(o, all, p) >= refs[p]
      BY <1>3, <1>8 DEF outer, Dying
    <2>2. \A p \in Middle : p \in all <=> refs[p] > 0 /\ Due(o, all, p) >= refs[p]
      BY <1>4, <1>9 DEF Dying
    <2>3. \A p \in Inner : p \in all <=> refs[p] > 0 /\ Due(o, all, p) >= refs[p]
      BY <1>6, <1>10 DEF Dying
    <2> QED
      BY <2>1, <2>2, <2>3 DEF Wrappers
  <1> QED
    BY <1>1, <1>2, <1>11

\* A Release by somebody who has a reference leaves every count exact, and touches nothing that
\* is free but the document, and that only when the thread manager dies.
LEMMA ReleaseKeeps ==
    ASSUME ObjectKinds, WrappersExact, LeavesExact, host # "done",
           NEW o \in Wrappers, held[o] + MainHas(At[host], o) > 0,
           NEW rf, rf = Release(o).refs
    PROVE  LET left(q, p) == IF p \in made /\ rf[q] > 0 THEN 1 ELSE 0 IN
           /\ rf \in [Counted -> Nat]
           /\ \A p \in Wrappers : rf[p] <= refs[p]
           /\ \A p \in {"ex", "compartment", "ctx"} : rf[p] = refs[p] - One(p = o)
           /\ rf["tm"] = refs["tm"] - One("tm" = o) - Field("ex", "tm") + left("ex", "tm")
           /\ \A p \in {"tmsrc", "single", "km", "provider"} :
                  rf[p] = refs[p] - One(p = o) - Field("tm", p) + left("tm", p)
           /\ \A p \in {"ctxsrc", "view", "composition"} :
                  rf[p] = refs[p] - One(p = o) - Field("ctx", p) + left("ctx", p)
           /\ rf["range"] = refs["range"] - One("range" = o)
                  - Field("ctx", "range") - Field("view", "range") - Field("composition", "range")
                  + left("ctx", "range") + left("view", "range") + left("composition", "range")
           /\ rf["tm"] > 0 \/ refs["tm"] = 0 => rf["doc"] = refs["doc"] - One("doc" = o)
           /\ \A p \in Leaves :
                  rf[p] = refs[p] - FieldsTo(refs, slot, first, table, p) + FieldsTo(rf, slot, first, table, p)
           /\ Release(o).wild \subseteq wild \cup {"doc"}
           /\ rf["tm"] > 0 \/ refs["tm"] = 0 => Release(o).wild = wild
  <1> DEFINE left(q, p) == IF p \in made /\ rf[q] > 0 THEN 1 ELSE 0
  <1>1. PICK all \in SUBSET Wrappers :
            /\ rf = [p \in Counted |-> IF Due(o, all, p) > refs[p] THEN 0 ELSE refs[p] - Due(o, all, p)]
            /\ Release(o).wild = wild \cup {p \in Counted : Due(o, all, p) > refs[p]}
            /\ \A p \in Wrappers : p \in all <=> refs[p] > 0 /\ Due(o, all, p) >= refs[p]
    BY ReleaseIs
  <1>2. \A p \in Counted : refs[p] \in Nat
    BY DEF ObjectKinds, HostKinds, CountKinds, RegistryKinds
  <1>3. \A p \in Wrappers : held[p] \in Nat /\ MainHas(At[host], p) \in {0, 1}
    BY DEF ObjectKinds, HostKinds, CountKinds, RegistryKinds, MainHas
  <1>4. /\ \A p \in Outer : Owed(all, p) = 0
        /\ Owed(all, "tm") = IF "ex" \in all /\ "tm" \in made THEN 1 ELSE 0
        /\ \A p \in {"tmsrc", "single", "km", "provider", "doc"} :
               Owed(all, p) = IF "tm" \in all /\ p \in made THEN 1 ELSE 0
        /\ \A p \in {"ctxsrc", "view", "composition"} :
               Owed(all, p) = IF "ctx" \in all /\ p \in made THEN 1 ELSE 0
        /\ Owed(all, "range") =
               (IF "ctx" \in all /\ "range" \in made THEN 1 ELSE 0)
                 + (IF "view" \in all /\ "range" \in made THEN 1 ELSE 0)
                 + (IF "composition" \in all /\ "range" \in made THEN 1 ELSE 0)
    BY OwedWrapper
  <1>5. \A p \in Wrappers : Owed(all, p) \in Nat
    BY <1>4 DEF Wrappers, Outer, Middle, Inner
  <1>6. \A p \in Leaves : Owed(all, p) = FieldsIn(all, p) /\ FieldsIn(all, p) \in Nat
    BY OwedLeaf
  <1>7. \A p \in Wrappers : p # o => Due(o, all, p) = Owed(all, p)
    BY <1>5 DEF Due, One
  <1>8. Due(o, all, o) = 1 + Owed(all, o)
    BY <1>5 DEF Due, One
  <1>9. \A p \in Leaves : Due(o, all, p) = FieldsIn(all, p)
    BY <1>6, ApartFromLeaves DEF Due, One
  <1>10. \A p \in all : refs[p] > 0
    BY <1>1
  <1>11. \A p \in Wrappers : p # "doc" => Due(o, all, p) <= refs[p]
    <2> SUFFICES ASSUME NEW p \in Wrappers, p # "doc" PROVE Due(o, all, p) <= refs[p]
      OBVIOUS
    <2>1. Owed(all, p) <= refs[p] - held[p] - MainHas(At[host], p)
      <3>1. CASE p \in {"ex", "compartment", "ctx"}
        BY <3>1, <1>2, <1>3, <1>4 DEF WrappersExact, Wrappers, Outer, Middle, Inner, Counted, MainHas
      <3>2. CASE p = "tm"
        BY <3>2, <1>2, <1>3, <1>4, <1>10 DEF WrappersExact, Wrappers, Outer, Middle, Inner, Counted, Field
      <3>3. CASE p \in {"tmsrc", "single", "provider"}
        <4>1. refs[p] = held[p] + Field("tm", p) /\ MainHas(At[host], p) = 0
          BY <3>3 DEF WrappersExact, MainHas
        <4>2. Owed(all, p) = (IF "tm" \in all /\ p \in made THEN 1 ELSE 0) /\ held[p] \in Nat
          BY <3>3, <1>3, <1>4
        <4>3. Field("tm", p) = IF p \in made /\ refs["tm"] > 0 THEN 1 ELSE 0
          BY DEF Field
        <4> QED
          BY <4>1, <4>2, <4>3, <1>10
      <3>4. CASE p = "km"
        BY <3>4, <1>2, <1>3, <1>4, <1>10 DEF WrappersExact, Wrappers, Outer, Middle, Inner, Counted, Field
      <3>5. CASE p \in {"ctxsrc", "view", "composition"}
        BY <3>5, <1>2, <1>3, <1>4, <1>10 DEF WrappersExact, Wrappers, Outer, Middle, Inner, Counted, Field, MainHas
      <3>6. CASE p = "range"
        BY <3>6, <1>2, <1>3, <1>4, <1>10 DEF WrappersExact, Wrappers, Outer, Middle, Inner, Counted, Field, MainHas
      <3> QED
        BY <3>1, <3>2, <3>3, <3>4, <3>5, <3>6 DEF Wrappers, Outer, Middle, Inner
    <2>2. refs[p] \in Nat /\ held[p] \in Nat /\ MainHas(At[host], p) \in {0, 1} /\ Owed(all, p) \in Nat
      BY <1>2, <1>3, <1>5, ApartFromLeaves
    <2>3. CASE p = o
      BY <2>1, <2>2, <2>3, <1>8
    <2>4. CASE p # o
      BY <2>1, <2>2, <2>4, <1>7
    <2> QED
      BY <2>3, <2>4
  <1>12. \A p \in Wrappers : p # "doc" => rf[p] = refs[p] - Due(o, all, p) /\ rf[p] \in Nat /\ rf[p] <= refs[p]
    <2> SUFFICES ASSUME NEW p \in Wrappers, p # "doc"
                 PROVE  rf[p] = refs[p] - Due(o, all, p) /\ rf[p] \in Nat /\ rf[p] <= refs[p]
      OBVIOUS
    <2>1. p \in Counted /\ refs[p] \in Nat /\ Due(o, all, p) \in Nat /\ Due(o, all, p) <= refs[p]
      BY <1>2, <1>5, <1>7, <1>8, <1>11, ApartFromLeaves
    <2>2. rf[p] = refs[p] - Due(o, all, p)
      BY <2>1, <1>1
    <2> QED
      BY <2>1, <2>2
  <1>13. \A p \in Wrappers : p # "doc" => (p \in all <=> refs[p] > 0 /\ rf[p] = 0)
    <2> SUFFICES ASSUME NEW p \in Wrappers, p # "doc" PROVE p \in all <=> refs[p] > 0 /\ rf[p] = 0
      OBVIOUS
    <2>1. p \in Counted /\ refs[p] \in Nat /\ Due(o, all, p) \in Nat /\ Due(o, all, p) <= refs[p]
      BY <1>2, <1>5, <1>7, <1>8, <1>11, ApartFromLeaves
    <2> QED
      BY <2>1, <1>1, <1>12
  <1>14. \A p \in Wrappers : One(p = o) = IF p = o THEN 1 ELSE 0
    BY DEF One
  <1>15. \A p \in Wrappers : p # "doc" => rf[p] = refs[p] - One(p = o) - Owed(all, p)
    <2> SUFFICES ASSUME NEW p \in Wrappers, p # "doc" PROVE rf[p] = refs[p] - One(p = o) - Owed(all, p)
      OBVIOUS
    <2>1. refs[p] \in Nat /\ Owed(all, p) \in Nat
      BY <1>2, <1>5, ApartFromLeaves
    <2>2. rf[p] = refs[p] - Due(o, all, p)
      BY <1>12
    <2> QED
      BY <2>1, <2>2, <1>7, <1>8, <1>14
  <1>16. \A q \in {"ex", "tm", "ctx", "view", "composition"} :
             /\ q \in Wrappers /\ q # "doc" /\ refs[q] \in Nat /\ rf[q] \in Nat /\ rf[q] <= refs[q]
             /\ q \in all <=> refs[q] > 0 /\ rf[q] = 0
    BY <1>2, <1>12, <1>13, ApartFromLeaves DEF Wrappers, Outer, Middle, Inner
  <1>17. \A q \in {"ex", "tm", "ctx", "view", "composition"} : \A p :
             (IF q \in all /\ p \in made THEN 1 ELSE 0) = Field(q, p) - left(q, p)
    BY <1>16 DEF Field
  <1>18. \A p \in Wrappers : refs[p] \in Nat /\ One(p = o) \in {0, 1}
    BY <1>2, <1>14, ApartFromLeaves
  <1>19. \A q, p : Field(q, p) \in {0, 1} /\ left(q, p) \in {0, 1}
    BY DEF Field
  <1> HIDE DEF left
  <1>20. \A p \in {"ex", "compartment", "ctx"} : rf[p] = refs[p] - One(p = o)
    BY <1>4, <1>15, <1>18 DEF Wrappers, Outer, Middle, Inner
  <1>21. rf["tm"] = refs["tm"] - One("tm" = o) - Field("ex", "tm") + left("ex", "tm")
    <2>1. Owed(all, "tm") = Field("ex", "tm") - left("ex", "tm")
      BY <1>4, <1>17
    <2>2. "tm" \in Wrappers /\ "tm" # "doc"
      BY DEF Wrappers, Middle
    <2> QED
      BY <2>1, <2>2, <1>15, <1>18, <1>19
  <1>22. \A p \in {"tmsrc", "single", "km", "provider"} :
             rf[p] = refs[p] - One(p = o) - Field("tm", p) + left("tm", p)
    <2> SUFFICES ASSUME NEW p \in {"tmsrc", "single", "km", "provider"}
                 PROVE  rf[p] = refs[p] - One(p = o) - Field("tm", p) + left("tm", p)
      OBVIOUS
    <2>1. Owed(all, p) = Field("tm", p) - left("tm", p)
      BY <1>4, <1>17
    <2>2. p \in Wrappers /\ p # "doc"
      BY DEF Wrappers, Inner
    <2> QED
      BY <2>1, <2>2, <1>15, <1>18, <1>19
  <1>23. \A p \in {"ctxsrc", "view", "composition"} :
             rf[p] = refs[p] - One(p = o) - Field("ctx", p) + left("ctx", p)
    <2> SUFFICES ASSUME NEW p \in {"ctxsrc", "view", "composition"}
                 PROVE  rf[p] = refs[p] - One(p = o) - Field("ctx", p) + left("ctx", p)
      OBVIOUS
    <2>1. Owed(all, p) = Field("ctx", p) - left("ctx", p)
      BY <1>4, <1>17
    <2>2. p \in Wrappers /\ p # "doc"
      BY DEF Wrappers, Middle
    <2> QED
      BY <2>1, <2>2, <1>15, <1>18, <1>19
  <1>24. rf["range"] = refs["range"] - One("range" = o)
             - Field("ctx", "range") - Field("view", "range") - Field("composition", "range")
             + left("ctx", "range") + left("view", "range") + left("composition", "range")
    <2>1. Owed(all, "range") = (Field("ctx", "range") - left("ctx", "range"))
              + (Field("view", "range") - left("view", "range"))
              + (Field("composition", "range") - left("composition", "range"))
      BY <1>4, <1>17
    <2>2. "range" \in Wrappers /\ "range" # "doc"
      BY DEF Wrappers, Inner
    <2> QED
      BY <2>1, <2>2, <1>15, <1>18, <1>19
  <1>25. /\ rf["doc"] \in Nat /\ rf["doc"] <= refs["doc"]
         /\ rf["tm"] > 0 \/ refs["tm"] = 0 => rf["doc"] = refs["doc"] - One("doc" = o) /\ ~(Due(o, all, "doc") > refs["doc"])
    <2>1. "doc" \in Wrappers /\ "doc" \in Counted /\ refs["doc"] \in Nat /\ Owed(all, "doc") \in Nat
      BY <1>2, <1>5, ApartFromLeaves DEF Wrappers, Inner
    <2>2. rf["doc"] = IF Due(o, all, "doc") > refs["doc"] THEN 0 ELSE refs["doc"] - Due(o, all, "doc")
      BY <2>1, <1>1
    <2>3. Due(o, all, "doc") = One("doc" = o) + Owed(all, "doc")
      BY <2>1, <1>7, <1>8, <1>14
    <2>4. Owed(all, "doc") = IF "tm" \in all /\ "doc" \in made THEN 1 ELSE 0
      BY <1>4
    <2>5. One("doc" = o) <= refs["doc"]
      BY <2>1, <1>3, <1>14 DEF WrappersExact
    <2>6. rf["tm"] > 0 \/ refs["tm"] = 0 => "tm" \notin all
      BY <1>16
    <2>8. One("doc" = o) \in {0, 1} /\ (o # "doc" => One("doc" = o) = 0)
      BY <1>14, <2>1
    <2> QED
      BY <2>1, <2>2, <2>3, <2>4, <2>5, <2>6, <2>8
  <1>26. \A q \in {"tm", "single", "km", "composition", "compartment", "tmsrc", "ctxsrc"} :
             /\ q \in Wrappers /\ q # "doc" /\ refs[q] \in Nat /\ rf[q] \in Nat /\ rf[q] <= refs[q]
             /\ q \in all <=> refs[q] > 0 /\ rf[q] = 0
    BY <1>2, <1>12, <1>13, ApartFromLeaves DEF Wrappers, Outer, Middle, Inner
  <1>27. \A p \in Leaves :
             /\ rf[p] = refs[p] - FieldsTo(refs, slot, first, table, p) + FieldsTo(rf, slot, first, table, p)
             /\ rf[p] \in Nat /\ ~(Due(o, all, p) > refs[p])
    <2> SUFFICES ASSUME NEW p \in Leaves
                 PROVE  /\ rf[p] = refs[p] - FieldsTo(refs, slot, first, table, p) + FieldsTo(rf, slot, first, table, p)
                        /\ rf[p] \in Nat /\ ~(Due(o, all, p) > refs[p])
      OBVIOUS
    <2>1. \A t \in Tables : Listings(table[t], p) \in Nat
      BY ListedType
    <2>2. FieldsIn(all, p) = FieldsTo(refs, slot, first, table, p) - FieldsTo(rf, slot, first, table, p)
      <3> DEFINE a(q) == IF q \in all /\ slot[q] = p THEN 1 ELSE 0
                 b(q) == IF refs[q] > 0 /\ slot[q] = p THEN 1 ELSE 0
                 c(q) == IF rf[q] > 0 /\ slot[q] = p THEN 1 ELSE 0
                 n(t) == Listings(table[t], p) + (IF first[t].sink = p THEN 1 ELSE 0)
                 d(t) == IF t \in all THEN n(t) ELSE 0
                 e(t) == IF refs[t] > 0 THEN n(t) ELSE 0
                 f(t) == IF rf[t] > 0 THEN n(t) ELSE 0
      <3>1. \A q \in {"tm", "single", "km", "composition", "compartment"} :
                a(q) = b(q) - c(q) /\ b(q) \in Nat /\ c(q) \in Nat
        BY <1>26
      <3>2. \A t \in {"tmsrc", "ctxsrc"} : n(t) \in Nat
        BY <2>1 DEF Tables, Sources
      <3>3. \A t \in {"tmsrc", "ctxsrc"} : d(t) = e(t) - f(t) /\ e(t) \in Nat /\ f(t) \in Nat
        <4> HIDE DEF n
        <4> QED
          BY <1>26, <3>2
      <3>4. /\ FieldsIn(all, p) = a("tm") + a("single") + a("km") + a("composition") + a("compartment")
                                     + d("tmsrc") + d("ctxsrc")
            /\ FieldsTo(refs, slot, first, table, p)
                 = b("tm") + b("single") + b("km") + b("composition") + b("compartment") + e("tmsrc") + e("ctxsrc")
            /\ FieldsTo(rf, slot, first, table, p)
                 = c("tm") + c("single") + c("km") + c("composition") + c("compartment") + f("tmsrc") + f("ctxsrc")
        BY DEF FieldsIn, FieldsTo
      <3> HIDE DEF a, b, c, d, e, f
      <3> QED
        BY <3>1, <3>3, <3>4
    <2>3. FieldsTo(refs, slot, first, table, p) \in Nat /\ FieldsTo(rf, slot, first, table, p) \in Nat
      BY <2>1 DEF FieldsTo, Tables, Sources
    <2>4. GlobalsTo(g_key_sink, table, items, p) \in Nat
      BY <2>1 DEF GlobalsTo, Tables
    <2>5. refs[p] = GlobalsTo(g_key_sink, table, items, p) + FieldsTo(refs, slot, first, table, p)
      BY DEF LeavesExact
    <2>6. Due(o, all, p) = FieldsIn(all, p) /\ FieldsIn(all, p) \in Nat /\ p \in Counted
      BY <1>6, <1>9, ApartFromLeaves
    <2>7. ~(Due(o, all, p) > refs[p])
      BY <2>2, <2>3, <2>4, <2>5, <2>6
    <2>8. rf[p] = refs[p] - Due(o, all, p)
      BY <2>6, <2>7, <1>1
    <2> QED
      BY <2>2, <2>3, <2>4, <2>5, <2>6, <2>7, <2>8
  <1>28. rf \in [Counted -> Nat]
    <2>1. \A p \in Counted : rf[p] \in Nat
      BY <1>12, <1>25, <1>27 DEF Counted
    <2>2. DOMAIN rf = Counted /\ rf = [p \in Counted |-> rf[p]]
      BY <1>1
    <2> QED
      BY <2>1, <2>2
  <1>29. /\ Release(o).wild \subseteq wild \cup {"doc"}
         /\ rf["tm"] > 0 \/ refs["tm"] = 0 => Release(o).wild = wild
    <2>1. \A p \in Counted : Due(o, all, p) > refs[p] => p = "doc"
      <3> SUFFICES ASSUME NEW p \in Counted, p # "doc" PROVE ~(Due(o, all, p) > refs[p])
        OBVIOUS
      <3>1. CASE p \in Leaves
        BY <3>1, <1>27
      <3>2. CASE p \in Wrappers
        <4>1. Due(o, all, p) <= refs[p] /\ refs[p] \in Nat /\ Due(o, all, p) \in Nat
          BY <3>2, <1>2, <1>5, <1>7, <1>8, <1>11
        <4> QED
          BY <4>1
      <3> QED
        BY <3>1, <3>2 DEF Counted
    <2> QED
      BY <2>1, <1>1, <1>25
  <1>30. \A p \in Wrappers : rf[p] <= refs[p]
    BY <1>12, <1>25
  <1> QED
    BY <1>20, <1>21, <1>22, <1>23, <1>24, <1>25, <1>27, <1>28, <1>29, <1>30 DEF left

-----------------------------------------------------------------------------
(***************************************************************************)
(* ShimObjects: what is alive.                                             *)
(***************************************************************************)
LEMMA MainsShare ==
    ASSUME NEW n \in Nat
    PROVE  /\ MainHas(n, "tm") = IF n \in 2..14 THEN 1 ELSE 0
           /\ MainHas(n, "doc") = IF n \in 4..13 THEN 1 ELSE 0
           /\ MainHas(n, "ctx") = IF n \in 5..12 THEN 1 ELSE 0
           /\ MainHas(n, "km") = IF n = 9 THEN 1 ELSE 0
           /\ \A p : MainHas(n, p) \in {0, 1}
           /\ \A p : p \notin {"tm", "doc", "ctx", "km"} => MainHas(n, p) = 0
  BY DEF MainHas

LEMMA StageOf == ASSUME ObjectsInv PROVE At[host] \in 1..15 /\ (At[host] = 15 <=> host = "done") /\ (At[host] = 9 <=> host = "up")
  BY StageNumbers DEF ObjectsInv, ObjectKinds, HostKinds

LEMMA CountsAre ==
    ASSUME ObjectsInv
    PROVE  /\ \A p \in Counted : refs[p] \in Nat
           /\ \A o \in Wrappers : refs[o] \in Nat /\ held[o] \in Nat
           /\ \A p \in Leaves : refs[p] \in Nat
           /\ \A q, p : Field(q, p) \in {0, 1}
  BY ApartFromLeaves DEF ObjectsInv, ObjectKinds, CountKinds, Field

LEMMA Living ==
    ASSUME ObjectsInv
    PROVE  /\ host # "done" => wild = {}
           /\ At[host] \in 2..14 => refs["tm"] > 0
           /\ At[host] \in 4..13 => refs["doc"] > 0
           /\ At[host] \in 5..12 => refs["ctx"] > 0
           /\ At[host] = 9 => refs["km"] > 0
           /\ host # "done" => \A o \in Wrappers : held[o] > 0 => refs[o] > 0
           /\ refs["tm"] > 0 => \A p \in {"tmsrc", "single", "km", "provider"} : p \in made => refs[p] > 0
           /\ refs["ctx"] > 0 => \A p \in {"ctxsrc", "view", "composition", "range"} : p \in made => refs[p] > 0
  <1> DEFINE n == At[host]
  <1>1. n \in Nat
    BY StageOf
  <1>2. \A o \in Wrappers : refs[o] \in Nat /\ held[o] \in Nat
    BY CountsAre
  <1>3. WrappersExact
    BY DEF ObjectsInv
  <1>4. /\ MainHas(n, "tm") = IF n \in 2..14 THEN 1 ELSE 0
        /\ MainHas(n, "doc") = IF n \in 4..13 THEN 1 ELSE 0
        /\ MainHas(n, "ctx") = IF n \in 5..12 THEN 1 ELSE 0
        /\ MainHas(n, "km") = IF n = 9 THEN 1 ELSE 0
    BY <1>1, MainsShare
  <1>5. \A q, p : Field(q, p) \in {0, 1}
    BY DEF Field
  <1>6. n = 15 <=> host = "done"
    BY StageOf
  <1>7. \A o \in Wrappers : o \in {"ex", "compartment", "tm", "doc", "ctx", "km", "tmsrc", "single", "provider",
                                   "ctxsrc", "view", "composition", "range"}
    BY DEF Wrappers, Outer, Middle, Inner
  <1>8. {"ex", "compartment", "tm", "doc", "ctx", "km", "tmsrc", "single", "provider",
         "ctxsrc", "view", "composition", "range"} \subseteq Wrappers
    BY DEF Wrappers, Outer, Middle, Inner
  <1>9. host # "done" => wild = {}
    BY DEF ObjectsInv, Untouched
  <1> HIDE DEF n
  <1>10. refs["tm"] = MainHas(n, "tm") + held["tm"] + Field("ex", "tm")
    BY <1>3 DEF WrappersExact, n
  <1>11. host # "done" => refs["doc"] = MainHas(n, "doc") + held["doc"]
    BY <1>3 DEF WrappersExact, n
  <1>12. refs["ctx"] = MainHas(n, "ctx") + held["ctx"]
    BY <1>3 DEF WrappersExact, n
  <1>13. refs["km"] = MainHas(n, "km") + held["km"] + Field("tm", "km")
    BY <1>3 DEF WrappersExact, n
  <1>14. \A p \in {"tmsrc", "single", "provider"} : refs[p] = held[p] + Field("tm", p)
    BY <1>3 DEF WrappersExact
  <1>15. \A p \in {"ctxsrc", "view", "composition"} : refs[p] = held[p] + Field("ctx", p)
    BY <1>3 DEF WrappersExact
  <1>16. refs["range"] = held["range"] + Field("ctx", "range") + Field("view", "range") + Field("composition", "range")
    BY <1>3 DEF WrappersExact
  <1>17. refs["ex"] = held["ex"] /\ refs["compartment"] = held["compartment"]
    BY <1>3 DEF WrappersExact
  <1>18. \A o \in {"ex", "compartment", "tm", "doc", "ctx", "km"} : host # "done" /\ held[o] > 0 => refs[o] > 0
    BY <1>2, <1>4, <1>5, <1>8, <1>10, <1>11, <1>12, <1>13, <1>17
  <1>19. \A o \in {"tmsrc", "single", "provider", "ctxsrc", "view", "composition", "range"} : held[o] > 0 => refs[o] > 0
    BY <1>2, <1>5, <1>8, <1>14, <1>15, <1>16
  <1>20. \A o \in Wrappers : host # "done" /\ held[o] > 0 => refs[o] > 0
    BY <1>7, <1>18, <1>19
  <1>21. /\ n \in 2..14 => refs["tm"] > 0
         /\ n \in 4..13 => refs["doc"] > 0
         /\ n \in 5..12 => refs["ctx"] > 0
         /\ n = 9 => refs["km"] > 0
    <2>1. held["tm"] \in Nat /\ held["doc"] \in Nat /\ held["ctx"] \in Nat /\ held["km"] \in Nat
      BY <1>2, <1>8
    <2>2. n \in 4..13 => host # "done"
      BY <1>6
    <2> QED
      BY <2>1, <2>2, <1>4, <1>5, <1>10, <1>11, <1>12, <1>13
  <1>22. refs["tm"] > 0 => \A p \in {"tmsrc", "single", "km", "provider"} : p \in made => refs[p] > 0
    <2>1. \A p \in made : refs["tm"] > 0 => Field("tm", p) = 1
      BY DEF Field
    <2>2. \A p \in {"tmsrc", "single", "km", "provider"} : held[p] \in Nat
      BY <1>2, <1>8
    <2> QED
      BY <2>1, <2>2, <1>4, <1>13, <1>14
  <1>23. refs["ctx"] > 0 => \A p \in {"ctxsrc", "view", "composition", "range"} : p \in made => refs[p] > 0
    <2>1. \A p \in made : refs["ctx"] > 0 => Field("ctx", p) = 1
      BY DEF Field
    <2>2. \A p \in {"ctxsrc", "view", "composition", "range"} : held[p] \in Nat
      BY <1>2, <1>8
    <2> QED
      BY <2>1, <2>2, <1>5, <1>15, <1>16
  <1> QED
    BY <1>9, <1>20, <1>21, <1>22, <1>23 DEF n

\* The owners of the leaves, one by one.
Share(rf, sl, o, p) == IF rf[o] > 0 /\ sl[o] = p THEN 1 ELSE 0
SourceShare(rf, fs, tb, t, p) == IF rf[t] > 0 THEN Listings(tb[t], p) + (IF fs[t].sink = p THEN 1 ELSE 0) ELSE 0

LEMMA FieldsAreShares ==
    \A rf, sl, fs, tb, p : FieldsTo(rf, sl, fs, tb, p) =
        Share(rf, sl, "tm", p) + Share(rf, sl, "single", p) + Share(rf, sl, "km", p)
          + Share(rf, sl, "composition", p) + Share(rf, sl, "compartment", p)
          + SourceShare(rf, fs, tb, "tmsrc", p) + SourceShare(rf, fs, tb, "ctxsrc", p)
  BY DEF FieldsTo, Share, SourceShare

LEMMA SharesAre ==
    ASSUME RegistryKinds, NEW p, NEW rf
    PROVE  /\ \A o : Share(rf, slot, o, p) \in Nat
           /\ \A t \in Tables : Listings(table[t], p) \in Nat
           /\ \A t \in Sources : SourceShare(rf, first, table, t, p) \in Nat
           /\ FieldsTo(rf, slot, first, table, p) \in Nat
           /\ GlobalsTo(g_key_sink, table, items, p) \in Nat
  <1>1. \A t \in Tables : Listings(table[t], p) \in Nat
    BY ListingsType DEF RegistryKinds
  <1>2. \A o : Share(rf, slot, o, p) \in Nat
    BY DEF Share
  <1>3. \A t \in Sources : SourceShare(rf, first, table, t, p) \in Nat
    BY <1>1 DEF SourceShare, Tables
  <1>4. GlobalsTo(g_key_sink, table, items, p) \in Nat
    BY <1>1 DEF GlobalsTo, Tables
  <1>5. FieldsTo(rf, slot, first, table, p) \in Nat
    BY <1>2, <1>3, FieldsAreShares DEF Sources
  <1> QED
    BY <1>1, <1>2, <1>3, <1>4, <1>5

LEMMA LeafLives ==
    ASSUME ObjectsInv
    PROVE  /\ \A o \in Slotted : refs[o] > 0 /\ slot[o] # None => refs[slot[o]] > 0
           /\ \A t \in Sources : \A i \in DOMAIN table[t] : refs[t] > 0 => refs[table[t][i].sink] > 0
           /\ \A i \in DOMAIN table["bar"] : refs[table["bar"][i].sink] > 0
           /\ g_key_sink # None => refs[g_key_sink] > 0
  <1> USE DEF ObjectsInv, ObjectKinds
  <1>0. RegistryKinds
    OBVIOUS
  <1>1. ASSUME NEW p \in Leaves
        PROVE  /\ \A o \in Slotted : Share(refs, slot, o, p) > 0 => refs[p] > 0
               /\ \A t \in Sources : SourceShare(refs, first, table, t, p) > 0 => refs[p] > 0
               /\ GlobalsTo(g_key_sink, table, items, p) > 0 => refs[p] > 0
    <2>1. refs[p] = GlobalsTo(g_key_sink, table, items, p) + FieldsTo(refs, slot, first, table, p)
      BY DEF LeavesExact
    <2>2. /\ \A o : Share(refs, slot, o, p) \in Nat
          /\ \A t \in Sources : SourceShare(refs, first, table, t, p) \in Nat
          /\ GlobalsTo(g_key_sink, table, items, p) \in Nat
      BY <1>0, SharesAre
    <2> QED
      BY <2>1, <2>2, FieldsAreShares DEF Slotted, Sources
  <1>2. \A t \in Tables : table[t] \in Seq(SinkEntries)
    BY DEF RegistryKinds
  <1>3. \A t \in Tables : \A i \in DOMAIN table[t] : table[t][i].sink \in Leaves
    <2> TAKE t \in Tables
    <2> TAKE i \in DOMAIN table[t]
    <2>1. table[t][i] \in SinkEntries
      BY <1>2
    <2>2. table[t][i].sink \in TipSinks
      BY <2>1 DEF SinkEntries
    <2> QED
      BY <2>2 DEF TipSinks, Leaves
  <1>4. \A t \in Tables : \A i \in DOMAIN table[t] : Listings(table[t], table[t][i].sink) > 0
    BY <1>2, ListingsType
  <1>5. \A o \in Slotted : refs[o] > 0 /\ slot[o] # None => refs[slot[o]] > 0
    <2> SUFFICES ASSUME NEW o \in Slotted, refs[o] > 0, slot[o] # None PROVE refs[slot[o]] > 0
      OBVIOUS
    <2>1. slot[o] \in Leaves
      BY DEF RegistryKinds, Leaves
    <2>2. Share(refs, slot, o, slot[o]) = 1
      BY DEF Share
    <2> QED
      BY <2>1, <2>2, <1>1
  <1>6. \A t \in Sources : \A i \in DOMAIN table[t] : refs[t] > 0 => refs[table[t][i].sink] > 0
    <2> SUFFICES ASSUME NEW t \in Sources, NEW i \in DOMAIN table[t], refs[t] > 0 PROVE refs[table[t][i].sink] > 0
      OBVIOUS
    <2>1. PICK p \in Leaves : p = table[t][i].sink
      BY <1>3 DEF Tables
    <2>2. Listings(table[t], p) \in Nat /\ Listings(table[t], p) > 0
      BY <2>1, <1>0, <1>4, SharesAre DEF Tables
    <2>3. SourceShare(refs, first, table, t, p) > 0
      BY <2>2 DEF SourceShare
    <2> QED
      BY <2>1, <2>3, <1>1
  <1>7. \A i \in DOMAIN table["bar"] : refs[table["bar"][i].sink] > 0
    <2> SUFFICES ASSUME NEW i \in DOMAIN table["bar"] PROVE refs[table["bar"][i].sink] > 0
      OBVIOUS
    <2>0. "bar" \in Tables
      BY DEF Tables
    <2>1. PICK p \in Leaves : p = table["bar"][i].sink
      BY <2>0, <1>3
    <2>2. Listings(table["bar"], p) \in Nat /\ Listings(table["bar"], p) > 0
      BY <2>0, <2>1, <1>0, <1>4, SharesAre
    <2>3. GlobalsTo(g_key_sink, table, items, p) > 0
      BY <2>2 DEF GlobalsTo
    <2> QED
      BY <2>1, <2>3, <1>1
  <1>8. g_key_sink # None => refs[g_key_sink] > 0
    <2> SUFFICES ASSUME g_key_sink # None PROVE refs[g_key_sink] > 0
      OBVIOUS
    <2>0. "bar" \in Tables
      BY DEF Tables
    <2>1. PICK p \in Leaves : p = g_key_sink
      BY DEF RegistryKinds, Leaves
    <2>2. Listings(table["bar"], p) \in Nat
      BY <2>0, <1>0, SharesAre
    <2>3. GlobalsTo(g_key_sink, table, items, p) > 0
      BY <2>1, <2>2 DEF GlobalsTo
    <2> QED
      BY <2>1, <2>3, <1>1
  <1> QED
    BY <1>5, <1>6, <1>7, <1>8

-----------------------------------------------------------------------------
(***************************************************************************)
(* ShimObjects: what a step leaves alone.                                  *)
(***************************************************************************)
LEMMA QuietRegistry ==
    ASSUME ObjectsInv, UNCHANGED registry, made \subseteq made',
           At[host] \in 6..11 <=> At[host'] \in 6..11, At[host'] < 6 => At[host] < 6, At[host'] >= 8 => At[host] >= 8
    PROVE  RegistryKinds' /\ Unmade' /\ Cookies' /\ Heard'
  <1>1. RegistryKinds'
    BY DEF ObjectsInv, ObjectKinds, RegistryKinds, registry
  <1>2. Unmade'
    BY DEF ObjectsInv, Unmade, registry
  <1>3. Cookies'
    BY DEF ObjectsInv, Cookies, CookiesExact, HostsCookie, registry
  <1>4. Heard'
    BY DEF ObjectsInv, Heard, EventSinks, registry
  <1> QED
    BY <1>1, <1>2, <1>3, <1>4

Owners == {"tm", "single", "km", "composition", "compartment", "tmsrc", "ctxsrc"}

LEMMA QuietLeaves ==
    ASSUME ObjectsInv, UNCHANGED <<table, first, slot, g_key_sink, items>>, \A p \in Leaves : refs'[p] = refs[p],
           \A o \in Owners : o \notin made \/ (refs'[o] > 0 <=> refs[o] > 0)
    PROVE  LeavesExact'
  <1>1. ASSUME NEW p \in Leaves
        PROVE  FieldsTo(refs', slot, first, table, p) = FieldsTo(refs, slot, first, table, p)
    <2>1. ASSUME NEW o \in {"tm", "single", "km", "composition", "compartment"}
          PROVE  Share(refs', slot, o, p) = Share(refs, slot, o, p)
      <3>1. o \notin made => slot[o] # p
        BY ApartFromLeaves DEF ObjectsInv, Unmade, Slotted
      <3> QED
        BY <3>1 DEF Share, Owners
    <2>2. ASSUME NEW t \in {"tmsrc", "ctxsrc"}
          PROVE  SourceShare(refs', first, table, t, p) = SourceShare(refs, first, table, t, p)
      <3>1. t \notin made => table[t] = <<>> /\ first[t].sink # p
        BY ApartFromLeaves DEF ObjectsInv, Unmade, Sources
      <3>2. Listings(<<>>, p) = 0
        BY ListingsEmpty
      <3>3. t \notin made => Listings(table[t], p) + (IF first[t].sink = p THEN 1 ELSE 0) = 0
        BY <3>1, <3>2
      <3> QED
        BY <3>3 DEF SourceShare, Owners
    <2> QED
      BY <2>1, <2>2, FieldsAreShares
  <1>2. LeavesExact
    BY DEF ObjectsInv
  <1> QED
    BY <1>1, <1>2 DEF LeavesExact

LEMMA CountsTyped ==
    ASSUME RegistryKinds', LeavesExact', DOMAIN refs' = Counted, refs' = [p \in Counted |-> refs'[p]],
           \A o \in Wrappers : refs'[o] \in Nat
    PROVE  refs' \in [Counted -> Nat]
  <1>1. ASSUME NEW p \in Leaves PROVE refs'[p] \in Nat
    <2>1. PICK a : a = GlobalsTo(g_key_sink', table', items', p)
      OBVIOUS
    <2>2. PICK b : b = FieldsTo(refs', slot', first', table', p)
      OBVIOUS
    <2>3. a \in Nat /\ b \in Nat
      <3>1. ASSUME NEW t \in Tables PROVE Listings(table'[t], p) \in Nat
        <4>1. table'[t] \in Seq(SinkEntries)
          BY DEF RegistryKinds
        <4> QED
          BY <4>1, ListingsType
      <3>2. a \in Nat
        BY <2>1, <3>1 DEF GlobalsTo, Tables
      <3>3. b \in Nat
        <4>1. \A o : Share(refs', slot', o, p) \in Nat
          BY DEF Share
        <4>2. \A t \in Sources : SourceShare(refs', first', table', t, p) \in Nat
          BY <3>1 DEF SourceShare, Tables
        <4> QED
          BY <2>2, <4>1, <4>2, FieldsAreShares DEF Sources
      <3> QED
        BY <3>2, <3>3
    <2>4. refs'[p] = a + b
      BY <2>1, <2>2 DEF LeavesExact
    <2> QED
      BY <2>3, <2>4
  <1> QED
    BY <1>1 DEF Counted

\* A step that changes no count of a wrapper and moves nobody.
LEMMA QuietWrappers ==
    ASSUME ObjectsInv, UNCHANGED <<host, focus, made, held, active, wild>>, \A o \in Wrappers : refs'[o] = refs[o]
    PROVE  /\ Stages' /\ WrappersExact' /\ Untouched'
           /\ \A o \in Wrappers : refs'[o] \in Nat
           /\ \A o \in Owners : refs'[o] > 0 <=> refs[o] > 0
  <1>1. {"ex", "compartment", "tm", "doc", "ctx", "km", "tmsrc", "single", "provider",
         "ctxsrc", "view", "composition", "range"} \subseteq Wrappers
    BY DEF Wrappers, Outer, Middle, Inner
  <1>2. \A q \in {"ex", "tm", "ctx", "view", "composition"} : \A p : Field(q, p)' = Field(q, p)
    BY <1>1 DEF Field
  <1>3. WrappersExact'
    BY <1>1, <1>2 DEF ObjectsInv, WrappersExact
  <1>4. Stages'
    BY DEF ObjectsInv, Stages
  <1>5. Untouched'
    BY <1>1 DEF ObjectsInv, Untouched
  <1>6. \A o \in Wrappers : refs'[o] \in Nat
    BY CountsAre
  <1>7. Owners \subseteq Wrappers
    BY DEF Owners, Wrappers, Outer, Middle, Inner
  <1> QED
    BY <1>3, <1>4, <1>5, <1>6, <1>7

LEMMA WrappersAre ==
    /\ Wrappers = {"ex", "compartment", "tm", "doc", "ctx", "km", "tmsrc", "single", "provider",
                   "ctxsrc", "view", "composition", "range"}
    /\ \A o \in Wrappers : o \in Counted /\ o \notin Leaves /\ o # None
    /\ Owners \subseteq Wrappers
  BY ApartFromLeaves DEF Wrappers, Outer, Middle, Inner, Owners

\* Nothing there yet has a count.
LEMMA FreshAreFree ==
    ASSUME ObjectsInv
    PROVE  /\ \A o \in Wrappers : o \notin made => held[o] = 0
           /\ \A o \in Wrappers : o \notin made /\ host # "done" => refs[o] = 0
  <1>1. \A o \in Wrappers : o \notin made => held[o] = 0
    BY CountsAre DEF ObjectsInv, Stages
  <1>2. WrappersExact /\ Stages
    BY DEF ObjectsInv
  <1>3. \A q, p : p \notin made => Field(q, p) = 0
    BY DEF Field
  <1>4. At[host] \in 1..15 /\ (At[host] = 15 <=> host = "done")
    BY StageOf
  <1>5. ASSUME NEW o \in Wrappers, o \notin made, host # "done" PROVE refs[o] = 0
    <2>1. held[o] = 0 /\ \A q : Field(q, o) = 0
      BY <1>1, <1>3, <1>5
    <2>2. MainHas(At[host], o) = 0
      BY <1>2, <1>4, <1>5 DEF Stages, MainHas
    <2>3. CASE o \in {"ex", "compartment"}
      BY <2>1, <2>3, <1>2 DEF WrappersExact
    <2>4. CASE o \in {"tm", "doc", "ctx", "km"}
      BY <2>1, <2>2, <2>4, <1>2, <1>5 DEF WrappersExact
    <2>5. CASE o \in {"tmsrc", "single", "provider"}
      BY <2>1, <2>5, <1>2 DEF WrappersExact
    <2>6. CASE o \in {"ctxsrc", "view", "composition"}
      BY <2>1, <2>6, <1>2 DEF WrappersExact
    <2>7. CASE o = "range"
      BY <2>1, <2>7, <1>2 DEF WrappersExact
    <2> QED
      BY <2>3, <2>4, <2>5, <2>6, <2>7, WrappersAre
  <1> QED
    BY <1>1, <1>5

-----------------------------------------------------------------------------
(***************************************************************************)
(* ShimObjects: main.                                                      *)
(***************************************************************************)
LEMMA AllHold ==
    ASSUME HostKinds', CountKinds', RegistryKinds', Stages', Unmade', Cookies', WrappersExact', LeavesExact',
           Untouched', Heard'
    PROVE  ObjectsInv'
  BY DEF ObjectsInv, ObjectKinds

LEMMA StepCreateThreadMgr == ASSUME ObjectsInv, CreateThreadMgr PROVE ObjectsInv'
  <1>1. At[host] = 1 /\ At[host'] = 2 /\ host # "done" /\ host' \in Steps /\ host' # "done"
    BY StageIs DEF CreateThreadMgr, HostAt
  <1>2. made = {} /\ made' = {"tm"}
    BY <1>1 DEF CreateThreadMgr, ObjectsInv, Stages
  <1>3. \A o \in Wrappers : held[o] = 0 /\ refs[o] = 0
    BY <1>1, <1>2, FreshAreFree
  <1>4. /\ UNCHANGED <<loaded, focus, held, active, wild, calls>> /\ UNCHANGED registry
        /\ refs' = [refs EXCEPT !["tm"] = 1]
    BY DEF CreateThreadMgr, HostAt
  <1>5. refs \in [Counted -> Nat] /\ "tm" \in Counted
    BY WrappersAre DEF ObjectsInv, ObjectKinds, CountKinds
  <1>6. refs' \in [Counted -> Nat] /\ refs'["tm"] = 1 /\ \A p \in Counted : p # "tm" => refs'[p] = refs[p]
    BY <1>4, <1>5
  <1>7. HostKinds' /\ CountKinds'
    <2>1. HostKinds'
      BY <1>1, <1>2, <1>4, WrappersAre DEF ObjectsInv, ObjectKinds, HostKinds, registry
    <2>2. CountKinds'
      BY <1>4, <1>6 DEF ObjectsInv, ObjectKinds, CountKinds
    <2> QED
      BY <2>1, <2>2
  <1>8. RegistryKinds' /\ Unmade' /\ Cookies' /\ Heard'
    BY <1>1, <1>2, <1>4, QuietRegistry
  <1>9. Stages'
    BY <1>1, <1>2, <1>3, <1>4, WrappersAre DEF ObjectsInv, Stages
  <1>10. WrappersExact'
    <2>1. \A q \in Wrappers : \A p : Field(q, p)' = IF q = "tm" /\ p = "tm" THEN 1 ELSE 0
      BY <1>2, <1>3, <1>6, WrappersAre DEF Field
    <2>2. \A p : MainHas(2, p) = IF p = "tm" THEN 1 ELSE 0
      BY DEF MainHas
    <2> QED
      BY <1>1, <1>3, <1>4, <1>6, <2>1, <2>2, WrappersAre DEF WrappersExact
  <1>11. LeavesExact'
    <2>1. \A p \in Leaves : refs'[p] = refs[p]
      BY <1>6, WrappersAre DEF Counted
    <2> QED
      BY <2>1, <1>2, <1>4, QuietLeaves DEF registry
  <1>12. Untouched'
    BY <1>1, <1>3, <1>4, <1>6, WrappersAre, StageIs DEF ObjectsInv, Untouched
  <1> QED
    BY <1>7, <1>8, <1>9, <1>10, <1>11, <1>12, AllHold

LEMMA StepActivate == ASSUME ObjectsInv, Activate PROVE ObjectsInv'
  <1>1. At[host] = 2 /\ At[host'] = 3 /\ host # "done" /\ host' \in Steps /\ host' # "done"
    BY StageIs DEF Activate, HostAt
  <1>2. /\ UNCHANGED <<focus, made, refs, held, wild, calls>> /\ UNCHANGED registry
        /\ active' = active \cup {"tm"} /\ loaded' \in {loaded, "profile"}
    BY DEF Activate, HostAt
  <1>3. HostKinds'
    BY <1>1, <1>2 DEF ObjectsInv, ObjectKinds, HostKinds, registry
  <1>4. CountKinds'
    BY <1>2 DEF ObjectsInv, ObjectKinds, CountKinds
  <1>5. RegistryKinds' /\ Unmade' /\ Cookies' /\ Heard'
    BY <1>1, <1>2, QuietRegistry
  <1>6. Stages'
    BY <1>1, <1>2 DEF ObjectsInv, Stages
  <1>7. WrappersExact'
    <2>1. \A p : MainHas(3, p) = MainHas(2, p)
      BY DEF MainHas
    <2>2. \A q, p : Field(q, p)' = Field(q, p)
      BY <1>2 DEF Field
    <2> QED
      BY <1>1, <1>2, <2>1, <2>2 DEF ObjectsInv, WrappersExact
  <1>8. LeavesExact'
    BY <1>2, QuietLeaves DEF registry
  <1>9. Untouched'
    BY <1>1, <1>2 DEF ObjectsInv, Untouched
  <1> QED
    BY <1>3, <1>4, <1>5, <1>6, <1>7, <1>8, <1>9, AllHold

LEMMA StepCreateDocumentMgr == ASSUME ObjectsInv, CreateDocumentMgr PROVE ObjectsInv'
  <1>1. At[host] = 3 /\ At[host'] = 4 /\ host # "done" /\ host' \in Steps /\ host' # "done"
    BY StageIs DEF CreateDocumentMgr, HostAt
  <1>2. /\ UNCHANGED <<loaded, focus, held, wild, calls>> /\ UNCHANGED registry
        /\ active' = active \ {"ctx"} /\ made' = made \cup {"doc"} /\ refs' = [refs EXCEPT !["doc"] = 1]
    BY DEF CreateDocumentMgr, HostAt
  <1>3. "doc" \notin made
    BY <1>1 DEF ObjectsInv, Stages
  <1>4. held["doc"] = 0 /\ refs["doc"] = 0
    BY <1>1, <1>3, FreshAreFree, WrappersAre
  <1>5. refs \in [Counted -> Nat] /\ "doc" \in Counted /\ "doc" \in Wrappers
    BY WrappersAre DEF ObjectsInv, ObjectKinds, CountKinds
  <1>6. refs' \in [Counted -> Nat] /\ refs'["doc"] = 1 /\ \A p \in Counted : p # "doc" => refs'[p] = refs[p]
    BY <1>2, <1>5
  <1>7. HostKinds'
    BY <1>1, <1>2, <1>5 DEF ObjectsInv, ObjectKinds, HostKinds, registry
  <1>8. CountKinds'
    BY <1>2, <1>6 DEF ObjectsInv, ObjectKinds, CountKinds
  <1>9. RegistryKinds' /\ Unmade' /\ Cookies' /\ Heard'
    BY <1>1, <1>2, QuietRegistry
  <1>10. Stages'
    BY <1>1, <1>2, WrappersAre DEF ObjectsInv, Stages
  <1>11. WrappersExact'
    <2>1. \A q \in {"ex", "tm", "ctx", "view", "composition"} : \A p : p # "doc" => Field(q, p)' = Field(q, p)
      BY <1>2, <1>6, WrappersAre DEF Field
    <2>2. \A p : p # "doc" => MainHas(4, p) = MainHas(3, p)
      BY DEF MainHas
    <2>3. MainHas(4, "doc") = 1
      BY DEF MainHas
    <2>4. \A o \in Wrappers : o # "doc" => refs'[o] = refs[o] /\ held'[o] = held[o]
      BY <1>2, <1>6, WrappersAre
    <2> QED
      BY <1>1, <1>2, <1>4, <1>6, <2>1, <2>2, <2>3, <2>4, WrappersAre DEF ObjectsInv, WrappersExact
  <1>12. LeavesExact'
    <2>1. \A p \in Leaves : refs'[p] = refs[p]
      BY <1>6, WrappersAre DEF Counted
    <2>2. \A o \in Owners : refs'[o] = refs[o]
      BY <1>6, WrappersAre DEF Owners
    <2> QED
      BY <2>1, <2>2, <1>2, QuietLeaves DEF registry
  <1>13. Untouched'
    BY <1>1, <1>2, <1>6 DEF ObjectsInv, Untouched
  <1> QED
    BY <1>7, <1>8, <1>9, <1>10, <1>11, <1>12, <1>13, AllHold

LEMMA StepCreateContext == ASSUME ObjectsInv, CreateContext PROVE ObjectsInv'
  <1> DEFINE New == {"ctx", "range", "view", "composition"}
  <1>1. At[host] = 4 /\ At[host'] = 5 /\ host # "done" /\ host' \in Steps /\ host' # "done"
    BY StageIs DEF CreateContext, HostAt
  <1>2. /\ UNCHANGED <<loaded, focus, held, wild, calls>> /\ UNCHANGED registry
        /\ active' = active \cup {"ctx"} /\ made' = made \cup New
        /\ refs' = [refs EXCEPT !["ctx"] = 1, !["view"] = 1, !["composition"] = 1, !["range"] = 3]
    BY DEF CreateContext, HostAt
  <1>3. "ctxsrc" \notin made /\ \A o \in New : o \notin made
    BY <1>1 DEF ObjectsInv, Stages
  <1>4. \A o \in New : held[o] = 0 /\ refs[o] = 0
    BY <1>1, <1>3, FreshAreFree, WrappersAre
  <1>5. refs \in [Counted -> Nat] /\ New \subseteq Counted /\ New \subseteq Wrappers
    BY WrappersAre DEF ObjectsInv, ObjectKinds, CountKinds
  <1>6. /\ refs' \in [Counted -> Nat] /\ refs'["ctx"] = 1 /\ refs'["view"] = 1 /\ refs'["composition"] = 1
        /\ refs'["range"] = 3 /\ \A p \in Counted : p \notin New => refs'[p] = refs[p]
    BY <1>2, <1>5
  <1>7. HostKinds'
    BY <1>1, <1>2, <1>5 DEF ObjectsInv, ObjectKinds, HostKinds, registry
  <1>8. CountKinds'
    BY <1>2, <1>6 DEF ObjectsInv, ObjectKinds, CountKinds
  <1>9. RegistryKinds' /\ Unmade' /\ Cookies' /\ Heard'
    BY <1>1, <1>2, QuietRegistry
  <1>10. Stages'
    BY <1>1, <1>2, WrappersAre DEF ObjectsInv, Stages
  <1>11. WrappersExact'
    <2>1. \A q \in {"ex", "tm"} : \A p : p \notin New => Field(q, p)' = Field(q, p)
      BY <1>2, <1>6, WrappersAre DEF Field
    <2>2. \A q \in {"ctx", "view", "composition"} : \A p : Field(q, p)' = IF p \in made' THEN 1 ELSE 0
      BY <1>6 DEF Field
    <2>3. Field("ctx", "ctxsrc") = 0 /\ Field("ctx", "ctxsrc")' = 0
      BY <1>2, <1>3 DEF Field
    <2>4. \A p : p # "ctx" => MainHas(5, p) = MainHas(4, p)
      BY DEF MainHas
    <2>5. MainHas(5, "ctx") = 1
      BY DEF MainHas
    <2>6. \A o \in Wrappers : held'[o] = held[o] /\ (o \notin New => refs'[o] = refs[o])
      BY <1>2, <1>6, WrappersAre
    <2> QED
      BY <1>1, <1>2, <1>4, <1>6, <2>1, <2>2, <2>3, <2>4, <2>5, <2>6, WrappersAre DEF ObjectsInv, WrappersExact
  <1>12. LeavesExact'
    <2>1. \A p \in Leaves : refs'[p] = refs[p]
      BY <1>6, WrappersAre DEF Counted
    <2>2. \A o \in Owners : o \notin made \/ refs'[o] = refs[o]
      BY <1>3, <1>6, WrappersAre DEF Owners
    <2> QED
      BY <2>1, <2>2, <1>2, QuietLeaves DEF registry
  <1>13. Untouched'
    BY <1>1, <1>2, <1>6 DEF ObjectsInv, Untouched
  <1> QED
    BY <1>7, <1>8, <1>9, <1>10, <1>11, <1>12, <1>13, AllHold

LEMMA StepAssociateFocus == ASSUME ObjectsInv, AssociateFocus PROVE ObjectsInv'
  <1>1. At[host] = 6 /\ At[host'] = 7 /\ host # "done" /\ host' \in Steps /\ host' # "done"
    BY StageIs DEF AssociateFocus, HostAt
  <1>2. UNCHANGED <<loaded, made, refs, held, active, wild, calls>> /\ UNCHANGED registry /\ focus' \in BOOLEAN
    BY DEF AssociateFocus, HostAt
  <1>3. HostKinds'
    BY <1>1, <1>2 DEF ObjectsInv, ObjectKinds, HostKinds, registry
  <1>4. CountKinds'
    BY <1>2 DEF ObjectsInv, ObjectKinds, CountKinds
  <1>5. RegistryKinds' /\ Unmade' /\ Cookies' /\ Heard'
    BY <1>1, <1>2, QuietRegistry
  <1>6. Stages'
    BY <1>1, <1>2 DEF ObjectsInv, Stages
  <1>7. WrappersExact'
    <2>1. \A p : MainHas(7, p) = MainHas(6, p)
      BY DEF MainHas
    <2>2. \A q, p : Field(q, p)' = Field(q, p)
      BY <1>2 DEF Field
    <2> QED
      BY <1>1, <1>2, <2>1, <2>2 DEF ObjectsInv, WrappersExact
  <1>8. LeavesExact'
    BY <1>2, QuietLeaves DEF registry
  <1>9. Untouched'
    BY <1>1, <1>2 DEF ObjectsInv, Untouched
  <1> QED
    BY <1>3, <1>4, <1>5, <1>6, <1>7, <1>8, <1>9, AllHold

\* The event sinks that are told are alive.
LEMMA StepSetFocus == ASSUME ObjectsInv, SetFocus PROVE ObjectsInv'
  <1>1. At[host] = 7 /\ At[host'] = 8 /\ host # "done" /\ host' \in Steps /\ host' # "done"
    BY StageIs DEF SetFocus, HostAt
  <1>2. /\ UNCHANGED <<loaded, made, refs, held, table, first, next, slot, g_key_sink, items, given, active, calls>>
        /\ focus' = TRUE /\ told' = (told \/ EventSinks # {})
        /\ wild' = wild \cup Dead({table["tmsrc"][i].sink : i \in EventSinks})
    BY DEF SetFocus, HostAt
  <1>3. EventSinks # {} => "tmsrc" \in made
    BY DEF EventSinks, ObjectsInv, Unmade, Sources
  <1>4. refs["tm"] > 0
    BY <1>1, Living
  <1>5. EventSinks # {} => refs["tmsrc"] > 0
    BY <1>3, <1>4, Living
  <1>6. Dead({table["tmsrc"][i].sink : i \in EventSinks}) = {}
    <2>1. \A i \in EventSinks : refs[table["tmsrc"][i].sink] > 0
      BY <1>5, LeafLives DEF EventSinks, Sources
    <2> QED
      BY <2>1 DEF Dead
  <1>7. HostKinds'
    BY <1>1, <1>2, <1>6 DEF ObjectsInv, ObjectKinds, HostKinds, registry
  <1>8. CountKinds'
    BY <1>2 DEF ObjectsInv, ObjectKinds, CountKinds
  <1>9. RegistryKinds' /\ Unmade' /\ Cookies'
    BY <1>1, <1>2 DEF ObjectsInv, ObjectKinds, RegistryKinds, Unmade, Cookies, CookiesExact, HostsCookie
  <1>10. Heard'
    BY <1>2 DEF Heard, EventSinks
  <1>11. Stages'
    BY <1>1, <1>2 DEF ObjectsInv, Stages
  <1>12. WrappersExact'
    <2>1. \A p : MainHas(8, p) = MainHas(7, p)
      BY DEF MainHas
    <2>2. \A q, p : Field(q, p)' = Field(q, p)
      BY <1>2 DEF Field
    <2> QED
      BY <1>1, <1>2, <2>1, <2>2 DEF ObjectsInv, WrappersExact
  <1>13. LeavesExact'
    BY <1>2, QuietLeaves
  <1>14. Untouched'
    <2>1. wild' = wild /\ active' = active /\ refs' = refs /\ held' = held
      BY <1>2, <1>6
    <2> QED
      BY <2>1, <1>1 DEF ObjectsInv, Untouched
  <1> QED
    BY <1>7, <1>8, <1>9, <1>10, <1>11, <1>12, <1>13, <1>14, AllHold

\* Who loaded the TIP is nobody's count.
LEMMA StepLoad == ASSUME ObjectsInv, ActivateLanguageProfile \/ LoadTip \/ DropTip PROVE ObjectsInv'
  <1>1. /\ UNCHANGED <<host, focus, made, refs, held, active, wild, calls>> /\ UNCHANGED registry
        /\ loaded' \in {"profile", "host", "gone"}
    BY DEF ActivateLanguageProfile, LoadTip, DropTip
  <1>2. HostKinds'
    BY <1>1 DEF ObjectsInv, ObjectKinds, HostKinds, registry
  <1>3. CountKinds'
    BY <1>1 DEF ObjectsInv, ObjectKinds, CountKinds
  <1>4. RegistryKinds' /\ Unmade' /\ Cookies' /\ Heard'
    BY <1>1, QuietRegistry
  <1>5. Stages' /\ WrappersExact' /\ Untouched'
    BY <1>1, QuietWrappers
  <1>6. LeavesExact'
    BY <1>1, QuietLeaves DEF registry
  <1> QED
    BY <1>2, <1>3, <1>4, <1>5, <1>6, AllHold

LEMMA StepDeactivateTip == ASSUME ObjectsInv, DeactivateTip PROVE ObjectsInv'
  <1>1. At[host] = 10 /\ At[host'] = 11 /\ host # "done" /\ host' \in Steps /\ host' # "done"
    BY StageIs DEF DeactivateTip, HostAt
  <1>2. UNCHANGED <<focus, made, refs, held, active, wild, calls>> /\ UNCHANGED registry /\ loaded' \in {"gone", loaded}
    BY DEF DeactivateTip, HostAt
  <1>3. HostKinds'
    BY <1>1, <1>2 DEF ObjectsInv, ObjectKinds, HostKinds, registry
  <1>4. CountKinds'
    BY <1>2 DEF ObjectsInv, ObjectKinds, CountKinds
  <1>5. RegistryKinds' /\ Unmade' /\ Cookies' /\ Heard'
    BY <1>1, <1>2, QuietRegistry
  <1>6. Stages'
    BY <1>1, <1>2 DEF ObjectsInv, Stages
  <1>7. WrappersExact'
    <2>1. \A p : MainHas(11, p) = MainHas(10, p)
      BY DEF MainHas
    <2>2. \A q, p : Field(q, p)' = Field(q, p)
      BY <1>2 DEF Field
    <2> QED
      BY <1>1, <1>2, <2>1, <2>2 DEF ObjectsInv, WrappersExact
  <1>8. LeavesExact'
    BY <1>2, QuietLeaves DEF registry
  <1>9. Untouched'
    BY <1>1, <1>2 DEF ObjectsInv, Untouched
  <1> QED
    BY <1>3, <1>4, <1>5, <1>6, <1>7, <1>8, <1>9, AllHold

-----------------------------------------------------------------------------
(***************************************************************************)
(* ShimObjects: what the TIP is handed.                                    *)
(***************************************************************************)
LEMMA TipIsUp ==
    ASSUME ObjectsInv, TipRuns
    PROVE  /\ At[host] \in 3..10 /\ host # "done"
           /\ refs["tm"] > 0 /\ "tm" \in made
           /\ \A o \in Wrappers : held[o] > 0 => o \in made /\ refs[o] > 0
           /\ held["doc"] > 0 \/ held["ctx"] > 0 => At[host] \in 7..10
  <1>1. At[host] \in 3..10
    BY StageIs DEF TipRuns, Between
  <1>2. host # "done"
    BY <1>1, StageOf
  <1>3. refs["tm"] > 0 /\ "tm" \in made /\ \A o \in Wrappers : held[o] > 0 => refs[o] > 0
    BY <1>1, <1>2, Living DEF ObjectsInv, Stages
  <1>4. /\ \A o \in Wrappers : held[o] > 0 => o \in made
        /\ held["doc"] > 0 \/ held["ctx"] > 0 => At[host] >= 7
    BY WrappersAre DEF ObjectsInv, Stages
  <1> QED
    BY <1>1, <1>2, <1>3, <1>4

LEMMA MadeIs ==
    ASSUME ObjectsInv, NEW o \in Wrappers
    PROVE  /\ Made(o) \in [Counted -> Nat]
           /\ Made(o)[o] = IF o \in made THEN refs[o] ELSE 1
           /\ \A p \in Counted : p # o => Made(o)[p] = refs[p]
  <1>1. refs \in [Counted -> Nat] /\ o \in Counted
    BY WrappersAre DEF ObjectsInv, ObjectKinds, CountKinds
  <1> QED
    BY <1>1 DEF Made

LEMMA HandIs ==
    ASSUME ObjectsInv, NEW rc \in [Counted -> Nat], NEW o \in Wrappers, Hand(rc, o), calls' = calls + 1
    PROVE  /\ refs' \in [Counted -> Nat] /\ refs'[o] = rc[o] + 1 /\ \A p \in Counted : p # o => refs'[p] = rc[p]
           /\ held' \in [Wrappers -> Nat] /\ held'[o] = held[o] + 1 /\ \A p \in Wrappers : p # o => held'[p] = held[p]
           /\ CountKinds'
  <1>1. o \in Counted /\ held \in [Wrappers -> Nat] /\ calls \in Nat /\ \A p \in Wrappers : held[p] <= calls
    BY WrappersAre, ShimConstants DEF ObjectsInv, ObjectKinds, CountKinds, HostKinds
  <1>2. refs' \in [Counted -> Nat] /\ refs'[o] = rc[o] + 1 /\ \A p \in Counted : p # o => refs'[p] = rc[p]
    BY <1>1 DEF Hand
  <1>3. held' \in [Wrappers -> Nat] /\ held'[o] = held[o] + 1 /\ \A p \in Wrappers : p # o => held'[p] = held[p]
    BY <1>1 DEF Hand
  <1>4. CountKinds'
    BY <1>1, <1>2, <1>3 DEF CountKinds
  <1> QED
    BY <1>2, <1>3, <1>4

\* Counts and the TIP's references move together.
LEMMA Balanced ==
    ASSUME ObjectsInv, UNCHANGED <<host, made>>, host # "done",
           \A p \in Wrappers : refs'[p] \in Nat /\ held'[p] \in Nat /\ refs'[p] - held'[p] = refs[p] - held[p],
           \A q \in {"ex", "tm", "ctx", "view", "composition"} : refs'[q] > 0 <=> refs[q] > 0
    PROVE  WrappersExact'
  <1>1. \A q \in {"ex", "tm", "ctx", "view", "composition"} : \A p : Field(q, p)' = Field(q, p)
    BY DEF Field
  <1>2. host # "done"
    OBVIOUS
  <1>4. \A p \in Wrappers : refs[p] \in Nat /\ held[p] \in Nat
    BY CountsAre
  <1>5. \A p \in Wrappers : refs'[p] \in Nat /\ held'[p] \in Nat
    OBVIOUS
  <1>6. ASSUME NEW p \in Wrappers, NEW k \in Nat, refs[p] = held[p] + k PROVE refs'[p] = held'[p] + k
    BY <1>4, <1>5, <1>6
  <1>7. WrappersExact /\ UNCHANGED host
    BY DEF ObjectsInv
  <1>8. \A n, p : MainHas(n, p) \in Nat
    BY DEF MainHas
  <1>9. \A q, p : Field(q, p) \in Nat
    BY DEF Field
  <1>10. refs'["ex"] = held'["ex"] /\ refs'["compartment"] = held'["compartment"]
    <2>1. \A p \in {"ex", "compartment"} : refs[p] = held[p] + 0
      BY <1>7, <1>4, WrappersAre DEF WrappersExact
    <2>2. \A p \in {"ex", "compartment"} : refs'[p] = held'[p] + 0
      BY <2>1, <1>6, WrappersAre
    <2> QED
      BY <2>2, <1>5, WrappersAre
  <1>11. \A p \in {"doc", "ctx"} : refs[p] = held[p] + MainHas(At[host], p)
    BY <1>7, <1>8, <1>2, <1>4, WrappersAre DEF WrappersExact
  <1>12. \A p \in {"doc", "ctx"} : refs'[p] = held'[p] + MainHas(At[host], p)
    <2> TAKE p \in {"doc", "ctx"}
    <2>1. PICK k \in Nat : k = MainHas(At[host], p)
      BY <1>8
    <2>2. p \in Wrappers /\ refs[p] = held[p] + k
      BY <2>1, <1>11, WrappersAre
    <2> QED
      BY <2>1, <2>2, <1>6
  <1>13. \A p \in {"tmsrc", "single", "provider"} : refs'[p] = held'[p] + Field("tm", p)
    <2> TAKE p \in {"tmsrc", "single", "provider"}
    <2>1. PICK k \in Nat : k = Field("tm", p)
      BY <1>9
    <2>2. p \in Wrappers /\ refs[p] = held[p] + k
      BY <2>1, <1>7, WrappersAre DEF WrappersExact
    <2> QED
      BY <2>1, <2>2, <1>6
  <1>14. \A p \in {"ctxsrc", "view", "composition"} : refs'[p] = held'[p] + Field("ctx", p)
    <2> TAKE p \in {"ctxsrc", "view", "composition"}
    <2>1. PICK k \in Nat : k = Field("ctx", p)
      BY <1>9
    <2>2. p \in Wrappers /\ refs[p] = held[p] + k
      BY <2>1, <1>7, WrappersAre DEF WrappersExact
    <2> QED
      BY <2>1, <2>2, <1>6
  <1>15. refs'["tm"] = held'["tm"] + (MainHas(At[host], "tm") + Field("ex", "tm"))
    <2>1. refs["tm"] = held["tm"] + (MainHas(At[host], "tm") + Field("ex", "tm"))
      BY <1>7, <1>8, <1>9, <1>4, WrappersAre DEF WrappersExact
    <2>2. PICK k \in Nat : k = MainHas(At[host], "tm") + Field("ex", "tm")
      BY <1>8, <1>9
    <2> QED
      BY <2>1, <2>2, <1>6, WrappersAre
  <1>16. refs'["km"] = held'["km"] + (MainHas(At[host], "km") + Field("tm", "km"))
    <2>1. refs["km"] = held["km"] + (MainHas(At[host], "km") + Field("tm", "km"))
      BY <1>7, <1>8, <1>9, <1>4, WrappersAre DEF WrappersExact
    <2>2. PICK k \in Nat : k = MainHas(At[host], "km") + Field("tm", "km")
      BY <1>8, <1>9
    <2> QED
      BY <2>1, <2>2, <1>6, WrappersAre
  <1>17. refs'["range"] = held'["range"] + (Field("ctx", "range") + Field("view", "range") + Field("composition", "range"))
    <2>1. refs["range"] = held["range"] + (Field("ctx", "range") + Field("view", "range") + Field("composition", "range"))
      BY <1>7, <1>9, <1>4, WrappersAre DEF WrappersExact
    <2>2. PICK k \in Nat : k = Field("ctx", "range") + Field("view", "range") + Field("composition", "range")
      BY <1>9
    <2> QED
      BY <2>1, <2>2, <1>6, WrappersAre
  <1>18. At[host'] = At[host] /\ \A p \in Wrappers : held'[p] \in Nat
    BY <1>5, <1>7
  <1> HIDE <1>6
  <1> QED
    <2>1. \A p \in Wrappers : held'[p] \in Nat
      BY <1>18
    <2>2. /\ refs'["tm"] = MainHas(At[host'], "tm") + held'["tm"] + Field("ex", "tm")'
          /\ refs'["km"] = MainHas(At[host'], "km") + held'["km"] + Field("tm", "km")'
      BY <2>1, <1>1, <1>8, <1>9, <1>15, <1>16, <1>18, WrappersAre
    <2>3. refs'["doc"] = MainHas(At[host'], "doc") + held'["doc"] /\ refs'["ctx"] = MainHas(At[host'], "ctx") + held'["ctx"]
      BY <2>1, <1>8, <1>12, <1>18, WrappersAre
    <2>4. /\ \A p \in {"tmsrc", "single", "provider"} : refs'[p] = held'[p] + Field("tm", p)'
          /\ \A p \in {"ctxsrc", "view", "composition"} : refs'[p] = held'[p] + Field("ctx", p)'
      BY <1>1, <1>13, <1>14
    <2>5. refs'["range"] = held'["range"] + Field("ctx", "range")' + Field("view", "range")' + Field("composition", "range")'
      BY <2>1, <1>1, <1>9, <1>17, WrappersAre
    <2> QED
      BY <1>10, <2>2, <2>3, <2>4, <2>5 DEF WrappersExact

\* One more reference to what is there, or to what the thread manager keeps from now on.
LEMMA Handed ==
    ASSUME ObjectsInv, Calls, UNCHANGED hostUnchanged, UNCHANGED registry, UNCHANGED <<active, wild>>,
           NEW o \in Wrappers, made' = made \cup {o}, Hand(Made(o), o),
           (o \in made /\ refs[o] > 0) \/ (o \notin made /\ o \in {"tmsrc", "single", "km"}),
           o \in {"doc", "ctx", "ctxsrc", "view", "composition", "range"} => At[host] >= 7
    PROVE  ObjectsInv'
  <1>1. UNCHANGED <<host, loaded, focus>> /\ calls' = calls + 1 /\ calls < MaxCalls /\ TipRuns
    BY DEF Calls, hostUnchanged
  <1>2. At[host] \in 3..10 /\ host # "done" /\ refs["tm"] > 0 /\ "tm" \in made
    BY <1>1, TipIsUp
  <1>3. /\ Made(o) \in [Counted -> Nat]
        /\ Made(o)[o] = IF o \in made THEN refs[o] ELSE 1
        /\ \A p \in Counted : p # o => Made(o)[p] = refs[p]
    BY MadeIs
  <1>4. /\ refs' \in [Counted -> Nat] /\ refs'[o] = Made(o)[o] + 1 /\ \A p \in Counted : p # o => refs'[p] = Made(o)[p]
        /\ held' \in [Wrappers -> Nat] /\ held'[o] = held[o] + 1 /\ \A p \in Wrappers : p # o => held'[p] = held[p]
        /\ CountKinds'
    BY <1>1, <1>3, HandIs
  <1>5. refs'[o] = IF o \in made THEN refs[o] + 1 ELSE 2
    BY <1>3, <1>4
  <1>6. \A p \in Counted : p # o => refs'[p] = refs[p]
    BY <1>3, <1>4
  <1>7. HostKinds'
    BY <1>1, ShimConstants DEF ObjectsInv, ObjectKinds, HostKinds, registry
  <1>8. RegistryKinds' /\ Unmade' /\ Cookies' /\ Heard'
    BY <1>1, QuietRegistry
  <1>9. \A p \in Wrappers : refs[p] \in Nat /\ held[p] \in Nat
    BY CountsAre
  <1>10. Stages'
    BY <1>1, <1>2, <1>4, <1>9, WrappersAre DEF ObjectsInv, Stages
  <1>11. \A q \in Wrappers : q \in made => (refs'[q] > 0 <=> refs[q] > 0)
    BY <1>5, <1>6, <1>9, WrappersAre
  <1>12. WrappersExact'
    <2>1. \A q \in {"ex", "tm", "ctx", "view", "composition"} : refs'[q] > 0 <=> refs[q] > 0
      BY <1>5, <1>6, <1>9, WrappersAre
    <2>2. \A q \in {"ex", "tm", "ctx", "view", "composition"} : \A p : p # o => Field(q, p)' = Field(q, p)
      BY <2>1 DEF Field
    <2>3. CASE o \in made
      <3>1. \A p \in Wrappers : p # o => refs'[p] = refs[p] /\ held'[p] = held[p]
        BY <1>4, <1>6, WrappersAre
      <3>2. refs'[o] = refs[o] + 1 /\ held'[o] = held[o] + 1
        BY <2>3, <1>4, <1>5
      <3>3. made' = made
        BY <2>3
      <3>4. \A p \in Wrappers : refs'[p] - held'[p] = refs[p] - held[p]
        BY <3>1, <3>2, <1>9
      <3>5. \A p \in Wrappers : refs'[p] \in Nat /\ held'[p] \in Nat
        BY <1>4, WrappersAre
      <3> QED
        BY <2>1, <3>3, <3>4, <3>5, <1>1, <1>2, Balanced
    <2>4. CASE o \notin made
      <3>1. o \in {"tmsrc", "single", "km"}
        BY <2>4
      <3>2. refs[o] = 0 /\ held[o] = 0 /\ refs'[o] = 2 /\ held'[o] = 1
        BY <2>4, <1>2, <1>4, <1>5, FreshAreFree
      <3>3. Field("tm", o)' = 1
        BY <1>2, <1>6, <3>1, WrappersAre DEF Field
      <3>4. o = "km" => MainHas(At[host], "km") = 0
        BY <2>4, StageOf DEF ObjectsInv, Stages, MainHas
      <3>5. \A p \in Wrappers : p # o => refs'[p] = refs[p] /\ held'[p] = held[p]
        BY <1>4, <1>6, WrappersAre
      <3> QED
        BY <2>2, <3>1, <3>2, <3>3, <3>4, <3>5, <1>1, WrappersAre DEF ObjectsInv, WrappersExact
    <2> QED
      BY <2>3, <2>4
  <1>13. LeavesExact'
    <2>1. \A p \in Leaves : refs'[p] = refs[p]
      BY <1>6, WrappersAre DEF Counted
    <2>2. \A q \in Owners : q \notin made \/ (refs'[q] > 0 <=> refs[q] > 0)
      BY <1>11, WrappersAre
    <2> QED
      BY <2>1, <2>2, QuietLeaves DEF registry
  <1>14. Untouched'
    <2>1. "ctx" \in active => refs'["ctx"] > 0
      BY <1>5, <1>6, <1>9, WrappersAre DEF ObjectsInv, Untouched
    <2> QED
      BY <2>1, <1>1, <1>2 DEF ObjectsInv, Untouched
  <1> QED
    BY <1>4, <1>7, <1>8, <1>10, <1>12, <1>13, <1>14, AllHold

LEMMA StepQueryThreadMgr ==
    ASSUME ObjectsInv, NEW o \in {"tm", "tmsrc", "single", "km"}, QueryThreadMgr(o) PROVE ObjectsInv'
  <1>1. TipRuns /\ o \in Wrappers
    BY WrappersAre DEF QueryThreadMgr, Calls
  <1>2. refs["tm"] > 0 /\ "tm" \in made
    BY <1>1, TipIsUp
  <1>3. o \in made => refs[o] > 0
    BY <1>2, Living
  <1>4. (o \in made /\ refs[o] > 0) \/ (o \notin made /\ o \in {"tmsrc", "single", "km"})
    BY <1>2, <1>3
  <1> QED
    BY <1>1, <1>4, Handed DEF QueryThreadMgr

LEMMA NobodyDied ==
    ASSUME ObjectsInv, NEW S \in SUBSET Counted, \A p \in S : refs[p] > 0
    PROVE  Dead(S) = {} /\ wild \cup Dead(S) = wild
  BY CountsAre DEF Dead

LEMMA StepGetFocus == ASSUME ObjectsInv, GetFocus PROVE ObjectsInv'
  <1>1. TipRuns /\ focus /\ "doc" \in Wrappers
    BY WrappersAre DEF GetFocus, Calls
  <1>2. At[host] \in 3..10
    BY <1>1, TipIsUp
  <1>3. At[host] >= 7 /\ "doc" \in made
    BY <1>1, <1>2 DEF ObjectsInv, Stages
  <1>4. refs["doc"] > 0
    BY <1>2, <1>3, Living
  <1>5. Dead({"doc"}) = {}
    BY <1>1, <1>4, NobodyDied, WrappersAre
  <1>6. Made("doc") = refs /\ made' = made \cup {"doc"} /\ wild' = wild
    BY <1>3, <1>5 DEF Made, GetFocus
  <1> QED
    BY <1>1, <1>3, <1>4, <1>6, Handed DEF GetFocus

LEMMA StepGetTop == ASSUME ObjectsInv, GetTop PROVE ObjectsInv'
  <1>1. TipRuns /\ held["doc"] > 0 /\ "doc" \in Wrappers /\ "ctx" \in Wrappers
    BY WrappersAre DEF GetTop, Calls
  <1>2. At[host] \in 7..10
    BY <1>1, TipIsUp
  <1>3. "ctx" \in made
    BY <1>2 DEF ObjectsInv, Stages
  <1>4. refs["doc"] > 0 /\ refs["ctx"] > 0
    BY <1>2, Living
  <1>5. Dead({"doc", "ctx"}) = {}
    BY <1>1, <1>4, NobodyDied, WrappersAre
  <1>6. Made("ctx") = refs /\ made' = made \cup {"ctx"} /\ wild' = wild
    BY <1>3, <1>5 DEF Made, GetTop
  <1> QED
    BY <1>1, <1>2, <1>3, <1>4, <1>6, Handed DEF GetTop

LEMMA StepQueryContextSource == ASSUME ObjectsInv, QueryContextSource PROVE ObjectsInv'
  <1>1. TipRuns /\ held["ctx"] > 0 /\ "ctxsrc" \in Wrappers
    BY WrappersAre DEF QueryContextSource, Calls
  <1>2. At[host] \in 7..10
    BY <1>1, TipIsUp
  <1>3. "ctxsrc" \in made
    BY <1>2 DEF ObjectsInv, Stages
  <1>4. refs["ctxsrc"] > 0
    BY <1>2, <1>3, Living
  <1> QED
    BY <1>1, <1>2, <1>3, <1>4, Handed DEF QueryContextSource

LEMMA StepGetRange == ASSUME ObjectsInv, GetRange PROVE ObjectsInv'
  <1>1. TipRuns /\ held["ctx"] > 0 /\ "range" \in Wrappers
    BY WrappersAre DEF GetRange, Calls
  <1>2. At[host] \in 7..10
    BY <1>1, TipIsUp
  <1>3. "range" \in made
    BY <1>2 DEF ObjectsInv, Stages
  <1>4. refs["range"] > 0
    BY <1>2, <1>3, Living
  <1>5. Made("range") = refs /\ made' = made \cup {"range"}
    BY <1>3 DEF Made, GetRange
  <1> QED
    BY <1>1, <1>2, <1>3, <1>4, <1>5, Handed DEF GetRange

LEMMA StepQueryThreadMgrEx == ASSUME ObjectsInv, QueryThreadMgrEx PROVE ObjectsInv'
  <1>0. "ex" \in Wrappers /\ "tm" \in Wrappers /\ "ex" \in Counted /\ "tm" \in Counted
    BY WrappersAre
  <1>1. TipRuns /\ calls' = calls + 1 /\ calls < MaxCalls /\ UNCHANGED <<host, loaded, focus>>
        /\ UNCHANGED registry /\ UNCHANGED <<active, wild>> /\ made' = made \cup {"ex"}
    BY DEF QueryThreadMgrEx, Calls, hostUnchanged
  <1>2. At[host] \in 3..10 /\ host # "done" /\ refs["tm"] > 0 /\ "tm" \in made
    BY <1>1, TipIsUp
  <1>3. \A p \in Wrappers : refs[p] \in Nat /\ held[p] \in Nat
    BY CountsAre
  <1>4. refs["ex"] = held["ex"]
    BY DEF ObjectsInv, WrappersExact
  <1>5. CASE refs["ex"] > 0
    <2>1. "ex" \in made
      BY <1>0, <1>4, <1>5 DEF ObjectsInv, Stages
    <2>2. Made("ex") = refs /\ Hand(refs, "ex")
      BY <2>1, <1>5 DEF Made, QueryThreadMgrEx
    <2> QED
      BY <1>0, <1>5, <2>1, <2>2, Handed DEF QueryThreadMgrEx
  <1>6. CASE refs["ex"] = 0
    <2> DEFINE rc == [refs EXCEPT !["tm"] = @ + 1]
    <2>1. rc \in [Counted -> Nat] /\ rc["tm"] = refs["tm"] + 1 /\ \A p \in Counted : p # "tm" => rc[p] = refs[p]
      BY <1>0 DEF ObjectsInv, ObjectKinds, CountKinds
    <2>2. Hand(rc, "ex")
      BY <1>6 DEF QueryThreadMgrEx
    <2> HIDE DEF rc
    <2>3. /\ refs' \in [Counted -> Nat] /\ refs'["ex"] = rc["ex"] + 1 /\ \A p \in Counted : p # "ex" => refs'[p] = rc[p]
          /\ held' \in [Wrappers -> Nat] /\ held'["ex"] = held["ex"] + 1
          /\ \A p \in Wrappers : p # "ex" => held'[p] = held[p]
          /\ CountKinds'
      BY <1>0, <1>1, <2>1, <2>2, HandIs
    <2>4. refs'["ex"] = 1 /\ refs'["tm"] = refs["tm"] + 1 /\ held'["ex"] = 1 /\ held["ex"] = 0
          /\ \A p \in Counted : p \notin {"ex", "tm"} => refs'[p] = refs[p]
      <3>1. rc["ex"] = 0 /\ held["ex"] = 0
        BY <1>0, <1>4, <1>6, <2>1
      <3>2. refs'["tm"] = rc["tm"]
        BY <1>0, <2>3
      <3>3. \A p \in Counted : p \notin {"ex", "tm"} => refs'[p] = refs[p]
        BY <2>1, <2>3
      <3> QED
        BY <2>1, <2>3, <3>1, <3>2, <3>3
    <2>5. HostKinds'
      BY <1>0, <1>1, ShimConstants DEF ObjectsInv, ObjectKinds, HostKinds, registry
    <2>6. RegistryKinds' /\ Unmade' /\ Cookies' /\ Heard'
      BY <1>1, QuietRegistry
    <2>7. Stages'
      BY <1>1, <1>2, <2>3, <2>4, WrappersAre DEF ObjectsInv, Stages
    <2>8. WrappersExact'
      <3>1. \A p \in Wrappers : p \notin {"ex", "tm"} => refs'[p] = refs[p] /\ held'[p] = held[p]
        BY <2>3, <2>4, WrappersAre
      <3>2. \A q \in {"tm", "ctx", "view", "composition"} : \A p : p # "ex" => Field(q, p)' = Field(q, p)
        BY <1>0, <1>1, <1>2, <1>3, <2>4, <3>1, WrappersAre DEF Field
      <3>3. Field("ex", "tm") = 0 /\ Field("ex", "tm")' = 1
        BY <1>1, <1>2, <1>6, <2>4 DEF Field
      <3>4. held'["tm"] = held["tm"]
        BY <1>0, <2>3
      <3> QED
        BY <1>0, <1>1, <1>2, <1>3, <2>4, <3>1, <3>2, <3>3, <3>4, WrappersAre, MainsShare
        DEF ObjectsInv, WrappersExact
    <2>9. LeavesExact'
      <3>1. \A p \in Leaves : refs'[p] = refs[p]
        BY <2>4, WrappersAre DEF Counted
      <3>2. \A q \in Owners : refs'[q] > 0 <=> refs[q] > 0
        BY <1>2, <1>3, <2>4, WrappersAre DEF Owners
      <3> QED
        BY <1>1, <3>1, <3>2, QuietLeaves DEF registry
    <2>10. Untouched'
      <3>1. refs'["ctx"] = refs["ctx"]
        BY <2>4, WrappersAre
      <3> QED
        BY <3>1, <1>1, <1>2 DEF ObjectsInv, Untouched
    <2> QED
      BY <2>3, <2>5, <2>6, <2>7, <2>8, <2>9, <2>10, AllHold
  <1> QED
    BY <1>0, <1>3, <1>5, <1>6

LEMMA StepQueryKeystrokeMgr == ASSUME ObjectsInv, QueryKeystrokeMgr PROVE ObjectsInv'
  <1>1. At[host] = 8 /\ At[host'] = 9 /\ host # "done" /\ host' \in Steps /\ host' # "done"
    BY StageIs DEF QueryKeystrokeMgr, HostAt
  <1>2. /\ UNCHANGED <<loaded, focus, held, active, wild, calls>> /\ UNCHANGED registry
        /\ made' = made \cup {"km"} /\ refs' = [Made("km") EXCEPT !["km"] = @ + 1]
    BY DEF QueryKeystrokeMgr, HostAt
  <1>3. /\ Made("km") \in [Counted -> Nat]
        /\ Made("km")["km"] = IF "km" \in made THEN refs["km"] ELSE 1
        /\ \A p \in Counted : p # "km" => Made("km")[p] = refs[p]
        /\ "km" \in Wrappers /\ "km" \in Counted
    BY MadeIs, WrappersAre
  <1>4. /\ refs' \in [Counted -> Nat] /\ refs'["km"] = IF "km" \in made THEN refs["km"] + 1 ELSE 2
        /\ \A p \in Counted : p # "km" => refs'[p] = refs[p]
    BY <1>2, <1>3
  <1>5. refs["tm"] > 0 /\ ("km" \in made => refs["km"] > 0) /\ ("km" \notin made => refs["km"] = 0 /\ held["km"] = 0)
    BY <1>1, <1>3, Living, FreshAreFree
  <1>6. HostKinds'
    BY <1>1, <1>2, <1>3 DEF ObjectsInv, ObjectKinds, HostKinds, registry
  <1>7. CountKinds'
    BY <1>2, <1>4 DEF ObjectsInv, ObjectKinds, CountKinds
  <1>8. RegistryKinds' /\ Unmade' /\ Cookies' /\ Heard'
    BY <1>1, <1>2, QuietRegistry
  <1>9. Stages'
    BY <1>1, <1>2, WrappersAre DEF ObjectsInv, Stages
  <1>10. \A p \in Wrappers : p # "km" => refs'[p] = refs[p]
    BY <1>4, WrappersAre
  <1>11. WrappersExact'
    <2>1. \A q \in {"ex", "tm", "ctx", "view", "composition"} : \A p : p # "km" => Field(q, p)' = Field(q, p)
      BY <1>2, <1>10, WrappersAre DEF Field
    <2>2. Field("tm", "km")' = 1 /\ ("km" \in made => Field("tm", "km") = 1)
      BY <1>2, <1>5, <1>10, WrappersAre DEF Field
    <2>3. MainHas(9, "km") = 1 /\ MainHas(8, "km") = 0 /\ \A p : p # "km" => MainHas(9, p) = MainHas(8, p)
      BY DEF MainHas
    <2>4. refs["km"] \in Nat /\ held["km"] \in Nat
      BY <1>3, CountsAre
    <2>5. refs'["km"] = MainHas(At[host'], "km") + held'["km"] + Field("tm", "km")'
      BY <1>1, <1>2, <1>4, <1>5, <2>2, <2>3, <2>4 DEF ObjectsInv, WrappersExact
    <2> QED
      BY <1>1, <1>2, <1>10, <2>1, <2>3, <2>5, WrappersAre DEF ObjectsInv, WrappersExact
  <1>12. LeavesExact'
    <2>1. \A p \in Leaves : refs'[p] = refs[p]
      BY <1>4, WrappersAre DEF Counted
    <2>2. \A q \in Owners : q \notin made \/ (refs'[q] > 0 <=> refs[q] > 0)
      <3>1. \A q \in Owners : q # "km" => refs'[q] = refs[q]
        BY <1>10, WrappersAre
      <3>2. "km" \in made => refs'["km"] > 0 /\ refs["km"] > 0
        BY <1>3, <1>4, <1>5, CountsAre
      <3> QED
        BY <3>1, <3>2
    <2> QED
      BY <1>2, <2>1, <2>2, QuietLeaves DEF registry
  <1>13. Untouched'
    <2>1. refs'["ctx"] = refs["ctx"]
      BY <1>10, WrappersAre
    <2> QED
      BY <2>1, <1>1, <1>2 DEF ObjectsInv, Untouched
  <1> QED
    BY <1>6, <1>7, <1>8, <1>9, <1>11, <1>12, <1>13, AllHold

LEMMA StepGetFunctionProvider == ASSUME ObjectsInv, GetFunctionProvider PROVE ObjectsInv'
  <1>1. host = "up" /\ At[host] = 9 /\ host # "done"
    BY StageIs DEF GetFunctionProvider
  <1>2. UNCHANGED <<host, loaded, focus, held, active, calls>> /\ UNCHANGED registry
    BY DEF GetFunctionProvider, hostUnchanged
  <1>3. refs["tm"] > 0
    BY <1>1, Living
  <1>4. wild' = wild /\ (UNCHANGED <<made, refs>> \/ (made' = made \cup {"provider"} /\ refs' = Made("provider")))
    <2>1. CASE slot["tm"] # None
      <3>1. refs[slot["tm"]] > 0
        BY <1>3, <2>1, LeafLives DEF Slotted
      <3>2. Dead({slot["tm"]}) = {}
        BY <3>1 DEF Dead
      <3> QED
        BY <2>1, <3>2 DEF GetFunctionProvider
    <2>2. CASE slot["tm"] = None
      BY <2>2 DEF GetFunctionProvider
    <2> QED
      BY <2>1, <2>2
  <1>5. /\ Made("provider") \in [Counted -> Nat]
        /\ Made("provider")["provider"] = IF "provider" \in made THEN refs["provider"] ELSE 1
        /\ \A p \in Counted : p # "provider" => Made("provider")[p] = refs[p]
        /\ "provider" \in Wrappers /\ "provider" \in Counted
    BY MadeIs, WrappersAre
  <1>6. /\ refs' \in [Counted -> Nat] /\ \A p \in Counted : p # "provider" => refs'[p] = refs[p]
        /\ made' \in SUBSET Wrappers /\ made \subseteq made' /\ \A p : p # "provider" => (p \in made' <=> p \in made)
    BY <1>4, <1>5 DEF ObjectsInv, ObjectKinds, HostKinds, CountKinds
  <1>7. HostKinds'
    BY <1>2, <1>4, <1>6 DEF ObjectsInv, ObjectKinds, HostKinds, registry
  <1>8. CountKinds'
    BY <1>2, <1>6 DEF ObjectsInv, ObjectKinds, CountKinds
  <1>9. RegistryKinds' /\ Unmade' /\ Cookies' /\ Heard'
    BY <1>2, <1>6, QuietRegistry
  <1>10. Stages'
    BY <1>1, <1>2, <1>6, WrappersAre DEF ObjectsInv, Stages
  <1>11. \A p \in Wrappers : p # "provider" => refs'[p] = refs[p]
    BY <1>6, WrappersAre
  <1>12. WrappersExact'
    <2>1. \A q \in {"ex", "tm", "ctx", "view", "composition"} : \A p : p # "provider" => Field(q, p)' = Field(q, p)
      BY <1>6, <1>11, WrappersAre DEF Field
    <2>2. refs'["provider"] = held'["provider"] + Field("tm", "provider")'
      <3>1. refs["provider"] = held["provider"] + Field("tm", "provider")
        BY DEF ObjectsInv, WrappersExact
      <3>2. CASE UNCHANGED <<made, refs>>
        BY <3>1, <3>2, <1>2 DEF Field
      <3>3. CASE "provider" \in made /\ made' = made \cup {"provider"} /\ refs' = Made("provider")
        BY <3>1, <3>3, <1>2 DEF Field, Made
      <3>4. CASE "provider" \notin made /\ made' = made \cup {"provider"} /\ refs' = Made("provider")
        <4>1. held["provider"] = 0 /\ refs'["provider"] = 1 /\ refs'["tm"] > 0
          BY <3>4, <1>1, <1>3, <1>5, <1>11, FreshAreFree, WrappersAre
        <4>2. Field("tm", "provider")' = 1
          BY <4>1, <3>4 DEF Field
        <4> QED
          BY <4>1, <4>2, <1>2
      <3> QED
        BY <1>4, <3>2, <3>3, <3>4
    <2> QED
      BY <1>2, <1>11, <2>1, <2>2, WrappersAre DEF ObjectsInv, WrappersExact
  <1>13. LeavesExact'
    <2>1. \A p \in Leaves : refs'[p] = refs[p]
      BY <1>6, WrappersAre DEF Counted
    <2>2. \A q \in Owners : refs'[q] = refs[q]
      BY <1>11, WrappersAre DEF Owners
    <2> QED
      BY <1>2, <2>1, <2>2, QuietLeaves DEF registry
  <1>14. Untouched'
    <2>1. refs'["ctx"] = refs["ctx"]
      BY <1>11, WrappersAre
    <2> QED
      BY <2>1, <1>1, <1>2, <1>4 DEF ObjectsInv, Untouched
  <1> QED
    BY <1>7, <1>8, <1>9, <1>10, <1>12, <1>13, <1>14, AllHold

\* Those a key and a change of a range go through are alive.
LEMMA StepKeyDown == ASSUME ObjectsInv, KeyDown \/ UseRange PROVE ObjectsInv'
  <1>1. UNCHANGED <<host, loaded, focus, made, refs, held, active, calls>> /\ UNCHANGED registry
    BY DEF KeyDown, UseRange, Returns, hostUnchanged
  <1>2. wild' = wild
    <2>1. CASE KeyDown
      <3>1. At[host] = 9 /\ KeyTarget # None
        BY <2>1, StageIs DEF KeyDown
      <3>2. refs["km"] > 0 /\ refs["ctx"] > 0
        BY <3>1, Living
      <3>3. refs[KeyTarget] > 0
        BY <3>1, <3>2, LeafLives DEF KeyTarget, Slotted
      <3>4. Dead({KeyTarget, "km"} \cup (active \cap {"ctx"})) = {}
        BY <3>2, <3>3 DEF Dead
      <3> QED
        BY <2>1, <3>4 DEF KeyDown
    <2>2. CASE UseRange
      <3>1. TipRuns /\ held["range"] + held["composition"] > 0
        BY <2>2 DEF UseRange, Returns
      <3>2. held["range"] \in Nat /\ held["composition"] \in Nat
        BY CountsAre, WrappersAre
      <3>3. held["range"] > 0 \/ held["composition"] > 0
        BY <3>1, <3>2
      <3>4. At[host] \in 7..10
        BY <3>1, <3>3, TipIsUp DEF ObjectsInv, Stages
      <3>5. refs["ctx"] > 0
        BY <3>4, Living
      <3>6. Dead({"ctx"}) = {}
        BY <3>5 DEF Dead
      <3> QED
        BY <2>2, <3>6 DEF UseRange
    <2> QED
      BY <2>1, <2>2
  <1>3. HostKinds'
    BY <1>1, <1>2 DEF ObjectsInv, ObjectKinds, HostKinds, registry
  <1>4. CountKinds'
    BY <1>1 DEF ObjectsInv, ObjectKinds, CountKinds
  <1>5. RegistryKinds' /\ Unmade' /\ Cookies' /\ Heard'
    BY <1>1, QuietRegistry
  <1>6. Stages' /\ WrappersExact' /\ Untouched'
    BY <1>1, <1>2, QuietWrappers
  <1>7. LeavesExact'
    BY <1>1, QuietLeaves DEF registry
  <1> QED
    BY <1>3, <1>4, <1>5, <1>6, <1>7, AllHold

-----------------------------------------------------------------------------
(***************************************************************************)
(* ShimObjects: single sinks and the items of the language bar.            *)
(***************************************************************************)
LEMMA SwapIs ==
    ASSUME NEW rc \in [Counted -> Int], NEW old, NEW new
    PROVE  /\ Swap(rc, old, new) \in [Counted -> Int]
           /\ \A p \in Counted : Swap(rc, old, new)[p] =
                  rc[p] - (IF p = old THEN 1 ELSE 0) + (IF p = new THEN 1 ELSE 0)
           /\ old \notin Wrappers /\ new \notin Wrappers => \A o \in Wrappers : Swap(rc, old, new)[o] = rc[o]
  <1>1. \A p \in Counted : Swap(rc, old, new)[p] = rc[p] - (IF p = old THEN 1 ELSE 0) + (IF p = new THEN 1 ELSE 0)
    BY DEF Swap, One
  <1>2. Swap(rc, old, new) \in [Counted -> Int]
    BY DEF Swap, One
  <1>3. old \notin Wrappers /\ new \notin Wrappers => \A o \in Wrappers : Swap(rc, old, new)[o] = rc[o]
    BY <1>1, WrappersAre
  <1> QED
    BY <1>1, <1>2, <1>3

\* A slot that takes s gives up what it had.
LEMMA SlotTaken ==
    ASSUME RegistryKinds, NEW o \in Slotted, refs[o] > 0, NEW p,
           NEW sl, NEW sm, \A q \in Slotted \ {o} : sm[q] = sl[q]
    PROVE  FieldsTo(refs, sm, first, table, p) =
               FieldsTo(refs, sl, first, table, p) - (IF p = sl[o] THEN 1 ELSE 0) + (IF p = sm[o] THEN 1 ELSE 0)
  <1>1. \A q \in Slotted : q # o => sm[q] = sl[q]
    OBVIOUS
  <1>2. \A q \in Slotted : q # o => Share(refs, sm, q, p) = Share(refs, sl, q, p)
    BY <1>1 DEF Share
  <1>3. Share(refs, sl, o, p) = IF p = sl[o] THEN 1 ELSE 0
    BY DEF Share
  <1>4. Share(refs, sm, o, p) = IF p = sm[o] THEN 1 ELSE 0
    BY <1>1 DEF Share
  <1>5. \A q \in Slotted : Share(refs, sl, q, p) \in Nat /\ Share(refs, sm, q, p) \in Nat
    BY DEF Share
  <1>6. SourceShare(refs, first, table, "tmsrc", p) \in Nat /\ SourceShare(refs, first, table, "ctxsrc", p) \in Nat
    BY SharesAre DEF Sources
  <1>7. FieldsTo(refs, sm, first, table, p) = FieldsTo(refs, sl, first, table, p) - (IF p = sl[o] THEN 1 ELSE 0) + (IF p = sm[o] THEN 1 ELSE 0)
    <2>1. /\ FieldsTo(refs, sm, first, table, p) =
                Share(refs, sm, "tm", p) + Share(refs, sm, "single", p) + Share(refs, sm, "km", p)
                  + Share(refs, sm, "composition", p) + Share(refs, sm, "compartment", p)
                  + SourceShare(refs, first, table, "tmsrc", p) + SourceShare(refs, first, table, "ctxsrc", p)
          /\ FieldsTo(refs, sl, first, table, p) =
                Share(refs, sl, "tm", p) + Share(refs, sl, "single", p) + Share(refs, sl, "km", p)
                  + Share(refs, sl, "composition", p) + Share(refs, sl, "compartment", p)
                  + SourceShare(refs, first, table, "tmsrc", p) + SourceShare(refs, first, table, "ctxsrc", p)
      BY FieldsAreShares
    <2>2. o \in {"tm", "single", "km", "composition", "compartment"}
      BY DEF Slotted
    <2> QED
      BY <1>2, <1>3, <1>4, <1>5, <1>6, <2>1, <2>2 DEF Slotted
  <1> QED
    BY <1>7

LEMMA SameOwners ==
    ASSUME NEW rf, NEW rg, \A o \in Owners : rf[o] > 0 <=> rg[o] > 0, NEW sl, NEW fs, NEW tb, NEW p
    PROVE  FieldsTo(rf, sl, fs, tb, p) = FieldsTo(rg, sl, fs, tb, p)
  <1>1. \A o \in {"tm", "single", "km", "composition", "compartment"} : Share(rf, sl, o, p) = Share(rg, sl, o, p)
    BY DEF Share, Owners
  <1>2. \A t \in {"tmsrc", "ctxsrc"} : SourceShare(rf, fs, tb, t, p) = SourceShare(rg, fs, tb, t, p)
    BY DEF SourceShare, Owners
  <1> QED
    BY <1>1, <1>2, FieldsAreShares

LEMMA GlobalsAre ==
    ASSUME RegistryKinds, NEW p, NEW g, NEW it
    PROVE  /\ GlobalsTo(g, table, items, p) =
                  GlobalsTo(g_key_sink, table, items, p) - (IF p = g_key_sink THEN 1 ELSE 0) + (IF p = g THEN 1 ELSE 0)
           /\ items = <<>> => GlobalsTo(g_key_sink, table, <<it>>, p) =
                  GlobalsTo(g_key_sink, table, items, p) + (IF p = it THEN 1 ELSE 0)
           /\ items # <<>> => GlobalsTo(g_key_sink, table, <<>>, p) =
                  GlobalsTo(g_key_sink, table, items, p) - (IF p = items[1] THEN 1 ELSE 0)
  <1>1. Listings(table["bar"], p) \in Nat
    BY SharesAre DEF Tables
  <1>2. GlobalsTo(g, table, items, p) =
            GlobalsTo(g_key_sink, table, items, p) - (IF p = g_key_sink THEN 1 ELSE 0) + (IF p = g THEN 1 ELSE 0)
    BY <1>1 DEF GlobalsTo
  <1>3. items = <<>> => GlobalsTo(g_key_sink, table, <<it>>, p) =
            GlobalsTo(g_key_sink, table, items, p) + (IF p = it THEN 1 ELSE 0)
    <2>1. <<it>> # <<>> /\ <<it>>[1] = it
      OBVIOUS
    <2> QED
      BY <1>1, <2>1 DEF GlobalsTo
  <1>4. items # <<>> => GlobalsTo(g_key_sink, table, <<>>, p) =
            GlobalsTo(g_key_sink, table, items, p) - (IF p = items[1] THEN 1 ELSE 0)
    BY <1>1 DEF GlobalsTo
  <1> QED
    BY <1>2, <1>3, <1>4

\* Only sinks change hands.
LEMMA Rewired ==
    ASSUME ObjectsInv,
           UNCHANGED <<host, loaded, focus, made, held, table, first, next, told, given, active, wild>>,
           calls' \in {calls, calls + 1}, calls' <= MaxCalls,
           refs' \in [Counted -> Int], \A o \in Wrappers : refs'[o] = refs[o],
           slot' \in [Slotted -> Sinks \cup {None}], \A o \in Slotted \ made : slot'[o] = None,
           g_key_sink' \in Sinks \cup {None}, items' \in Seq(Items), Len(items') <= 1,
           \A p \in Leaves : refs'[p] = GlobalsTo(g_key_sink', table, items', p) + FieldsTo(refs, slot', first, table, p)
    PROVE  ObjectsInv'
  <1>1. HostKinds'
    BY ShimConstants DEF ObjectsInv, ObjectKinds, HostKinds
  <1>2. RegistryKinds'
    BY DEF ObjectsInv, ObjectKinds, RegistryKinds
  <1>3. /\ Stages' /\ WrappersExact' /\ Untouched'
        /\ \A o \in Wrappers : refs'[o] \in Nat
        /\ \A o \in Owners : refs'[o] > 0 <=> refs[o] > 0
    BY QuietWrappers
  <1>4. LeavesExact'
    <2>1. ASSUME NEW p \in Leaves PROVE FieldsTo(refs', slot', first, table, p) = FieldsTo(refs, slot', first, table, p)
      BY <1>3, SameOwners
    <2> QED
      BY <2>1 DEF LeavesExact
  <1>5. refs' \in [Counted -> Nat]
    <2>1. DOMAIN refs' = Counted /\ refs' = [p \in Counted |-> refs'[p]]
      OBVIOUS
    <2> QED
      BY <1>2, <1>3, <1>4, <2>1, CountsTyped
  <1>6. CountKinds'
    <2>1. calls \in Nat
      BY ShimConstants DEF ObjectsInv, ObjectKinds, HostKinds
    <2>2. held' = held /\ held \in [Wrappers -> Nat] /\ \A o \in Wrappers : held[o] <= calls
      BY DEF ObjectsInv, ObjectKinds, CountKinds
    <2>3. \A o \in Wrappers : held[o] <= calls'
      BY <2>1, <2>2
    <2> QED
      BY <1>5, <2>2, <2>3 DEF CountKinds
  <1>7. Unmade'
    BY DEF ObjectsInv, Unmade
  <1>8. Cookies'
    BY DEF ObjectsInv, Cookies, CookiesExact, HostsCookie
  <1>9. Heard'
    BY DEF ObjectsInv, Heard, EventSinks
  <1> QED
    BY <1>1, <1>2, <1>3, <1>4, <1>6, <1>7, <1>8, <1>9, AllHold

LEMMA SlotsAre ==
    ASSUME ObjectsInv
    PROVE  /\ RegistryKinds /\ refs \in [Counted -> Int] /\ DOMAIN slot = Slotted
           /\ slot \in [Slotted -> Sinks \cup {None}] /\ g_key_sink \in Sinks \cup {None}
           /\ items \in Seq(Items) /\ Len(items) <= 1
           /\ \A o \in Slotted : slot[o] \notin Wrappers /\ o \in Wrappers /\ o \in Owners
           /\ \A o \in Slotted \ made : slot[o] = None
           /\ g_key_sink \notin Wrappers /\ None \notin Wrappers
           /\ \A s \in Sinks \cup Items : s \notin Wrappers /\ s \in Leaves
           /\ calls \in Nat /\ calls <= MaxCalls
           /\ \A p \in Leaves : p \in Counted /\ p # None
           /\ \A p \in Leaves : refs[p] = GlobalsTo(g_key_sink, table, items, p) + FieldsTo(refs, slot, first, table, p)
           /\ \A p : FieldsTo(refs, slot, first, table, p) \in Nat /\ GlobalsTo(g_key_sink, table, items, p) \in Nat
           /\ \A p : \A t \in Sources : SourceShare(refs, first, table, t, p) \in Nat
  <1>1. RegistryKinds /\ LeavesExact
    BY DEF ObjectsInv, ObjectKinds
  <1>2. refs \in [Counted -> Int]
    BY DEF ObjectsInv, ObjectKinds, CountKinds
  <1>3. /\ DOMAIN slot = Slotted /\ slot \in [Slotted -> Sinks \cup {None}] /\ g_key_sink \in Sinks \cup {None}
        /\ items \in Seq(Items) /\ Len(items) <= 1
    BY <1>1 DEF RegistryKinds
  <1>4. None \notin Wrappers /\ \A s \in Sinks \cup Items : s \notin Wrappers /\ s \in Leaves
    BY ApartFromLeaves DEF Leaves
  <1>5. \A o \in Slotted : slot[o] \notin Wrappers /\ o \in Wrappers /\ o \in Owners
    BY <1>3, <1>4, WrappersAre DEF Slotted, Owners
  <1>6. \A o \in Slotted \ made : slot[o] = None
    BY DEF ObjectsInv, Unmade
  <1>7. calls \in Nat /\ calls <= MaxCalls
    BY ShimConstants DEF ObjectsInv, ObjectKinds, HostKinds
  <1>8. \A p : FieldsTo(refs, slot, first, table, p) \in Nat /\ GlobalsTo(g_key_sink, table, items, p) \in Nat
    BY <1>1, SharesAre
  <1>9. \A p : \A t \in Sources : SourceShare(refs, first, table, t, p) \in Nat
    BY <1>1, SharesAre
  <1>10. \A p \in Leaves : refs[p] = GlobalsTo(g_key_sink, table, items, p) + FieldsTo(refs, slot, first, table, p)
    BY <1>1 DEF LeavesExact
  <1>11. \A p \in Leaves : p \in Counted /\ p # None
    BY ApartFromLeaves
  <1> QED
    BY <1>1, <1>2, <1>3, <1>4, <1>5, <1>6, <1>7, <1>8, <1>9, <1>10, <1>11

\* One slot of a live wrapper takes a sink or nothing.
LEMMA OneSlot ==
    ASSUME ObjectsInv, NEW o \in Slotted, refs[o] > 0, NEW s \in Sinks \cup {None},
           NEW rc, rc = Swap(refs, slot[o], s),
           NEW sm, sm[o] = s, \A q \in Slotted \ {o} : sm[q] = slot[q]
    PROVE  /\ rc \in [Counted -> Int] /\ \A q \in Wrappers : rc[q] = refs[q]
           /\ \A p \in Leaves : rc[p] = GlobalsTo(g_key_sink, table, items, p) + FieldsTo(refs, sm, first, table, p)
           /\ \A p : FieldsTo(refs, sm, first, table, p) \in Int
  <1>1. refs \in [Counted -> Int] /\ slot[o] \notin Wrappers /\ s \notin Wrappers /\ RegistryKinds
    BY SlotsAre
  <1>2. /\ rc \in [Counted -> Int]
        /\ \A p \in Counted : rc[p] = refs[p] - (IF p = slot[o] THEN 1 ELSE 0) + (IF p = s THEN 1 ELSE 0)
        /\ \A q \in Wrappers : rc[q] = refs[q]
    BY <1>1, SwapIs
  <1>3. ASSUME NEW p
        PROVE  FieldsTo(refs, sm, first, table, p) =
                   FieldsTo(refs, slot, first, table, p) - (IF p = slot[o] THEN 1 ELSE 0) + (IF p = s THEN 1 ELSE 0)
    <2>1. FieldsTo(refs, sm, first, table, p) =
              FieldsTo(refs, slot, first, table, p) - (IF p = slot[o] THEN 1 ELSE 0) + (IF p = sm[o] THEN 1 ELSE 0)
      BY <1>1, SlotTaken
    <2> QED
      BY <2>1
  <1>4. \A p : FieldsTo(refs, slot, first, table, p) \in Nat /\ GlobalsTo(g_key_sink, table, items, p) \in Nat
    BY SlotsAre
  <1>5. \A p : FieldsTo(refs, sm, first, table, p) \in Int
    <2> TAKE p
    <2>1. PICK a \in Nat : a = FieldsTo(refs, slot, first, table, p)
      BY <1>4
    <2>2. FieldsTo(refs, sm, first, table, p) = a - (IF p = slot[o] THEN 1 ELSE 0) + (IF p = s THEN 1 ELSE 0)
      BY <1>3, <2>1
    <2> QED
      BY <2>2
  <1>6. ASSUME NEW p \in Leaves
        PROVE  rc[p] = GlobalsTo(g_key_sink, table, items, p) + FieldsTo(refs, sm, first, table, p)
    <2>1. p \in Counted /\ refs[p] = GlobalsTo(g_key_sink, table, items, p) + FieldsTo(refs, slot, first, table, p)
      BY SlotsAre
    <2>2. PICK a \in Nat : a = FieldsTo(refs, slot, first, table, p)
      BY <1>4
    <2>3. PICK b \in Nat : b = GlobalsTo(g_key_sink, table, items, p)
      BY <1>4
    <2>4. FieldsTo(refs, sm, first, table, p) = a - (IF p = slot[o] THEN 1 ELSE 0) + (IF p = s THEN 1 ELSE 0)
      BY <1>3, <2>2
    <2>5. rc[p] = a + b - (IF p = slot[o] THEN 1 ELSE 0) + (IF p = s THEN 1 ELSE 0)
      BY <2>1, <2>2, <2>3, <1>2
    <2> QED
      BY <2>3, <2>4, <2>5
  <1> QED
    BY <1>2, <1>5, <1>6

LEMMA StepCompartmentSink ==
    ASSUME ObjectsInv, NEW s \in Sinks, CompartmentAdvise(s) \/ CompartmentUnadvise PROVE ObjectsInv'
  <1>1. PICK t \in Sinks \cup {None} :
            /\ slot' = [slot EXCEPT !["compartment"] = t] /\ refs' = Swap(refs, slot["compartment"], t)
    BY DEF CompartmentAdvise, CompartmentUnadvise
  <1>2. TipRuns /\ held["compartment"] > 0 /\ calls' \in {calls, calls + 1} /\ calls' <= MaxCalls
        /\ UNCHANGED <<host, loaded, focus, made, held, table, first, next, told, given, active, wild, g_key_sink, items>>
    <2>1. calls \in Nat /\ calls <= MaxCalls /\ MaxCalls \in Nat
      BY SlotsAre, ShimConstants
    <2>2. CASE CompartmentAdvise(s)
      BY <2>1, <2>2 DEF CompartmentAdvise, Calls, hostUnchanged
    <2>3. CASE CompartmentUnadvise
      BY <2>1, <2>3 DEF CompartmentUnadvise, Returns, hostUnchanged
    <2> QED
      BY <2>2, <2>3
  <1>3. "compartment" \in made /\ refs["compartment"] > 0 /\ "compartment" \in Slotted
    BY <1>2, TipIsUp, WrappersAre DEF Slotted
  <1>4. /\ refs' \in [Counted -> Int] /\ \A q \in Wrappers : refs'[q] = refs[q]
        /\ slot' \in [Slotted -> Sinks \cup {None}]
        /\ \A p \in Leaves : refs'[p] =
               GlobalsTo(g_key_sink, table, items, p) + FieldsTo(refs, slot', first, table, p)
    <2>1. slot \in [Slotted -> Sinks \cup {None}]
      BY SlotsAre
    <2>2. PICK rc, sm : rc = refs' /\ sm = slot'
      OBVIOUS
    <2>3. /\ rc = Swap(refs, slot["compartment"], t) /\ sm \in [Slotted -> Sinks \cup {None}]
          /\ sm["compartment"] = t /\ \A q \in Slotted \ {"compartment"} : sm[q] = slot[q]
      BY <1>1, <1>3, <2>1, <2>2
    <2>4. /\ rc \in [Counted -> Int] /\ \A q \in Wrappers : rc[q] = refs[q]
          /\ \A p \in Leaves : rc[p] = GlobalsTo(g_key_sink, table, items, p) + FieldsTo(refs, sm, first, table, p)
      BY <1>3, <2>3, OneSlot
    <2> QED
      BY <2>2, <2>3, <2>4
  <1>5. \A o \in Slotted \ made : slot'[o] = None
    BY <1>1, <1>3, SlotsAre
  <1>6. g_key_sink \in Sinks \cup {None} /\ items \in Seq(Items) /\ Len(items) <= 1
    BY SlotsAre
  <1> QED
    BY <1>2, <1>4, <1>5, <1>6, Rewired

LEMMA TwoSlots ==
    ASSUME ObjectsInv, NEW o \in Slotted, NEW u \in Slotted, u # o, refs[o] > 0, refs[u] > 0,
           NEW s \in Sinks \cup {None}, NEW r \in Sinks \cup {None},
           NEW rb, rb = Swap(refs, slot[o], s), NEW rc, rc = Swap(rb, slot[u], r),
           NEW sm, sm[o] = s, sm[u] = r, \A q \in Slotted \ {o, u} : sm[q] = slot[q]
    PROVE  /\ rc \in [Counted -> Int] /\ \A q \in Wrappers : rc[q] = refs[q]
           /\ \A p \in Leaves : rc[p] = GlobalsTo(g_key_sink, table, items, p) + FieldsTo(refs, sm, first, table, p)
  <1>1. /\ RegistryKinds /\ slot \in [Slotted -> Sinks \cup {None}] /\ DOMAIN slot = Slotted
        /\ slot[u] \notin Wrappers /\ r \notin Wrappers
    BY SlotsAre
  <1>2. PICK sl : sl = [slot EXCEPT ![o] = s]
    OBVIOUS
  <1>3. sl[o] = s /\ sl[u] = slot[u] /\ \A q \in Slotted \ {o} : sl[q] = slot[q]
    BY <1>1, <1>2
  <1>5. \A q \in Slotted \ {u} : sm[q] = sl[q]
    BY <1>3
  <1>7. /\ rb \in [Counted -> Int] /\ \A q \in Wrappers : rb[q] = refs[q]
        /\ \A p \in Leaves : rb[p] = GlobalsTo(g_key_sink, table, items, p) + FieldsTo(refs, sl, first, table, p)
        /\ \A p : FieldsTo(refs, sl, first, table, p) \in Int
    BY <1>3, OneSlot
  <1>9. /\ rc \in [Counted -> Int]
        /\ \A p \in Counted : rc[p] = rb[p] - (IF p = slot[u] THEN 1 ELSE 0) + (IF p = r THEN 1 ELSE 0)
        /\ \A q \in Wrappers : rc[q] = rb[q]
    BY <1>1, <1>7, SwapIs
  <1>10. ASSUME NEW p \in Leaves
         PROVE  rc[p] = GlobalsTo(g_key_sink, table, items, p) + FieldsTo(refs, sm, first, table, p)
    <2>1. FieldsTo(refs, sm, first, table, p) =
              FieldsTo(refs, sl, first, table, p) - (IF p = sl[u] THEN 1 ELSE 0) + (IF p = sm[u] THEN 1 ELSE 0)
      BY <1>1, <1>5, SlotTaken
    <2>2. PICK a \in Int : a = FieldsTo(refs, sl, first, table, p)
      BY <1>7
    <2>3. PICK b \in Nat : b = GlobalsTo(g_key_sink, table, items, p)
      BY SlotsAre
    <2>4. p \in Counted
      BY WrappersAre DEF Counted
    <2>5. rb[p] = b + a
      BY <1>7, <2>2, <2>3
    <2>6. rc[p] = b + a - (IF p = slot[u] THEN 1 ELSE 0) + (IF p = r THEN 1 ELSE 0)
      BY <1>9, <2>4, <2>5
    <2> QED
      BY <1>3, <1>5, <2>1, <2>2, <2>3, <2>6
  <1> QED
    BY <1>7, <1>9, <1>10

LEMMA StepSingleSink ==
    ASSUME ObjectsInv,
           (\E s \in Sinks, b \in BOOLEAN : AdviseSingleSink(s, b)) \/ (\E b \in BOOLEAN : UnadviseSingleSink(b))
    PROVE  ObjectsInv'
  <1>1. /\ TipRuns /\ held["single"] > 0 /\ calls' \in {calls, calls + 1} /\ calls' <= MaxCalls
        /\ UNCHANGED <<host, loaded, focus, made, held, table, first, next, told, given, active, g_key_sink, items>>
        /\ wild' = wild \/ wild' = wild \cup Dead({"tm"})
    <2>1. ASSUME NEW s \in Sinks, NEW b \in BOOLEAN, AdviseSingleSink(s, b)
          PROVE  /\ TipRuns /\ held["single"] > 0 /\ calls' = calls + 1 /\ calls < MaxCalls
                 /\ UNCHANGED <<host, loaded, focus, made, held, table, first, next, told, given, active, g_key_sink, items>>
                 /\ wild' = wild \/ wild' = wild \cup Dead({"tm"})
      BY <2>1 DEF AdviseSingleSink, Calls, hostUnchanged
    <2>2. ASSUME NEW b \in BOOLEAN, UnadviseSingleSink(b)
          PROVE  /\ TipRuns /\ held["single"] > 0 /\ calls' = calls
                 /\ UNCHANGED <<host, loaded, focus, made, held, table, first, next, told, given, active, g_key_sink, items>>
                 /\ wild' = wild \/ wild' = wild \cup Dead({"tm"})
      BY <2>2 DEF UnadviseSingleSink, Returns, hostUnchanged
    <2>3. calls \in Nat /\ calls <= MaxCalls /\ MaxCalls \in Nat
      BY SlotsAre, ShimConstants
    <2> QED
      BY <2>1, <2>2, <2>3
  <1>2. PICK s \in Sinks \cup {None} :
            \/ slot' = [slot EXCEPT !["single"] = s] /\ refs' = Swap(refs, slot["single"], s)
            \/ slot' = [slot EXCEPT !["single"] = s] /\ refs' = Swap(Swap(refs, slot["single"], s), None, None)
            \/ /\ slot' = [slot EXCEPT !["single"] = s, !["tm"] = s]
               /\ refs' = Swap(Swap(refs, slot["single"], s), slot["tm"], s)
    BY DEF AdviseSingleSink, UnadviseSingleSink
  <1>3. "single" \in made /\ refs["single"] > 0 /\ "single" \in Slotted /\ refs["tm"] > 0 /\ "tm" \in made /\ "tm" \in Slotted
    BY <1>1, TipIsUp, WrappersAre DEF Slotted
  <1>4. wild' = wild
    BY <1>1, <1>3 DEF Dead
  <1>5. PICK rb, sl : rb = Swap(refs, slot["single"], s) /\ sl = [slot EXCEPT !["single"] = s]
    OBVIOUS
  <1>6. /\ rb \in [Counted -> Int] /\ \A q \in Wrappers : rb[q] = refs[q]
        /\ sl \in [Slotted -> Sinks \cup {None}]
        /\ \A p \in Leaves : rb[p] = GlobalsTo(g_key_sink, table, items, p) + FieldsTo(refs, sl, first, table, p)
    <2>1. slot \in [Slotted -> Sinks \cup {None}]
      BY SlotsAre
    <2>2. /\ sl \in [Slotted -> Sinks \cup {None}]
          /\ sl["single"] = s /\ \A q \in Slotted \ {"single"} : sl[q] = slot[q]
      BY <1>3, <1>5, <2>1
    <2>3. rb = Swap(refs, slot["single"], s)
      BY <1>5
    <2>4. /\ rb \in [Counted -> Int] /\ \A q \in Wrappers : rb[q] = refs[q]
          /\ \A p \in Leaves : rb[p] = GlobalsTo(g_key_sink, table, items, p) + FieldsTo(refs, sl, first, table, p)
      <3>1. "single" \in Slotted /\ refs["single"] > 0
        BY <1>3
      <3>2. sl["single"] = s /\ \A q \in Slotted \ {"single"} : sl[q] = slot[q]
        BY <2>2
      <3> QED
        BY <2>3, <3>1, <3>2, OneSlot
    <2> QED
      BY <2>2, <2>4
  <1>7. /\ refs' \in [Counted -> Int] /\ \A q \in Wrappers : refs'[q] = refs[q]
        /\ slot' \in [Slotted -> Sinks \cup {None}]
        /\ \A p \in Leaves : refs'[p] =
               GlobalsTo(g_key_sink, table, items, p) + FieldsTo(refs, slot', first, table, p)
    <2>1. CASE slot' = [slot EXCEPT !["single"] = s] /\ refs' = Swap(refs, slot["single"], s)
      BY <2>1, <1>5, <1>6
    <2>2. CASE slot' = [slot EXCEPT !["single"] = s] /\ refs' = Swap(Swap(refs, slot["single"], s), None, None)
      <3>1. slot' = sl /\ refs' = Swap(rb, None, None)
        BY <2>2, <1>5
      <3>2. None \notin Wrappers
        BY SlotsAre
      <3>3. /\ refs' \in [Counted -> Int] /\ \A q \in Wrappers : refs'[q] = rb[q]
            /\ \A p \in Counted : refs'[p] = rb[p] - (IF p = None THEN 1 ELSE 0) + (IF p = None THEN 1 ELSE 0)
        BY <1>6, <3>1, <3>2, SwapIs
      <3>4. \A p \in Leaves : refs'[p] = rb[p]
        <4>1. \A p \in Leaves : p \in Counted /\ p # None
          BY SlotsAre
        <4> QED
          BY <1>6, <3>3, <4>1
      <3> QED
        BY <1>6, <3>1, <3>3, <3>4
    <2>3. CASE /\ slot' = [slot EXCEPT !["single"] = s, !["tm"] = s]
               /\ refs' = Swap(Swap(refs, slot["single"], s), slot["tm"], s)
      <3>1. PICK rc, sm : rc = refs' /\ sm = slot'
        OBVIOUS
      <3>0. slot \in [Slotted -> Sinks \cup {None}]
        BY SlotsAre
      <3>2. /\ rc = Swap(rb, slot["tm"], s) /\ sm \in [Slotted -> Sinks \cup {None}]
            /\ sm["single"] = s /\ sm["tm"] = s /\ \A q \in Slotted \ {"single", "tm"} : sm[q] = slot[q]
        BY <1>3, <1>5, <2>3, <3>0, <3>1
      <3>3. /\ rc \in [Counted -> Int] /\ \A q \in Wrappers : rc[q] = refs[q]
            /\ \A p \in Leaves : rc[p] = GlobalsTo(g_key_sink, table, items, p) + FieldsTo(refs, sm, first, table, p)
        <4>1. "single" # "tm"
          OBVIOUS
        <4> QED
          BY <1>3, <1>5, <3>2, <4>1, TwoSlots
      <3> QED
        BY <3>1, <3>2, <3>3
    <2> QED
      BY <1>2, <2>1, <2>2, <2>3
  <1>8. \A o \in Slotted \ made : slot'[o] = None
    <2>1. \A o \in Slotted : o \notin {"single", "tm"} => slot'[o] = slot[o]
      BY <1>2, SlotsAre
    <2> QED
      BY <2>1, <1>3, SlotsAre
  <1>9. g_key_sink \in Sinks \cup {None} /\ items \in Seq(Items) /\ Len(items) <= 1
    BY SlotsAre
  <1> QED
    BY <1>1, <1>4, <1>7, <1>8, <1>9, Rewired

\* With the slot of the keystroke manager the global one may follow, or stay.
LEMMA SlotAndKey ==
    ASSUME ObjectsInv, refs["km"] > 0, NEW s \in Sinks \cup {None}, NEW g \in Sinks \cup {None},
           NEW old, NEW new, (old = g_key_sink /\ new = g) \/ (old = None /\ new = None /\ g = g_key_sink),
           NEW rb, rb = Swap(refs, slot["km"], s), NEW rc, rc = Swap(rb, old, new),
           NEW sm, sm["km"] = s, \A q \in Slotted \ {"km"} : sm[q] = slot[q]
    PROVE  /\ rc \in [Counted -> Int] /\ \A q \in Wrappers : rc[q] = refs[q]
           /\ \A p \in Leaves : rc[p] = GlobalsTo(g, table, items, p) + FieldsTo(refs, sm, first, table, p)
  <1>1. /\ RegistryKinds /\ old \notin Wrappers /\ new \notin Wrappers /\ "km" \in Slotted
    BY SlotsAre DEF Slotted
  <1>3. /\ rb \in [Counted -> Int] /\ \A q \in Wrappers : rb[q] = refs[q]
        /\ \A p \in Leaves : rb[p] = GlobalsTo(g_key_sink, table, items, p) + FieldsTo(refs, sm, first, table, p)
        /\ \A p : FieldsTo(refs, sm, first, table, p) \in Int
    BY <1>1, OneSlot
  <1>5. /\ rc \in [Counted -> Int] /\ \A q \in Wrappers : rc[q] = rb[q]
        /\ \A p \in Counted : rc[p] = rb[p] - (IF p = old THEN 1 ELSE 0) + (IF p = new THEN 1 ELSE 0)
    BY <1>1, <1>3, SwapIs
  <1>6. ASSUME NEW p \in Leaves
        PROVE  rc[p] = GlobalsTo(g, table, items, p) + FieldsTo(refs, sm, first, table, p)
    <2>1. p \in Counted /\ p # None
      BY SlotsAre
    <2>2. PICK a \in Int : a = FieldsTo(refs, sm, first, table, p)
      BY <1>3
    <2>3. PICK b \in Nat : b = GlobalsTo(g_key_sink, table, items, p)
      BY SlotsAre
    <2>4. GlobalsTo(g, table, items, p) = b - (IF p = g_key_sink THEN 1 ELSE 0) + (IF p = g THEN 1 ELSE 0)
      BY <1>1, <2>3, GlobalsAre
    <2>5. rb[p] = b + a
      BY <1>3, <2>2, <2>3
    <2>6. rc[p] = b + a - (IF p = old THEN 1 ELSE 0) + (IF p = new THEN 1 ELSE 0)
      BY <1>5, <2>1, <2>5
    <2> QED
      BY <2>1, <2>2, <2>4, <2>6
  <1> QED
    BY <1>3, <1>5, <1>6

LEMMA StepKeySink ==
    ASSUME ObjectsInv,
           (\E s \in Sinks : AdviseKeyEventSink(s)) \/ (\E sticky \in BOOLEAN : UnadviseKeyEventSink(sticky))
    PROVE  ObjectsInv'
  <1>1. /\ TipRuns /\ held["km"] > 0 /\ calls' \in {calls, calls + 1} /\ calls' <= MaxCalls
        /\ UNCHANGED <<host, loaded, focus, made, held, table, first, next, told, given, active, wild, items>>
    BY SlotsAre, ShimConstants DEF AdviseKeyEventSink, UnadviseKeyEventSink, Calls, Returns, hostUnchanged
  <1>0. PICK s \in Sinks \cup {None}, g \in Sinks \cup {None} : \E old, new :
               /\ (old = g_key_sink /\ new = g) \/ (old = None /\ new = None /\ g = g_key_sink)
               /\ slot' = [slot EXCEPT !["km"] = s] /\ g_key_sink' = g
               /\ refs' = Swap(Swap(refs, slot["km"], s), old, new)
    <2>1. ASSUME NEW t \in Sinks, AdviseKeyEventSink(t)
          PROVE  /\ slot' = [slot EXCEPT !["km"] = t] /\ g_key_sink' = t
                 /\ refs' = Swap(Swap(refs, slot["km"], t), g_key_sink, t)
      BY <2>1 DEF AdviseKeyEventSink
    <2>2. ASSUME UnadviseKeyEventSink(TRUE)
          PROVE  /\ slot' = [slot EXCEPT !["km"] = None] /\ g_key_sink' = g_key_sink
                 /\ refs' = Swap(Swap(refs, slot["km"], None), None, None)
      BY <2>2 DEF UnadviseKeyEventSink, Withdrawn
    <2>3. ASSUME UnadviseKeyEventSink(FALSE)
          PROVE  /\ slot' = [slot EXCEPT !["km"] = None] /\ g_key_sink' = None
                 /\ refs' = Swap(Swap(refs, slot["km"], None), g_key_sink, None)
      BY <2>3 DEF UnadviseKeyEventSink, Withdrawn
    <2>4. g_key_sink \in Sinks \cup {None}
      BY SlotsAre
    <2> DEFINE Change(x, y, old, new) ==
                   /\ (old = g_key_sink /\ new = y) \/ (old = None /\ new = None /\ y = g_key_sink)
                   /\ slot' = [slot EXCEPT !["km"] = x] /\ g_key_sink' = y
                   /\ refs' = Swap(Swap(refs, slot["km"], x), old, new)
    <2>5. \A t \in Sinks : AdviseKeyEventSink(t) => Change(t, t, g_key_sink, t)
      BY <2>1
    <2>6. UnadviseKeyEventSink(TRUE) => Change(None, g_key_sink, None, None)
      BY <2>2
    <2>7. UnadviseKeyEventSink(FALSE) => Change(None, None, g_key_sink, None)
      BY <2>3
    <2> HIDE DEF Change
    <2>8. (\E t \in Sinks : AdviseKeyEventSink(t)) \/ UnadviseKeyEventSink(TRUE) \/ UnadviseKeyEventSink(FALSE)
      OBVIOUS
    <2>9. \E x \in Sinks \cup {None}, y \in Sinks \cup {None} : \E old, new : Change(x, y, old, new)
      <3>1. \E x \in Sinks \cup {None}, y \in Sinks \cup {None}, old, new \in Sinks \cup {None} :
                Change(x, y, old, new)
        BY <2>4, <2>5, <2>6, <2>7, <2>8
      <3> QED
        BY <3>1
    <2> QED
      BY <2>9 DEF Change
  <1>2. PICK old, new :
            /\ (old = g_key_sink /\ new = g) \/ (old = None /\ new = None /\ g = g_key_sink)
            /\ slot' = [slot EXCEPT !["km"] = s] /\ g_key_sink' = g
            /\ refs' = Swap(Swap(refs, slot["km"], s), old, new)
    BY <1>0
  <1>3. "km" \in made /\ refs["km"] > 0 /\ "km" \in Slotted
    BY <1>1, TipIsUp, WrappersAre DEF Slotted
  <1>4. PICK rc, sm : rc = refs' /\ sm = slot'
    OBVIOUS
  <1>5. /\ rc \in [Counted -> Int] /\ \A q \in Wrappers : rc[q] = refs[q]
        /\ sm \in [Slotted -> Sinks \cup {None}]
        /\ \A p \in Leaves : rc[p] = GlobalsTo(g, table, items, p) + FieldsTo(refs, sm, first, table, p)
    <2>0. slot \in [Slotted -> Sinks \cup {None}]
      BY SlotsAre
    <2>1. PICK rb : rb = Swap(refs, slot["km"], s)
      OBVIOUS
    <2>2. rc = Swap(rb, old, new)
      BY <1>2, <1>4, <2>1
    <2>3. /\ sm \in [Slotted -> Sinks \cup {None}]
          /\ sm["km"] = s /\ \A q \in Slotted \ {"km"} : sm[q] = slot[q]
      BY <1>2, <1>3, <1>4, <2>0
    <2>4. /\ rc \in [Counted -> Int] /\ \A q \in Wrappers : rc[q] = refs[q]
          /\ \A p \in Leaves : rc[p] = GlobalsTo(g, table, items, p) + FieldsTo(refs, sm, first, table, p)
      <3>1. (old = g_key_sink /\ new = g) \/ (old = None /\ new = None /\ g = g_key_sink)
        BY <1>2
      <3> QED
        BY <1>3, <2>1, <2>2, <2>3, <3>1, SlotAndKey
    <2> QED
      BY <2>3, <2>4
  <1>6. \A o \in Slotted \ made : slot'[o] = None
    BY <1>2, <1>3, SlotsAre
  <1>7. items \in Seq(Items) /\ Len(items) <= 1
    BY SlotsAre
  <1>8. /\ refs' \in [Counted -> Int] /\ \A q \in Wrappers : refs'[q] = refs[q]
        /\ slot' \in [Slotted -> Sinks \cup {None}] /\ g_key_sink' \in Sinks \cup {None}
        /\ \A p \in Leaves : refs'[p] =
               GlobalsTo(g_key_sink', table, items, p) + FieldsTo(refs, slot', first, table, p)
    BY <1>2, <1>4, <1>5
  <1> QED
    BY <1>1, <1>6, <1>7, <1>8, Rewired

LEMMA StepItems ==
    ASSUME ObjectsInv, NEW it \in Items, AddItem(it) \/ RemoveItem(it) PROVE ObjectsInv'
  <1>1. /\ TipRuns /\ calls' \in {calls, calls + 1} /\ calls' <= MaxCalls
        /\ UNCHANGED <<host, loaded, focus, made, held, table, first, next, slot, g_key_sink, told, given, active>>
        /\ wild' = wild \cup Dead(BarSinks)
    BY SlotsAre, ShimConstants DEF AddItem, RemoveItem, ItemsChange, Calls, Returns, hostUnchanged
  <1>2. wild' = wild
    <2>1. \A i \in DOMAIN table["bar"] : refs[table["bar"][i].sink] > 0
      BY LeafLives
    <2>2. Dead(BarSinks) = {}
      BY <2>1 DEF Dead, BarSinks
    <2> QED
      BY <1>1, <2>2
  <1>3. /\ RegistryKinds /\ refs \in [Counted -> Int] /\ slot \in [Slotted -> Sinks \cup {None}]
        /\ g_key_sink \in Sinks \cup {None} /\ items \in Seq(Items) /\ Len(items) <= 1 /\ None \notin Wrappers
        /\ \A o \in Slotted \ made : slot[o] = None
    BY SlotsAre
  <1>4. PICK old \in Items \cup {None}, new \in Items \cup {None} :
            /\ refs' = Swap(refs, old, new)
            /\ \/ items = <<>> /\ items' = <<it>> /\ old = None /\ new = it
               \/ items # <<>> /\ items' = <<>> /\ old = items[1] /\ new = None
    <2>1. items # <<>> => items[1] \in Items
      BY <1>3
    <2> QED
      BY <2>1 DEF AddItem, RemoveItem, ItemsChange
  <1>5. items' \in Seq(Items) /\ Len(items') <= 1
    <2>1. <<it>> \in Seq(Items) /\ Len(<<it>>) = 1
      OBVIOUS
    <2>2. <<>> \in Seq(Items) /\ Len(<<>>) = 0
      OBVIOUS
    <2>3. items' = <<it>> \/ items' = <<>>
      BY <1>4
    <2>4. CASE items' = <<it>>
      BY <2>1, <2>4
    <2>5. CASE items' = <<>>
      BY <2>2, <2>5
    <2> QED
      BY <2>3, <2>4, <2>5
  <1>6. old \notin Wrappers /\ new \notin Wrappers
    BY SlotsAre
  <1>7. /\ refs' \in [Counted -> Int] /\ \A q \in Wrappers : refs'[q] = refs[q]
        /\ \A p \in Counted : refs'[p] = refs[p] - (IF p = old THEN 1 ELSE 0) + (IF p = new THEN 1 ELSE 0)
    BY <1>3, <1>4, <1>6, SwapIs
  <1>8. ASSUME NEW p \in Leaves
        PROVE  refs'[p] = GlobalsTo(g_key_sink, table, items', p) + FieldsTo(refs, slot, first, table, p)
    <2>1. p \in Counted /\ p # None
      BY SlotsAre
    <2>2. PICK a \in Nat : a = FieldsTo(refs, slot, first, table, p)
      BY SlotsAre
    <2>3. PICK b \in Nat : b = GlobalsTo(g_key_sink, table, items, p)
      BY SlotsAre
    <2>4. refs[p] = b + a
      BY <2>2, <2>3, SlotsAre
    <2>5. refs'[p] = b + a - (IF p = old THEN 1 ELSE 0) + (IF p = new THEN 1 ELSE 0)
      BY <1>7, <2>1, <2>4
    <2>6. CASE items = <<>> /\ items' = <<it>> /\ old = None /\ new = it
      <3>1. GlobalsTo(g_key_sink, table, <<it>>, p) = b + (IF p = it THEN 1 ELSE 0)
        BY <1>3, <2>3, <2>6, GlobalsAre
      <3> QED
        BY <2>1, <2>2, <2>5, <2>6, <3>1
    <2>7. CASE items # <<>> /\ items' = <<>> /\ old = items[1] /\ new = None
      <3>1. GlobalsTo(g_key_sink, table, <<>>, p) = b - (IF p = items[1] THEN 1 ELSE 0)
        BY <1>3, <2>3, <2>7, GlobalsAre
      <3> QED
        BY <2>1, <2>2, <2>5, <2>7, <3>1
    <2> QED
      BY <1>4, <2>6, <2>7
  <1> QED
    BY <1>1, <1>2, <1>3, <1>5, <1>7, <1>8, Rewired

LEMMA StepStartComposition == ASSUME ObjectsInv, NEW s \in Sinks, ctxcomp_StartComposition(s) PROVE ObjectsInv'
  <1>1. /\ TipRuns /\ held["ctx"] > 0 /\ calls' = calls + 1 /\ calls < MaxCalls
        /\ UNCHANGED <<host, loaded, focus, made, table, first, next, told, given, active, wild, g_key_sink, items>>
        /\ slot' = [slot EXCEPT !["composition"] = s]
    BY DEF ctxcomp_StartComposition, Calls, hostUnchanged
  <1>2. At[host] \in 7..10 /\ host # "done"
    BY <1>1, TipIsUp
  <1>3. "composition" \in made /\ "composition" \in Slotted /\ "composition" \in Wrappers /\ "composition" \in Counted
    BY <1>2, WrappersAre DEF ObjectsInv, Stages, Slotted
  <1>4. refs["composition"] > 0
    BY <1>2, <1>3, Living
  <1>5. PICK rc, sm : rc = Swap(refs, slot["composition"], s) /\ sm = slot'
    OBVIOUS
  <1>6. /\ sm \in [Slotted -> Sinks \cup {None}] /\ sm["composition"] = s
        /\ \A q \in Slotted \ {"composition"} : sm[q] = slot[q]
    <2>1. slot \in [Slotted -> Sinks \cup {None}]
      BY SlotsAre
    <2> QED
      BY <1>1, <1>3, <1>5, <2>1
  <1>7. /\ rc \in [Counted -> Int] /\ \A q \in Wrappers : rc[q] = refs[q]
        /\ \A p \in Leaves : rc[p] = GlobalsTo(g_key_sink, table, items, p) + FieldsTo(refs, sm, first, table, p)
    <2>1. rc = Swap(refs, slot["composition"], s)
      BY <1>5
    <2> QED
      BY <1>3, <1>4, <1>6, <2>1, OneSlot
  <1>8. refs' = [rc EXCEPT !["composition"] = @ + 1] /\ held' = [held EXCEPT !["composition"] = @ + 1]
    BY <1>5 DEF ctxcomp_StartComposition, Hand, Replaced
  <1>9. /\ refs' \in [Counted -> Int] /\ refs'["composition"] = refs["composition"] + 1
        /\ \A p \in Counted : p # "composition" => refs'[p] = rc[p]
    BY <1>3, <1>7, <1>8
  <1>10. /\ held' \in [Wrappers -> Nat] /\ held'["composition"] = held["composition"] + 1
         /\ \A p \in Wrappers : p # "composition" => held'[p] = held[p]
    BY <1>3, <1>8 DEF ObjectsInv, ObjectKinds, CountKinds
  <1>11. \A p \in Wrappers : refs[p] \in Nat /\ held[p] \in Nat
    BY CountsAre
  <1>12. \A p \in Wrappers : p # "composition" => refs'[p] = refs[p]
    BY <1>7, <1>9, WrappersAre
  <1>13. \A p \in Wrappers : /\ refs'[p] \in Nat /\ held'[p] \in Nat /\ (refs'[p] > 0 <=> refs[p] > 0)
                             /\ refs'[p] - held'[p] = refs[p] - held[p]
    BY <1>3, <1>4, <1>9, <1>10, <1>11, <1>12
  <1>14. HostKinds'
    BY <1>1, ShimConstants DEF ObjectsInv, ObjectKinds, HostKinds
  <1>15. RegistryKinds'
    <2>1. slot' \in [Slotted -> Sinks \cup {None}]
      BY <1>5, <1>6
    <2> QED
      BY <1>1, <2>1 DEF ObjectsInv, ObjectKinds, RegistryKinds
  <1>16. Stages'
    BY <1>1, <1>2, <1>3, <1>10, <1>11 DEF ObjectsInv, Stages
  <1>17. WrappersExact'
    <2>1. \A p \in Wrappers : refs'[p] \in Nat /\ held'[p] \in Nat /\ refs'[p] - held'[p] = refs[p] - held[p]
      BY <1>13
    <2>2. \A q \in {"ex", "tm", "ctx", "view", "composition"} : refs'[q] > 0 <=> refs[q] > 0
      BY <1>13, WrappersAre
    <2> QED
      BY <1>1, <1>2, <2>1, <2>2, Balanced
  <1>18. LeavesExact'
    <2>1. ASSUME NEW p \in Leaves
          PROVE  refs'[p] = GlobalsTo(g_key_sink, table, items, p) + FieldsTo(refs', slot', first, table, p)
      <3>1. refs'[p] = rc[p]
        BY <1>3, <1>9, WrappersAre DEF Counted
      <3>2. FieldsTo(refs', slot', first, table, p) = FieldsTo(refs, slot', first, table, p)
        <4>1. \A q \in Owners : refs'[q] > 0 <=> refs[q] > 0
          BY <1>13, WrappersAre
        <4> QED
          BY <4>1, SameOwners
      <3> QED
        BY <3>1, <3>2, <1>5, <1>7
    <2> QED
      BY <2>1, <1>1 DEF LeavesExact
  <1>19. CountKinds'
    <2>1. DOMAIN refs' = Counted /\ refs' = [p \in Counted |-> refs'[p]]
      BY <1>9
    <2>2. refs' \in [Counted -> Nat]
      BY <1>13, <1>15, <1>18, <2>1, CountsTyped
    <2>3. \A p \in Wrappers : held[p] <= calls
      BY DEF ObjectsInv, ObjectKinds, CountKinds
    <2>4. calls \in Nat
      BY SlotsAre
    <2>5. \A p \in Wrappers : held'[p] <= calls'
      BY <1>1, <1>10, <1>11, <2>3, <2>4
    <2> QED
      BY <1>10, <2>2, <2>5 DEF CountKinds
  <1>20. Unmade'
    BY <1>1, <1>3, <1>5, <1>6 DEF ObjectsInv, Unmade
  <1>21. Cookies'
    BY <1>1 DEF ObjectsInv, Cookies, CookiesExact, HostsCookie
  <1>22. Heard'
    BY <1>1 DEF ObjectsInv, Heard, EventSinks
  <1>23. Untouched'
    <2>1. refs'["ctx"] = refs["ctx"]
      BY <1>12, WrappersAre
    <2> QED
      BY <1>1, <1>2, <2>1 DEF ObjectsInv, Untouched
  <1> QED
    BY <1>14, <1>15, <1>16, <1>17, <1>18, <1>19, <1>20, <1>21, <1>22, <1>23, AllHold

LEMMA StepGetCompartment == ASSUME ObjectsInv, GetCompartment PROVE ObjectsInv'
  <1>1. /\ TipRuns /\ refs["compartment"] = 0 /\ calls' = calls + 1 /\ calls < MaxCalls
        /\ UNCHANGED <<host, loaded, focus, table, first, next, told, given, active, wild, g_key_sink, items>>
        /\ slot' = [slot EXCEPT !["compartment"] = None] /\ made' = made \cup {"compartment"}
    BY DEF GetCompartment, Calls, hostUnchanged
  <1>2. At[host] \in 3..10 /\ host # "done"
    BY <1>1, TipIsUp
  <1>3. "compartment" \in Slotted /\ "compartment" \in Wrappers /\ "compartment" \in Counted
    BY WrappersAre DEF Slotted
  <1>4. slot' \in [Slotted -> Sinks \cup {None}] /\ slot'["compartment"] = None
        /\ \A q \in Slotted : q # "compartment" => slot'[q] = slot[q]
    <2>1. slot \in [Slotted -> Sinks \cup {None}]
      BY SlotsAre
    <2> QED
      BY <1>1, <1>3, <2>1
  <1>5. refs \in [Counted -> Nat] /\ Hand(refs, "compartment")
    BY DEF GetCompartment, ObjectsInv, ObjectKinds, CountKinds
  <1>6. /\ refs' \in [Counted -> Nat] /\ refs'["compartment"] = refs["compartment"] + 1
        /\ \A p \in Counted : p # "compartment" => refs'[p] = refs[p]
        /\ held' \in [Wrappers -> Nat] /\ held'["compartment"] = held["compartment"] + 1
        /\ \A p \in Wrappers : p # "compartment" => held'[p] = held[p]
        /\ CountKinds'
    BY <1>1, <1>3, <1>5, HandIs
  <1>7. \A p \in Wrappers : p # "compartment" => refs'[p] = refs[p]
    BY <1>6, WrappersAre
  <1>8. HostKinds'
    BY <1>1, <1>3, ShimConstants DEF ObjectsInv, ObjectKinds, HostKinds
  <1>9. RegistryKinds'
    BY <1>1, <1>4 DEF ObjectsInv, ObjectKinds, RegistryKinds
  <1>10. Stages'
    BY <1>1, <1>2, <1>6, WrappersAre DEF ObjectsInv, Stages
  <1>11. WrappersExact'
    <2>1. \A q \in {"ex", "tm", "ctx", "view", "composition"} : \A p : p # "compartment" => Field(q, p)' = Field(q, p)
      BY <1>1, <1>7, WrappersAre DEF Field
    <2>2. refs'["compartment"] = held'["compartment"]
      BY <1>6 DEF ObjectsInv, WrappersExact
    <2>3. \A p \in Wrappers : p # "compartment" => refs'[p] = refs[p] /\ held'[p] = held[p]
      BY <1>6, <1>7
    <2> QED
      BY <1>1, <2>1, <2>2, <2>3, WrappersAre DEF ObjectsInv, WrappersExact
  <1>12. LeavesExact'
    <2>1. ASSUME NEW p \in Leaves
          PROVE  refs'[p] = GlobalsTo(g_key_sink, table, items, p) + FieldsTo(refs', slot', first, table, p)
      <3>1. refs'[p] = refs[p]
        BY <1>3, <1>6, WrappersAre DEF Counted
      <3>2. p # None
        BY ApartFromLeaves
      <3>3. \A q \in {"tm", "single", "km", "composition"} : Share(refs', slot', q, p) = Share(refs, slot, q, p)
        BY <1>4, <1>7, WrappersAre DEF Share, Slotted
      <3>4. Share(refs', slot', "compartment", p) = 0 /\ Share(refs, slot, "compartment", p) = 0
        BY <1>1, <1>4, <3>2 DEF Share
      <3>5. \A t \in {"tmsrc", "ctxsrc"} : SourceShare(refs', first, table, t, p) = SourceShare(refs, first, table, t, p)
        BY <1>7, WrappersAre DEF SourceShare
      <3>6. FieldsTo(refs', slot', first, table, p) = FieldsTo(refs, slot, first, table, p)
        BY <3>3, <3>4, <3>5, FieldsAreShares
      <3> QED
        BY <3>1, <3>6 DEF ObjectsInv, LeavesExact
    <2> QED
      BY <2>1, <1>1 DEF LeavesExact
  <1>13. Unmade'
    BY <1>1, <1>4 DEF ObjectsInv, Unmade
  <1>14. Cookies'
    BY <1>1 DEF ObjectsInv, Cookies, CookiesExact, HostsCookie
  <1>15. Heard'
    BY <1>1 DEF ObjectsInv, Heard, EventSinks
  <1>16. Untouched'
    <2>1. refs'["ctx"] = refs["ctx"]
      BY <1>7, WrappersAre
    <2> QED
      BY <1>1, <1>2, <2>1 DEF ObjectsInv, Untouched
  <1> QED
    BY <1>6, <1>8, <1>9, <1>10, <1>11, <1>12, <1>13, <1>14, <1>15, <1>16, AllHold

-----------------------------------------------------------------------------
(***************************************************************************)
(* ShimObjects: the tables of sinks.                                       *)
(***************************************************************************)
LEMMA TablesAre ==
    ASSUME ObjectsInv, NEW t \in Tables
    PROVE  /\ table[t] \in Seq(SinkEntries) /\ Len(table[t]) \in Nat /\ DOMAIN table[t] = 1..Len(table[t])
           /\ Len(table[t]) <= SinkMax /\ next[t] \in Nat \ {0} /\ DOMAIN table = Tables /\ DOMAIN next = Tables
           /\ DOMAIN first = Sources
           /\ \A i \in DOMAIN table[t] : /\ table[t][i] \in SinkEntries
                                         /\ table[t][i].cookie \in Nat \ {0} /\ table[t][i].sink \in TipSinks
                                         /\ table[t][i].cookie < next[t]
  <1>1. /\ table[t] \in Seq(SinkEntries) /\ Len(table[t]) <= SinkMax /\ next[t] \in Nat \ {0}
        /\ DOMAIN table = Tables /\ DOMAIN next = Tables /\ DOMAIN first = Sources
    BY DEF ObjectsInv, ObjectKinds, RegistryKinds
  <1>2. Len(table[t]) \in Nat /\ DOMAIN table[t] = 1..Len(table[t])
    BY <1>1
  <1>3. ASSUME NEW i \in DOMAIN table[t]
        PROVE  /\ table[t][i] \in SinkEntries
               /\ table[t][i].cookie \in Nat \ {0} /\ table[t][i].sink \in TipSinks
               /\ table[t][i].cookie < next[t]
    <2>1. table[t][i] \in SinkEntries
      BY <1>1
    <2>2. table[t][i].cookie \in Nat \ {0} /\ table[t][i].sink \in TipSinks
      BY <2>1 DEF SinkEntries
    <2>3. [table |-> t, cookie |-> table[t][i].cookie, sink |-> table[t][i].sink] \in given
      BY DEF ObjectsInv, Cookies, CookiesExact
    <2>4. PICK g \in given : g = [table |-> t, cookie |-> table[t][i].cookie, sink |-> table[t][i].sink]
      BY <2>3
    <2>5. g.cookie < next[g.table]
      BY DEF ObjectsInv, Cookies, CookiesExact
    <2>6. table[t][i].cookie < next[t]
      BY <2>4, <2>5
    <2> QED
      BY <2>1, <2>2, <2>6
  <1> QED
    BY <1>1, <1>2, <1>3

LEMMA LeavesOfTables == TipSinks \subseteq Leaves /\ TipSinks \subseteq Counted /\ None \notin TipSinks
  BY ApartFromLeaves, ShimConstants DEF TipSinks, Leaves, Counted

\* What a source holds of p when it is alive.
SourceHolds(fs, tb, t, p) == Listings(tb[t], p) + (IF fs[t].sink = p THEN 1 ELSE 0)

LEMMA SourceHoldsIs ==
    ASSUME ObjectsInv
    PROVE  /\ \A t \in Sources : \A p : SourceHolds(first, table, t, p) \in Nat
           /\ \A t \in Sources \ made : \A p \in Leaves : SourceHolds(first, table, t, p) = 0
  <1>1. ASSUME NEW t \in Sources, NEW p PROVE SourceHolds(first, table, t, p) \in Nat
    <2>1. Listings(table[t], p) \in Nat
      BY SharesAre DEF ObjectsInv, ObjectKinds, Tables
    <2> QED
      BY <2>1 DEF SourceHolds
  <1>2. ASSUME NEW t \in Sources \ made, NEW p \in Leaves PROVE SourceHolds(first, table, t, p) = 0
    <2>1. table[t] = <<>> /\ first[t].sink # p
      BY ApartFromLeaves DEF ObjectsInv, Unmade
    <2>2. Listings(<<>>, p) = 0
      BY ListingsEmpty
    <2> QED
      BY <2>1, <2>2 DEF SourceHolds
  <1> QED
    BY <1>1, <1>2

\* One table changes: what its source holds changes by d, or what the bar does.
LEMMA OneTable ==
    ASSUME ObjectsInv, NEW t \in Tables, NEW p \in Leaves, NEW d \in Int,
           NEW rf, NEW fs, NEW tb,
           \A u \in Tables : u # t => tb[u] = table[u], \A u \in Sources : u # t => fs[u] = first[u],
           t \in Sources => rf[t] > 0 /\ SourceHolds(fs, tb, t, p) = SourceHolds(first, table, t, p) + d,
           t = "bar" => Listings(tb["bar"], p) = Listings(table["bar"], p) + d,
           \A o \in Owners : o \notin made \/ (rf[o] > 0 <=> refs[o] > 0),
           rf[p] = refs[p] + d
    PROVE  rf[p] = GlobalsTo(g_key_sink, tb, items, p) + FieldsTo(rf, slot, fs, tb, p)
  <1>1. /\ \A o : Share(refs, slot, o, p) \in Nat /\ Share(rf, slot, o, p) \in Nat
        /\ \A u \in Tables : Listings(table[u], p) \in Nat
        /\ \A u \in Sources : SourceShare(refs, first, table, u, p) \in Nat
        /\ GlobalsTo(g_key_sink, table, items, p) \in Nat
    <2>1. RegistryKinds
      BY DEF ObjectsInv, ObjectKinds
    <2> QED
      BY <2>1, SharesAre
  <1>2. refs[p] = GlobalsTo(g_key_sink, table, items, p) + FieldsTo(refs, slot, first, table, p)
    BY SlotsAre
  <1>3. \A o \in {"tm", "single", "km", "composition", "compartment"} : Share(rf, slot, o, p) = Share(refs, slot, o, p)
    <2> TAKE o \in {"tm", "single", "km", "composition", "compartment"}
    <2>1. o \notin made => slot[o] # p
      BY ApartFromLeaves DEF ObjectsInv, Unmade, Slotted
    <2> QED
      BY <2>1 DEF Share, Owners
  <1>4. \A u \in Sources : u # t => SourceShare(rf, fs, tb, u, p) = SourceShare(refs, first, table, u, p)
    <2> TAKE u \in Sources
    <2> HAVE u # t
    <2>1. u \in Owners /\ u \in Tables
      BY DEF Owners, Sources, Tables
    <2>2. tb[u] = table[u] /\ fs[u] = first[u]
      BY <2>1
    <2>3. SourceHolds(fs, tb, u, p) = SourceHolds(first, table, u, p)
      BY <2>2 DEF SourceHolds
    <2>4. u \notin made => SourceHolds(first, table, u, p) = 0
      BY SourceHoldsIs
    <2> QED
      BY <2>1, <2>3, <2>4 DEF SourceShare, SourceHolds
  <1>5. CASE t \in Sources
    <2>1. SourceShare(refs, first, table, t, p) = SourceHolds(first, table, t, p)
      <3>1. t \notin made => SourceHolds(first, table, t, p) = 0
        BY <1>5, SourceHoldsIs
      <3>2. t \in made => refs[t] > 0
        BY <1>5 DEF Owners, Sources
      <3> QED
        BY <3>1, <3>2 DEF SourceShare, SourceHolds
    <2>2. SourceShare(rf, fs, tb, t, p) = SourceShare(refs, first, table, t, p) + d
      BY <1>5, <2>1 DEF SourceShare, SourceHolds
    <2>3. GlobalsTo(g_key_sink, tb, items, p) = GlobalsTo(g_key_sink, table, items, p)
      <3>1. tb["bar"] = table["bar"]
        BY <1>5 DEF Sources, Tables
      <3> QED
        BY <3>1 DEF GlobalsTo
    <2>4. FieldsTo(rf, slot, fs, tb, p) = FieldsTo(refs, slot, first, table, p) + d
      <3>1. t \in {"tmsrc", "ctxsrc"}
        BY <1>5 DEF Sources
      <3>2. CASE t = "tmsrc"
        <4>1. SourceShare(rf, fs, tb, "ctxsrc", p) = SourceShare(refs, first, table, "ctxsrc", p)
          BY <3>2, <1>4 DEF Sources
        <4> QED
          BY <3>2, <4>1, <1>1, <1>3, <2>2, FieldsAreShares DEF Sources
      <3>3. CASE t = "ctxsrc"
        <4>1. SourceShare(rf, fs, tb, "tmsrc", p) = SourceShare(refs, first, table, "tmsrc", p)
          BY <3>3, <1>4 DEF Sources
        <4> QED
          BY <3>3, <4>1, <1>1, <1>3, <2>2, FieldsAreShares DEF Sources
      <3> QED
        BY <3>1, <3>2, <3>3
    <2>5. FieldsTo(refs, slot, first, table, p) \in Nat
      BY SlotsAre
    <2> QED
      BY <1>1, <1>2, <2>3, <2>4, <2>5
  <1>6. CASE t = "bar"
    <2>1. GlobalsTo(g_key_sink, tb, items, p) = GlobalsTo(g_key_sink, table, items, p) + d
      <3>1. Listings(tb["bar"], p) = Listings(table["bar"], p) + d /\ Listings(table["bar"], p) \in Nat
        BY <1>1, <1>6 DEF Tables
      <3>2. PICK x \in Nat : x = Listings(table["bar"], p)
        BY <3>1
      <3>3. Listings(tb["bar"], p) = x + d
        BY <3>1, <3>2
      <3> QED
        BY <3>2, <3>3 DEF GlobalsTo
    <2>2. FieldsTo(rf, slot, fs, tb, p) = FieldsTo(refs, slot, first, table, p)
      BY <1>3, <1>4, <1>6, FieldsAreShares DEF Sources
    <2>3. FieldsTo(refs, slot, first, table, p) \in Nat
      BY SlotsAre
    <2> QED
      BY <1>1, <1>2, <2>1, <2>2, <2>3
  <1> QED
    BY <1>5, <1>6 DEF Tables

\* The kinds of interface a sink is advised for.
Kinds == {"event", "other", "edit", "owner", "item"}

LEMMA AdviseIs ==
    ASSUME ObjectsInv, NEW t \in Tables, NEW s \in TipSinks, NEW iid \in Kinds, NEW rc \in [Counted -> Nat],
           AdviseSink(rc, t, s, iid), NEW e, e = [sink |-> s, iid |-> iid, cookie |-> next[t]]
    PROVE  /\ e \in SinkEntries /\ Len(table[t]) < SinkMax
           /\ table'[t] = Append(table[t], e) /\ \A u \in Tables : u # t => table'[u] = table[u]
           /\ table' \in [Tables -> Seq(SinkEntries)] /\ \A u \in Tables : Len(table'[u]) <= SinkMax
           /\ next'[t] = next[t] + 1 /\ (\A u \in Tables : u # t => next'[u] = next[u])
           /\ next' \in [Tables -> Nat \ {0}]
           /\ first' \in [Sources -> [sink : TipSinks \cup {None}, cookie : Nat]]
           /\ \A u \in Sources : first'[u] = IF u = t /\ first[u].sink = None THEN [sink |-> s, cookie |-> next[t]] ELSE first[u]
           /\ given' = given \cup {[table |-> t, cookie |-> next[t], sink |-> s]}
           /\ refs' \in [Counted -> Nat] /\ \A p \in Counted : p # s => refs'[p] = rc[p]
           /\ refs'[s] = rc[s] + 1 + (IF t \in Sources /\ first[t].sink = None THEN 1 ELSE 0)
           /\ UNCHANGED <<slot, g_key_sink, items>>
           /\ \A u \in Tables : DOMAIN table'[u] = 1..Len(table'[u])
  <1>1. /\ next[t] \in Nat \ {0} /\ table[t] \in Seq(SinkEntries)
        /\ table \in [Tables -> Seq(SinkEntries)] /\ next \in [Tables -> Nat \ {0}]
        /\ first \in [Sources -> [sink : TipSinks \cup {None}, cookie : Nat]]
        /\ \A u \in Tables : Len(table[u]) <= SinkMax
    BY DEF ObjectsInv, ObjectKinds, RegistryKinds
  <1>2. e \in SinkEntries
    BY <1>1 DEF SinkEntries, Kinds
  <1>3. table' = [table EXCEPT ![t] = Append(table[t], e)] /\ next' = [next EXCEPT ![t] = next[t] + 1]
    BY DEF AdviseSink
  <1>4. Append(table[t], e) \in Seq(SinkEntries)
    BY <1>1, <1>2
  <1>5. /\ table'[t] = Append(table[t], e) /\ \A u \in Tables : u # t => table'[u] = table[u]
        /\ table' \in [Tables -> Seq(SinkEntries)]
    BY <1>1, <1>3, <1>4
  <1>6. /\ next'[t] = next[t] + 1 /\ (\A u \in Tables : u # t => next'[u] = next[u])
        /\ next' \in [Tables -> Nat \ {0}]
    BY <1>1, <1>3
  <1>7. /\ first' \in [Sources -> [sink : TipSinks \cup {None}, cookie : Nat]]
        /\ \A u \in Sources : first'[u] = IF u = t /\ first[u].sink = None THEN [sink |-> s, cookie |-> next[t]] ELSE first[u]
    <2>1. [sink |-> s, cookie |-> next[t]] \in [sink : TipSinks \cup {None}, cookie : Nat]
      BY <1>1
    <2>2. first' = IF t \in Sources /\ first[t].sink = None THEN [first EXCEPT ![t] = [sink |-> s, cookie |-> next[t]]] ELSE first
      BY DEF AdviseSink
    <2>3. CASE t \in Sources /\ first[t].sink = None
      BY <1>1, <2>1, <2>2, <2>3
    <2>4. CASE ~(t \in Sources /\ first[t].sink = None)
      BY <1>1, <2>2, <2>4
    <2> QED
      BY <2>3, <2>4
  <1>8. /\ refs' \in [Counted -> Nat] /\ \A p \in Counted : p # s => refs'[p] = rc[p]
        /\ refs'[s] = rc[s] + 1 + (IF t \in Sources /\ first[t].sink = None THEN 1 ELSE 0)
    <2>1. s \in Counted
      BY LeavesOfTables
    <2>2. refs' = [rc EXCEPT ![s] = @ + 1 + (IF t \in Sources /\ first[t].sink = None THEN 1 ELSE 0)]
      BY DEF AdviseSink, One
    <2> QED
      BY <2>1, <2>2
  <1>9. Len(table[t]) < SinkMax /\ given' = given \cup {[table |-> t, cookie |-> next[t], sink |-> s]}
        /\ UNCHANGED <<slot, g_key_sink, items>>
    BY DEF AdviseSink, HasRoom
  <1>10. \A u \in Tables : Len(table'[u]) <= SinkMax
    <2>1. Len(Append(table[t], e)) = Len(table[t]) + 1 /\ Len(table[t]) \in Nat /\ SinkMax \in Nat
      BY <1>1, ShimConstants
    <2> QED
      <3>1. Len(table'[t]) <= SinkMax
        BY <1>5, <1>9, <2>1
      <3> QED
        BY <1>1, <1>5, <3>1
  <1>11. \A u \in Tables : DOMAIN table'[u] = 1..Len(table'[u])
    BY <1>5
  <1> QED
    BY <1>2, <1>5, <1>6, <1>7, <1>8, <1>9, <1>10, <1>11

\* A new registration, its sink counted once for the table and once for the field beside it.
LEMMA Advised ==
    ASSUME ObjectsInv, NEW t \in Tables, NEW s \in TipSinks, NEW iid \in Kinds, NEW rc \in [Counted -> Nat],
           AdviseSink(rc, t, s, iid), \A p \in Leaves : rc[p] = refs[p],
           \A o \in Owners : o \notin made \/ (rc[o] > 0 <=> refs[o] > 0), t \in Sources => rc[t] > 0
    PROVE  /\ RegistryKinds' /\ LeavesExact' /\ CookiesExact'
           /\ refs' \in [Counted -> Nat] /\ \A o \in Wrappers : refs'[o] = rc[o]
           /\ given' = given \cup {[table |-> t, cookie |-> next[t], sink |-> s]}
           /\ next'[t] = next[t] + 1 /\ (\A u \in Tables : u # t => next'[u] = next[u])
           /\ \A u \in Tables : u # t => table'[u] = table[u]
           /\ \A u \in Sources : u # t => first'[u] = first[u]
           /\ UNCHANGED slot
           /\ iid # "event" \/ t # "tmsrc" => (EventSinks' # {} => EventSinks # {})
  <1>0. PICK e : e = [sink |-> s, iid |-> iid, cookie |-> next[t]]
    OBVIOUS
  <1>1. /\ e \in SinkEntries /\ Len(table[t]) < SinkMax
        /\ table'[t] = Append(table[t], e) /\ \A u \in Tables : u # t => table'[u] = table[u]
        /\ table' \in [Tables -> Seq(SinkEntries)] /\ \A u \in Tables : Len(table'[u]) <= SinkMax
        /\ next'[t] = next[t] + 1 /\ (\A u \in Tables : u # t => next'[u] = next[u])
        /\ next' \in [Tables -> Nat \ {0}]
        /\ first' \in [Sources -> [sink : TipSinks \cup {None}, cookie : Nat]]
        /\ \A u \in Sources : first'[u] = IF u = t /\ first[u].sink = None THEN [sink |-> s, cookie |-> next[t]] ELSE first[u]
        /\ given' = given \cup {[table |-> t, cookie |-> next[t], sink |-> s]}
        /\ refs' \in [Counted -> Nat] /\ \A p \in Counted : p # s => refs'[p] = rc[p]
        /\ refs'[s] = rc[s] + 1 + (IF t \in Sources /\ first[t].sink = None THEN 1 ELSE 0)
        /\ UNCHANGED <<slot, g_key_sink, items>>
        /\ \A u \in Tables : DOMAIN table'[u] = 1..Len(table'[u])
    BY <1>0, AdviseIs
  <1>2. /\ table[t] \in Seq(SinkEntries) /\ Len(table[t]) \in Nat /\ DOMAIN table[t] = 1..Len(table[t])
        /\ next[t] \in Nat \ {0}
        /\ \A i \in DOMAIN table[t] : table[t][i].cookie < next[t] /\ table[t][i].cookie \in Nat \ {0}
    BY TablesAre
  <1>3. /\ DOMAIN table'[t] = 1..(Len(table[t]) + 1) /\ table'[t][Len(table[t]) + 1] = e
        /\ \A i \in 1..Len(table[t]) : table'[t][i] = table[t][i]
    <2>1. /\ Len(Append(table[t], e)) = Len(table[t]) + 1 /\ Append(table[t], e)[Len(table[t]) + 1] = e
          /\ \A i \in 1..Len(table[t]) : Append(table[t], e)[i] = table[t][i]
      BY <1>1, <1>2, AppendProperties
    <2> QED
      BY <1>1, <2>1
  <1>4. s \in Leaves /\ s \in Counted /\ s # None /\ s \notin Wrappers
    BY LeavesOfTables, WrappersAre
  <1>5. e.sink = s /\ e.cookie = next[t] /\ e.iid = iid
    BY <1>0
  <1>6. RegistryKinds'
    <2>1. [table |-> t, cookie |-> next[t], sink |-> s] \in Registrations
      BY <1>2 DEF Registrations
    <2>2. /\ slot \in [Slotted -> Sinks \cup {None}] /\ g_key_sink \in Sinks \cup {None}
          /\ items \in Seq(Items) /\ Len(items) <= 1 /\ given \in SUBSET Registrations
      BY DEF ObjectsInv, ObjectKinds, RegistryKinds
    <2> QED
      BY <1>1, <2>1, <2>2 DEF RegistryKinds
  <1>7. \A o \in Wrappers : refs'[o] = rc[o]
    BY <1>1, <1>4, WrappersAre
  <1>8. LeavesExact'
    <2>1. ASSUME NEW p \in Leaves
          PROVE  refs'[p] = GlobalsTo(g_key_sink', table', items', p) + FieldsTo(refs', slot', first', table', p)
      <3>1. Listings(Append(table[t], e), p) = Listings(table[t], p) + IF p = s THEN 1 ELSE 0
        BY <1>1, <1>2, <1>5, ListingsAppend
      <3>2. Listings(table[t], p) \in Nat
        BY <1>2, ListingsType
      <3>3. PICK d \in Int : d = IF p = s THEN 1 + (IF t \in Sources /\ first[t].sink = None THEN 1 ELSE 0) ELSE 0
        OBVIOUS
      <3>4. PICK rf, fs, tb : rf = refs' /\ fs = first' /\ tb = table'
        OBVIOUS
      <3>5. \A u \in Tables : u # t => tb[u] = table[u]
        BY <1>1, <3>4
      <3>6. \A u \in Sources : u # t => fs[u] = first[u]
        BY <1>1, <3>4
      <3>7. t \in Sources => rf[t] > 0 /\ SourceHolds(fs, tb, t, p) = SourceHolds(first, table, t, p) + d
        <4> SUFFICES ASSUME t \in Sources PROVE rf[t] > 0 /\ SourceHolds(fs, tb, t, p) = SourceHolds(first, table, t, p) + d
          OBVIOUS
        <4>1. rf[t] > 0
          BY <1>7, <3>4 DEF Sources, Wrappers, Middle, Inner
        <4>2. tb[t] = Append(table[t], e)
          BY <1>1, <3>4
        <4>3. fs[t] = IF first[t].sink = None THEN [sink |-> s, cookie |-> next[t]] ELSE first[t]
          BY <1>1, <3>4
        <4>4. p # None
          BY ApartFromLeaves
        <4>5. CASE first[t].sink = None
          <5>1. fs[t].sink = s
            BY <4>3, <4>5
          <5> QED
            BY <3>1, <3>2, <3>3, <4>1, <4>2, <4>4, <4>5, <5>1 DEF SourceHolds
        <4>6. CASE first[t].sink # None
          BY <3>1, <3>2, <3>3, <4>1, <4>2, <4>3, <4>6 DEF SourceHolds
        <4> QED
          BY <4>5, <4>6
      <3>8. t = "bar" => Listings(tb["bar"], p) = Listings(table["bar"], p) + d
        <4> HAVE t = "bar"
        <4>1. t \notin Sources
          BY DEF Sources
        <4>2. d = IF p = s THEN 1 ELSE 0
          BY <3>2, <3>3, <4>1
        <4>3. tb["bar"] = Append(table[t], e)
          BY <1>1, <3>4
        <4> QED
          BY <3>1, <4>2, <4>3
      <3>9. \A o \in Owners : o \notin made \/ (rf[o] > 0 <=> refs[o] > 0)
        BY <1>7, <3>4, WrappersAre
      <3>10. rf[p] = refs[p] + d
        <4>1. p \in Counted /\ rc[p] = refs[p] /\ rc[p] \in Nat
          BY WrappersAre DEF Counted
        <4>2. CASE p = s
          BY <1>1, <3>3, <3>4, <4>1, <4>2
        <4>3. CASE p # s
          BY <1>1, <3>3, <3>4, <4>1, <4>3
        <4> QED
          BY <4>2, <4>3
      <3>11. rf[p] = GlobalsTo(g_key_sink, tb, items, p) + FieldsTo(rf, slot, fs, tb, p)
        BY <3>5, <3>6, <3>7, <3>8, <3>9, <3>10, OneTable
      <3> QED
        BY <1>1, <3>4, <3>11
    <2> QED
      BY <2>1 DEF LeavesExact
  <1>9. CookiesExact'
    <2> DEFINE new == [table |-> t, cookie |-> next[t], sink |-> s]
               n == Len(table[t])
    <2>0. CookiesExact /\ given' = given \cup {new} /\ n \in Nat /\ DOMAIN table[t] = 1..n
      BY <1>1, <1>2 DEF ObjectsInv, Cookies
    <2>1. \A g \in given : g.table \in Tables /\ g.cookie \in Nat /\ g.cookie < next[g.table] /\ next[g.table] \in Nat
      BY <2>0 DEF CookiesExact, ObjectsInv, ObjectKinds, RegistryKinds, Registrations
    <2>2. \A g \in given' : g.cookie < next'[g.table]
      <3>1. new.cookie < next'[new.table]
        BY <1>1, <1>2
      <3>2. ASSUME NEW g \in given PROVE g.cookie < next'[g.table]
        <4>1. next'[g.table] = IF g.table = t THEN next[g.table] + 1 ELSE next[g.table]
          BY <1>1, <2>1
        <4> QED
          BY <2>1, <4>1
      <3> HIDE DEF new
      <3> QED
        BY <2>0, <3>1, <3>2
    <2>3. \A u \in Tables : \A i, j \in DOMAIN table'[u] : table'[u][i].cookie = table'[u][j].cookie => i = j
      <3>1. \A u \in Tables : u # t => \A i, j \in DOMAIN table'[u] : table'[u][i].cookie = table'[u][j].cookie => i = j
        <4>1. \A u \in Tables : u # t => table'[u] = table[u]
          BY <1>1
        <4> QED
          BY <2>0, <4>1 DEF CookiesExact
      <3>2. \A i, j \in DOMAIN table'[t] : table'[t][i].cookie = table'[t][j].cookie => i = j
        <4>1. \A i \in 1..n : table'[t][i].cookie < next[t] /\ table'[t][i].cookie \in Nat
          BY <1>2, <1>3
        <4>2. table'[t][n + 1].cookie = next[t] /\ DOMAIN table'[t] = 1..(n + 1)
          BY <1>3, <1>5
        <4>3. \A i, j \in 1..n : table'[t][i].cookie = table'[t][j].cookie => i = j
          <5>1. \A i, j \in DOMAIN table[t] : table[t][i].cookie = table[t][j].cookie => i = j
            BY <2>0 DEF CookiesExact
          <5> QED
            BY <1>3, <2>0, <5>1
        <4>4. next[t] \in Nat
          BY <1>2
        <4> HIDE DEF n
        <4>5. \A i \in 1..(n + 1) : i \in 1..n \/ i = n + 1
          BY <2>0
        <4> QED
          BY <2>0, <4>1, <4>2, <4>3, <4>4, <4>5
      <3> QED
        BY <3>1, <3>2
    <2>4. \A u \in Tables : \A i \in DOMAIN table'[u] :
              [table |-> u, cookie |-> table'[u][i].cookie, sink |-> table'[u][i].sink] \in given'
      <3>1. \A u \in Tables : u # t => \A i \in DOMAIN table'[u] :
                [table |-> u, cookie |-> table'[u][i].cookie, sink |-> table'[u][i].sink] \in given'
        BY <1>1, <2>0 DEF CookiesExact
      <3>2. \A i \in 1..n : [table |-> t, cookie |-> table'[t][i].cookie, sink |-> table'[t][i].sink] \in given'
        BY <1>3, <2>0 DEF CookiesExact
      <3>3. [table |-> t, cookie |-> table'[t][n + 1].cookie, sink |-> table'[t][n + 1].sink] \in given'
        BY <1>3, <1>5, <2>0
      <3>4. DOMAIN table'[t] = 1..(n + 1)
        BY <1>3
      <3> HIDE DEF n
      <3>5. \A i \in 1..(n + 1) : i \in 1..n \/ i = n + 1
        BY <2>0
      <3> QED
        BY <3>1, <3>2, <3>3, <3>4, <3>5
    <2>5. \A g \in given' : \E i \in DOMAIN table'[g.table] :
              table'[g.table][i].cookie = g.cookie /\ table'[g.table][i].sink = g.sink
      <3>1. ASSUME NEW g \in given
            PROVE  \E i \in DOMAIN table'[g.table] : table'[g.table][i].cookie = g.cookie /\ table'[g.table][i].sink = g.sink
        <4>1. PICK i \in DOMAIN table[g.table] : table[g.table][i].cookie = g.cookie /\ table[g.table][i].sink = g.sink
          BY <2>0 DEF CookiesExact
        <4>2. CASE g.table = t
          <5>1. i \in 1..n /\ i \in 1..(n + 1)
            BY <2>0, <4>1, <4>2
          <5>2. i \in DOMAIN table'[t] /\ table'[t][i] = table[t][i]
            BY <1>3, <5>1
          <5> QED
            BY <4>1, <4>2, <5>2
        <4>3. CASE g.table # t
          BY <1>1, <2>1, <4>1, <4>3
        <4> QED
          BY <4>2, <4>3
      <3>2. \E i \in DOMAIN table'[t] : table'[t][i].cookie = next[t] /\ table'[t][i].sink = s
        <4>1. n + 1 \in DOMAIN table'[t]
          BY <1>3, <2>0
        <4> QED
          BY <1>3, <1>5, <4>1
      <3>3. new.table = t /\ new.cookie = next[t] /\ new.sink = s
        OBVIOUS
      <3> HIDE DEF new
      <3> QED
        BY <2>0, <3>1, <3>2, <3>3
    <2>6. \A u \in Sources : first'[u].sink # None =>
              [table |-> u, cookie |-> first'[u].cookie, sink |-> first'[u].sink] \in given'
      <3> TAKE u \in Sources
      <3> HAVE first'[u].sink # None
      <3>1. CASE u = t /\ first[u].sink = None
        <4>1. first'[u] = [sink |-> s, cookie |-> next[t]]
          BY <1>1, <3>1
        <4> QED
          BY <2>0, <3>1, <4>1
      <3>2. CASE ~(u = t /\ first[u].sink = None)
        <4>1. first'[u] = first[u]
          BY <1>1, <3>2
        <4> QED
          BY <2>0, <4>1 DEF CookiesExact
      <3> QED
        BY <3>1, <3>2
    <2> QED
      BY <2>2, <2>3, <2>4, <2>5, <2>6 DEF CookiesExact
  <1>10. iid # "event" \/ t # "tmsrc" => (EventSinks' # {} => EventSinks # {})
    <2> SUFFICES ASSUME iid # "event" \/ t # "tmsrc", NEW i \in DOMAIN table'["tmsrc"], table'["tmsrc"][i].iid = "event"
                 PROVE  \E j \in DOMAIN table["tmsrc"] : table["tmsrc"][j].iid = "event"
      BY DEF EventSinks
    <2>1. CASE t # "tmsrc"
      BY <1>1, <2>1 DEF Tables, Sources
    <2>2. CASE t = "tmsrc"
      <3>1. PICK n \in Nat : n = Len(table[t])
        BY <1>2
      <3>2. i \in 1..(n + 1) /\ table'[t][n + 1].iid # "event"
        BY <1>3, <1>5, <2>2, <3>1
      <3>3. i \in 1..n
        BY <2>2, <3>1, <3>2
      <3>4. i \in DOMAIN table[t] /\ table[t][i].iid = "event"
        BY <1>2, <1>3, <2>2, <3>1, <3>3
      <3> QED
        BY <2>2, <3>4
    <2> QED
      BY <2>1, <2>2
  <1> QED
    BY <1>1, <1>6, <1>7, <1>8, <1>9, <1>10

LEMMA StepTipAdvise ==
    ASSUME ObjectsInv, NEW t \in Tables, NEW s \in Sinks, NEW iid \in Iids[t], TipAdvise(t, s, iid) PROVE ObjectsInv'
  <1>1. /\ TipRuns /\ calls' = calls + 1 /\ calls < MaxCalls /\ (t \in Sources => held[t] > 0)
        /\ AdviseSink(refs, t, s, iid) /\ UNCHANGED <<host, loaded, focus, made, held, active>>
    BY DEF TipAdvise, Calls, hostUnchanged
  <1>2. At[host] \in 3..10 /\ host # "done"
    BY <1>1, TipIsUp
  <1>3. s \in TipSinks /\ s # HostSink /\ s \in Counted
    BY ShimConstants, LeavesOfTables DEF TipSinks
  <1>4. iid \in Kinds /\ (iid = "event" => t = "tmsrc") /\ (iid = "edit" => t = "ctxsrc") /\ iid # "owner"
    BY DEF Iids, Kinds, Tables, Sources
  <1>5. t \in Sources => t \in made /\ refs[t] > 0
    BY <1>1, TipIsUp, WrappersAre DEF Sources
  <1>6. refs \in [Counted -> Nat]
    BY DEF ObjectsInv, ObjectKinds, CountKinds
  <1>7. /\ RegistryKinds' /\ LeavesExact' /\ CookiesExact'
        /\ refs' \in [Counted -> Nat] /\ \A o \in Wrappers : refs'[o] = refs[o]
        /\ given' = given \cup {[table |-> t, cookie |-> next[t], sink |-> s]}
        /\ next'[t] = next[t] + 1 /\ (\A u \in Tables : u # t => next'[u] = next[u])
        /\ \A u \in Tables : u # t => table'[u] = table[u]
        /\ \A u \in Sources : u # t => first'[u] = first[u]
        /\ UNCHANGED slot
        /\ iid # "event" \/ t # "tmsrc" => (EventSinks' # {} => EventSinks # {})
    BY <1>1, <1>3, <1>4, <1>5, <1>6, Advised
  <1>8. wild' = wild
    <2>1. wild' = wild \cup Dead(Consulted(iid))
      BY <1>1 DEF AdviseSink
    <2>2. \A o \in Consulted(iid) : refs[o] > 0
      <3>1. refs["tm"] > 0
        BY <1>1, TipIsUp
      <3>2. "doc" \in made => refs["doc"] > 0
        BY <1>2, Living DEF ObjectsInv, Stages
      <3>3. iid = "edit" => refs["ctx"] > 0
        <4> HAVE iid = "edit"
        <4>1. held["ctxsrc"] > 0
          BY <1>1, <1>4 DEF Sources
        <4>2. At[host] >= 7
          BY <4>1 DEF ObjectsInv, Stages
        <4> QED
          BY <1>2, <4>2, Living
      <3>4. "ctx" \in made => refs["ctx"] > 0
        BY <1>2, Living DEF ObjectsInv, Stages
      <3> QED
        BY <3>1, <3>2, <3>3, <3>4 DEF Consulted
    <2> QED
      BY <2>1, <2>2 DEF Dead
  <1>9. told' = (told \/ (iid = "event" /\ focus))
    BY <1>1 DEF AdviseSink, Announced
  <1>10. HostKinds'
    BY <1>1, <1>8, <1>9, ShimConstants DEF ObjectsInv, ObjectKinds, HostKinds
  <1>11. CountKinds'
    <2>1. calls \in Nat
      BY SlotsAre
    <2>2. held' = held /\ held \in [Wrappers -> Nat] /\ \A o \in Wrappers : held[o] <= calls
      BY <1>1 DEF ObjectsInv, ObjectKinds, CountKinds
    <2>3. \A o \in Wrappers : held[o] <= calls'
      BY <1>1, <2>1, <2>2
    <2> QED
      BY <1>7, <2>2, <2>3 DEF CountKinds
  <1>12. Stages' /\ WrappersExact' /\ Untouched'
    BY <1>1, <1>7, <1>8, QuietWrappers
  <1>13. Unmade'
    BY <1>1, <1>5, <1>7 DEF ObjectsInv, Unmade, Tables
  <1>14. HostsCookie'
    <2>1. HostsCookie /\ host' = host
      BY <1>1 DEF ObjectsInv, Cookies
    <2>2. PICK new : new = [table |-> t, cookie |-> next[t], sink |-> s]
      OBVIOUS
    <2>3. new # HostAdvised /\ new.sink # HostSink /\ given' = given \cup {new}
      BY <1>3, <1>7, <2>2 DEF HostAdvised
    <2>4. At[host] < 6 => t # "ctxsrc"
      <3>1. t = "ctxsrc" => held["ctxsrc"] > 0
        BY <1>1 DEF Sources
      <3> QED
        BY <1>2, <3>1 DEF ObjectsInv, Stages
    <2>5. At[host] < 6 => next'["ctxsrc"] = 1
      BY <1>7, <2>1, <2>4 DEF HostsCookie, Tables, Sources
    <2> QED
      BY <2>1, <2>3, <2>5 DEF HostsCookie
  <1>15. Heard'
    <2>1. Heard
      BY DEF ObjectsInv
    <2>2. CASE iid = "event"
      BY <1>1, <1>9, <2>2 DEF Heard, ObjectsInv, Stages
    <2>3. CASE iid # "event"
      BY <1>1, <1>7, <1>9, <2>1, <2>3 DEF Heard
    <2> QED
      BY <2>2, <2>3
  <1>16. Cookies'
    BY <1>7, <1>14 DEF Cookies
  <1> QED
    BY <1>7, <1>10, <1>11, <1>12, <1>13, <1>15, <1>16, AllHold

LEMMA StepCompositionSinkAdvise == ASSUME ObjectsInv, CompositionSinkAdvise PROVE ObjectsInv'
  <1> DEFINE rc == [refs EXCEPT !["ctxsrc"] = 1]
  <1>1. At[host] = 5 /\ At[host'] = 6 /\ host # "done" /\ host' \in Steps /\ host' # "done"
    BY StageIs DEF CompositionSinkAdvise, HostAt
  <1>2. /\ made' = made \cup {"ctxsrc"} /\ AdviseSink(rc, "ctxsrc", HostSink, "owner")
        /\ UNCHANGED <<loaded, focus, held, active, calls>>
    BY DEF CompositionSinkAdvise, HostAt
  <1>3. "ctxsrc" \notin made /\ "ctxsrc" \in Wrappers /\ "ctxsrc" \in Counted /\ "ctxsrc" \in Tables /\ "ctxsrc" \in Sources
    BY <1>1, WrappersAre DEF ObjectsInv, Stages, Tables, Sources
  <1>4. refs["ctxsrc"] = 0 /\ held["ctxsrc"] = 0 /\ refs["ctx"] > 0
    BY <1>1, <1>3, FreshAreFree, Living
  <1>5. rc \in [Counted -> Nat] /\ rc["ctxsrc"] = 1 /\ \A p \in Counted : p # "ctxsrc" => rc[p] = refs[p]
    BY <1>3 DEF ObjectsInv, ObjectKinds, CountKinds
  <1> HIDE DEF rc
  <1>6. HostSink \in TipSinks /\ "owner" \in Kinds
    BY DEF TipSinks, Kinds
  <1>7. \A p \in Leaves : rc[p] = refs[p]
    BY <1>5, WrappersAre DEF Counted
  <1>8. \A o \in Owners : o \notin made \/ (rc[o] > 0 <=> refs[o] > 0)
    BY <1>3, <1>5, WrappersAre
  <1>9. "ctxsrc" \in Sources => rc["ctxsrc"] > 0
    BY <1>5
  <1>10. /\ RegistryKinds' /\ LeavesExact' /\ CookiesExact'
         /\ refs' \in [Counted -> Nat] /\ \A o \in Wrappers : refs'[o] = rc[o]
         /\ given' = given \cup {[table |-> "ctxsrc", cookie |-> next["ctxsrc"], sink |-> HostSink]}
         /\ next'["ctxsrc"] = next["ctxsrc"] + 1
         /\ \A u \in Tables : u # "ctxsrc" => table'[u] = table[u]
         /\ \A u \in Sources : u # "ctxsrc" => first'[u] = first[u]
         /\ UNCHANGED slot
    BY <1>2, <1>3, <1>5, <1>6, <1>7, <1>8, <1>9, Advised
  <1>11. wild' = wild /\ told' = told
    BY <1>2 DEF AdviseSink, Consulted, Dead, Announced, ObjectsInv, ObjectKinds, HostKinds
  <1>12. HostKinds'
    BY <1>1, <1>2, <1>3, <1>11 DEF ObjectsInv, ObjectKinds, HostKinds
  <1>13. CountKinds'
    BY <1>2, <1>10 DEF ObjectsInv, ObjectKinds, CountKinds
  <1>14. Stages'
    BY <1>1, <1>2, <1>3 DEF ObjectsInv, Stages
  <1>15. \A p \in Wrappers : p # "ctxsrc" => refs'[p] = refs[p]
    BY <1>5, <1>10, WrappersAre
  <1>16. WrappersExact'
    <2>1. \A q \in {"ex", "tm", "ctx", "view", "composition"} : \A p : p # "ctxsrc" => Field(q, p)' = Field(q, p)
      BY <1>2, <1>15, WrappersAre DEF Field
    <2>2. refs'["ctxsrc"] = 1 /\ Field("ctx", "ctxsrc")' = 1
      BY <1>2, <1>3, <1>4, <1>5, <1>10, <1>15, WrappersAre DEF Field
    <2>3. \A p : MainHas(6, p) = MainHas(5, p)
      BY DEF MainHas
    <2> QED
      BY <1>1, <1>2, <1>4, <1>15, <2>1, <2>2, <2>3, WrappersAre DEF ObjectsInv, WrappersExact
  <1>17. Untouched'
    <2>1. refs'["ctx"] = refs["ctx"]
      BY <1>15, WrappersAre
    <2> QED
      BY <2>1, <1>1, <1>2, <1>11 DEF ObjectsInv, Untouched
  <1>18. Unmade'
    BY <1>2, <1>3, <1>10 DEF ObjectsInv, Unmade, Tables
  <1>19. HostsCookie'
    <2>1. HostsCookie /\ next["ctxsrc"] = 1
      BY <1>1 DEF ObjectsInv, Cookies, HostsCookie
    <2>2. given' = given \cup {HostAdvised}
      BY <1>10, <2>1 DEF HostAdvised
    <2>3. HostAdvised \in given' /\ \A g \in given' : g.sink = HostSink => g = HostAdvised
      BY <2>1, <2>2 DEF HostsCookie
    <2> QED
      BY <1>1, <2>3 DEF HostsCookie
  <1>20. Heard'
    BY <1>1 DEF Heard
  <1>21. Cookies'
    BY <1>10, <1>19 DEF Cookies
  <1> QED
    BY <1>10, <1>12, <1>13, <1>14, <1>16, <1>17, <1>18, <1>20, <1>21, AllHold

-----------------------------------------------------------------------------
\* Where the entry at j was before the one at i was taken out.
Before(i, j) == IF j < i THEN j ELSE j + 1

LEMMA RemoveMaps ==
    ASSUME NEW q \in Seq(SinkEntries), NEW i \in DOMAIN q, NEW r, r = RemoveAt(q, i)
    PROVE  /\ r \in Seq(SinkEntries) /\ Len(r) = Len(q) - 1
           /\ \A j \in DOMAIN r : Before(i, j) \in DOMAIN q /\ Before(i, j) # i /\ r[j] = q[Before(i, j)]
           /\ \A j, k \in DOMAIN r : Before(i, j) = Before(i, k) => j = k
           /\ \A k \in DOMAIN q : k # i => \E j \in DOMAIN r : r[j] = q[k]
  <1>1. PICK n \in Nat : n = Len(q)
    OBVIOUS
  <1>2. r \in Seq(SinkEntries) /\ Len(r) = n - 1 /\ i \in 1..n
        /\ \A j \in 1..(n - 1) : r[j] = IF j < i THEN q[j] ELSE q[j + 1]
    BY <1>1, RemoveIs
  <1>3. DOMAIN q = 1..n /\ DOMAIN r = 1..(n - 1)
    <2>1. DOMAIN q = 1..n
      BY <1>1
    <2>2. DOMAIN r = 1..Len(r)
      BY <1>2
    <2> QED
      BY <2>1, <2>2, <1>2
  <1>4. ASSUME NEW j \in 1..(n - 1) PROVE Before(i, j) \in 1..n /\ Before(i, j) # i /\ r[j] = q[Before(i, j)]
    BY <1>1, <1>2 DEF Before
  <1>5. ASSUME NEW j \in 1..(n - 1), NEW k \in 1..(n - 1), Before(i, j) = Before(i, k) PROVE j = k
    BY <1>1, <1>2, <1>5 DEF Before
  <1>6. ASSUME NEW k \in 1..n, k # i PROVE \E j \in 1..(n - 1) : r[j] = q[k]
    <2>1. CASE k < i
      BY <2>1, <1>1, <1>2
    <2>2. CASE k > i
      <3>1. PICK j \in Int : j = k - 1
        OBVIOUS
      <3>2. j \in 1..(n - 1) /\ ~(j < i) /\ j + 1 = k
        BY <2>2, <3>1, <1>1, <1>2
      <3>3. r[j] = q[k]
        BY <3>2, <1>2
      <3> QED
        BY <3>2, <3>3
    <2> QED
      BY <2>1, <2>2, <1>2, <1>6
  <1> QED
    BY <1>1, <1>2, <1>3, <1>4, <1>5, <1>6

\* The entry of a registration.
LEMMA EntryOf ==
    ASSUME ObjectsInv, NEW g \in given
    PROVE  /\ g \in Registrations
           /\ \E i \in DOMAIN table[g.table] :
                  /\ i = CHOOSE j \in DOMAIN table[g.table] : table[g.table][j].cookie = g.cookie
                  /\ table[g.table][i].cookie = g.cookie /\ table[g.table][i].sink = g.sink
                  /\ \A j \in DOMAIN table[g.table] : table[g.table][j].cookie = g.cookie => j = i
  <1>1. g \in Registrations /\ g.table \in Tables
    BY DEF ObjectsInv, ObjectKinds, RegistryKinds, Registrations
  <1>2. PICK k \in DOMAIN table[g.table] : table[g.table][k].cookie = g.cookie /\ table[g.table][k].sink = g.sink
    BY DEF ObjectsInv, Cookies, CookiesExact
  <1>3. \A j \in DOMAIN table[g.table] : table[g.table][j].cookie = g.cookie => j = k
    BY <1>1, <1>2 DEF ObjectsInv, Cookies, CookiesExact
  <1>4. k = CHOOSE j \in DOMAIN table[g.table] : table[g.table][j].cookie = g.cookie
    BY <1>2, <1>3
  <1> QED
    BY <1>1, <1>2, <1>3, <1>4

\* What is kept beside the table is kept for one of its entries.
LEMMA FirstIsListed ==
    ASSUME ObjectsInv, NEW t \in Sources, NEW i \in DOMAIN table[t], first[t].sink # None,
           first[t].cookie = table[t][i].cookie
    PROVE  first[t].sink = table[t][i].sink
  <1>1. PICK g \in given : g = [table |-> t, cookie |-> first[t].cookie, sink |-> first[t].sink]
    BY DEF ObjectsInv, Cookies, CookiesExact
  <1>2. PICK k \in DOMAIN table[t] : table[t][k].cookie = g.cookie /\ table[t][k].sink = g.sink
    BY <1>1, EntryOf
  <1>3. k = i
    BY <1>1, <1>2 DEF ObjectsInv, Cookies, CookiesExact, Tables
  <1> QED
    BY <1>1, <1>2, <1>3

\* The registration g of t, at the place i and for the sink s, is taken out: r is left.
Withdrawal(g, t, i, r, s) ==
    /\ r = RemoveAt(table[t], i) /\ s = g.sink
    /\ table[t][i].cookie = g.cookie /\ table[t][i].sink = s
    /\ \A j \in DOMAIN table[t] : table[t][j].cookie = g.cookie => j = i
    /\ table'[t] = r /\ \A u \in Tables : u # t => table'[u] = table[u]
    /\ table' \in [Tables -> Seq(SinkEntries)] /\ \A u \in Tables : Len(table'[u]) <= SinkMax
    /\ first' \in [Sources -> [sink : TipSinks \cup {None}, cookie : Nat]]
    /\ \A u \in Sources : u # t => first'[u] = first[u]
    /\ t \in Sources =>
         first'[t] = IF FirstToo(t, g.cookie) THEN [sink |-> None, cookie |-> 0] ELSE first[t]
    /\ given' = {h \in given : h.table # t \/ h.cookie # g.cookie}
    /\ refs' = [refs EXCEPT ![s] = @ - 1 - One(FirstToo(t, g.cookie))]
    /\ UNCHANGED <<next, slot, g_key_sink, items, told, wild>>

LEMMA UnadviseIs ==
    ASSUME ObjectsInv, NEW g \in given, NEW t \in Tables, t = g.table, UnadviseSink(t, g.cookie), t \in Sources => refs[t] > 0
    PROVE  \E i \in DOMAIN table[t], r \in Seq(SinkEntries), s \in TipSinks : Withdrawal(g, t, i, r, s)
  <1>1. g \in Registrations /\ t \in Tables
    BY EntryOf DEF Registrations
  <1>2. PICK i \in DOMAIN table[t] :
            /\ i = CHOOSE j \in DOMAIN table[t] : table[t][j].cookie = g.cookie
            /\ table[t][i].cookie = g.cookie /\ table[t][i].sink = g.sink
            /\ \A j \in DOMAIN table[t] : table[t][j].cookie = g.cookie => j = i
    BY EntryOf
  <1>3. PICK s \in TipSinks : s = g.sink /\ s = table[t][i].sink
    BY <1>1, <1>2 DEF Registrations
  <1>4. /\ table[t] \in Seq(SinkEntries) /\ table \in [Tables -> Seq(SinkEntries)]
        /\ first \in [Sources -> [sink : TipSinks \cup {None}, cookie : Nat]]
        /\ \A u \in Tables : Len(table[u]) <= SinkMax
    BY <1>1 DEF ObjectsInv, ObjectKinds, RegistryKinds
  <1>5. PICK r \in Seq(SinkEntries) : r = RemoveAt(table[t], i) /\ Len(r) = Len(table[t]) - 1
    <2>1. PICK q \in Seq(SinkEntries) : q = table[t]
      BY <1>4
    <2>2. PICK r : r = RemoveAt(q, i)
      OBVIOUS
    <2>3. r \in Seq(SinkEntries) /\ Len(r) = Len(q) - 1
      BY <2>1, <2>2, RemoveMaps
    <2> QED
      BY <2>1, <2>2, <2>3
  <1>6. /\ refs' = [refs EXCEPT ![s] = @ - 1 - One(FirstToo(t, g.cookie))]
        /\ table' = [table EXCEPT ![t] = r]
        /\ first' = IF FirstToo(t, g.cookie) THEN [first EXCEPT ![t] = [sink |-> None, cookie |-> 0]] ELSE first
        /\ given' = {h \in given : h.table # t \/ h.cookie # g.cookie}
        /\ UNCHANGED <<next, slot, g_key_sink, items, told, wild>>
    BY <1>2, <1>3, <1>5 DEF UnadviseSink
  <1>7. /\ table'[t] = r /\ \A u \in Tables : u # t => table'[u] = table[u]
        /\ table' \in [Tables -> Seq(SinkEntries)]
    BY <1>1, <1>4, <1>6
  <1>8. \A u \in Tables : Len(table'[u]) <= SinkMax
    <2>1. Len(table[t]) \in Nat /\ Len(table[t]) <= SinkMax /\ SinkMax \in Nat
      BY <1>1, <1>4, ShimConstants
    <2>2. Len(table'[t]) <= SinkMax
      BY <1>5, <1>7, <2>1
    <2>3. \A u \in Tables : u # t => Len(table'[u]) <= SinkMax
      BY <1>4, <1>7
    <2> QED
      BY <2>2, <2>3
  <1>9. FirstToo(t, g.cookie) => t \in Sources
    BY DEF FirstToo
  <1>10. /\ first' \in [Sources -> [sink : TipSinks \cup {None}, cookie : Nat]]
         /\ \A u \in Sources : u # t => first'[u] = first[u]
         /\ t \in Sources =>
              first'[t] = IF FirstToo(t, g.cookie) THEN [sink |-> None, cookie |-> 0] ELSE first[t]
    <2>1. CASE FirstToo(t, g.cookie)
      BY <1>4, <1>6, <1>9, <2>1
    <2>2. CASE ~FirstToo(t, g.cookie)
      BY <1>4, <1>6, <2>2
    <2> QED
      BY <2>1, <2>2
  <1> QED
    BY <1>1, <1>2, <1>3, <1>5, <1>6, <1>7, <1>8, <1>10 DEF Withdrawal

\* A withdrawn registration, its sink let go of once for the table and once for the field beside it.
LEMMA Unadvised ==
    ASSUME ObjectsInv, NEW g \in given, NEW t, t = g.table, UnadviseSink(t, g.cookie), t \in Sources => refs[t] > 0
    PROVE  /\ RegistryKinds' /\ LeavesExact' /\ CookiesExact' /\ t \in Tables
           /\ refs' \in [Counted -> Nat] /\ \A o \in Wrappers : refs'[o] = refs[o]
           /\ given' = {h \in given : h.table # t \/ h.cookie # g.cookie}
           /\ \A u \in Tables : u # t => table'[u] = table[u]
           /\ \A u \in Sources : u # t => first'[u] = first[u]
           /\ UNCHANGED <<next, slot, told, wild>>
           /\ EventSinks' # {} => EventSinks # {}
  <1>0. t \in Tables
    BY EntryOf DEF Registrations
  <1>a. PICK i \in DOMAIN table[t], r \in Seq(SinkEntries), s \in TipSinks : Withdrawal(g, t, i, r, s)
    BY <1>0, UnadviseIs
  <1>1. /\ r = RemoveAt(table[t], i) /\ s = g.sink
        /\ table[t][i].cookie = g.cookie /\ table[t][i].sink = s
        /\ \A j \in DOMAIN table[t] : table[t][j].cookie = g.cookie => j = i
        /\ table'[t] = r /\ \A u \in Tables : u # t => table'[u] = table[u]
        /\ table' \in [Tables -> Seq(SinkEntries)] /\ \A u \in Tables : Len(table'[u]) <= SinkMax
        /\ first' \in [Sources -> [sink : TipSinks \cup {None}, cookie : Nat]]
        /\ \A u \in Sources : u # t => first'[u] = first[u]
        /\ t \in Sources =>
             first'[t] = IF FirstToo(t, g.cookie) THEN [sink |-> None, cookie |-> 0] ELSE first[t]
        /\ given' = {h \in given : h.table # t \/ h.cookie # g.cookie}
        /\ refs' = [refs EXCEPT ![s] = @ - 1 - One(FirstToo(t, g.cookie))]
        /\ UNCHANGED <<next, slot, g_key_sink, items, told, wild>>
    BY <1>a DEF Withdrawal
  <1>2. /\ table[t] \in Seq(SinkEntries)
        /\ \A j \in DOMAIN r : Before(i, j) \in DOMAIN table[t] /\ Before(i, j) # i /\ r[j] = table[t][Before(i, j)]
        /\ \A j, k \in DOMAIN r : Before(i, j) = Before(i, k) => j = k
        /\ \A k \in DOMAIN table[t] : k # i => \E j \in DOMAIN r : r[j] = table[t][k]
    <2>1. table[t] \in Seq(SinkEntries)
      BY <1>0, <1>1, TablesAre
    <2> QED
      BY <1>0, <1>1, <2>1, RemoveMaps
  <1>3. s \in Leaves /\ s \in Counted /\ s # None /\ s \notin Wrappers
    BY <1>0, <1>1, LeavesOfTables, WrappersAre
  <1>4. RegistryKinds'
    <2>1. /\ slot \in [Slotted -> Sinks \cup {None}] /\ g_key_sink \in Sinks \cup {None}
          /\ items \in Seq(Items) /\ Len(items) <= 1 /\ given \in SUBSET Registrations /\ next \in [Tables -> Nat \ {0}]
      BY DEF ObjectsInv, ObjectKinds, RegistryKinds
    <2>2. given' \in SUBSET Registrations
      BY <1>0, <1>1, <2>1
    <2> QED
      BY <1>0, <1>1, <2>1, <2>2 DEF RegistryKinds
  <1>5. PICK too \in {0, 1} : too = One(FirstToo(t, g.cookie)) /\ too = IF FirstToo(t, g.cookie) THEN 1 ELSE 0
    BY DEF One
  <1>6. refs \in [Counted -> Nat]
    BY DEF ObjectsInv, ObjectKinds, CountKinds
  <1>7. DOMAIN refs' = Counted /\ refs' = [p \in Counted |-> refs'[p]]
        /\ refs'[s] = refs[s] - 1 - too /\ \A p \in Counted : p # s => refs'[p] = refs[p]
    BY <1>0, <1>1, <1>3, <1>5, <1>6
  <1>8. \A o \in Wrappers : refs'[o] = refs[o]
    BY <1>3, <1>7, WrappersAre
  <1>9. LeavesExact'
    <2>1. ASSUME NEW p \in Leaves
          PROVE  refs'[p] = GlobalsTo(g_key_sink', table', items', p) + FieldsTo(refs', slot', first', table', p)
      <3>1. Listings(r, p) = Listings(table[t], p) - IF p = s THEN 1 ELSE 0
        <4>1. Listings(RemoveAt(table[t], i), p) = Listings(table[t], p) - IF table[t][i].sink = p THEN 1 ELSE 0
          BY <1>2, ListingsRemove
        <4> QED
          BY <1>0, <1>1, <4>1
      <3>2. Listings(table[t], p) \in Nat
        BY <1>2, ListingsType
      <3>3. PICK d \in Int : d = IF p = s THEN 0 - 1 - too ELSE 0
        OBVIOUS
      <3>4. PICK rf, fs, tb : rf = refs' /\ fs = first' /\ tb = table'
        OBVIOUS
      <3>5. \A u \in Tables : u # t => tb[u] = table[u]
        BY <1>0, <1>1, <3>4
      <3>6. \A u \in Sources : u # t => fs[u] = first[u]
        BY <1>0, <1>1, <3>4
      <3>7. t \in Sources => rf[t] > 0 /\ SourceHolds(fs, tb, t, p) = SourceHolds(first, table, t, p) + d
        <4> SUFFICES ASSUME t \in Sources PROVE rf[t] > 0 /\ SourceHolds(fs, tb, t, p) = SourceHolds(first, table, t, p) + d
          OBVIOUS
        <4>1. rf[t] > 0
          BY <1>8, <3>4 DEF Sources, Wrappers, Middle, Inner
        <4>2. tb[t] = r
          BY <1>0, <1>1, <3>4
        <4>3. fs[t] = IF FirstToo(t, g.cookie) THEN [sink |-> None, cookie |-> 0] ELSE first[t]
          BY <1>0, <1>1, <3>4
        <4>4. p # None
          BY ApartFromLeaves
        <4>5. CASE FirstToo(t, g.cookie)
          <5>1. first[t].sink = s
            <6>1. first[t].sink # None /\ first[t].cookie = table[t][i].cookie
              BY <4>5, <1>1 DEF FirstToo
            <6> QED
              BY <6>1, <1>1, FirstIsListed
          <5>2. fs[t].sink = None
            BY <4>3, <4>5
          <5>3. SourceHolds(fs, tb, t, p) = Listings(r, p) + 0
            BY <4>2, <4>4, <5>2 DEF SourceHolds
          <5>4. SourceHolds(first, table, t, p) = Listings(table[t], p) + (IF p = s THEN 1 ELSE 0)
            BY <5>1 DEF SourceHolds
          <5>5. d = IF p = s THEN 0 - 2 ELSE 0
            BY <1>5, <3>3, <4>5
          <5> QED
            BY <3>1, <3>2, <4>1, <5>3, <5>4, <5>5
        <4>6. CASE ~FirstToo(t, g.cookie)
          BY <3>1, <3>2, <3>3, <4>1, <4>2, <4>3, <4>6, <1>5 DEF SourceHolds
        <4> QED
          BY <4>5, <4>6
      <3>8. t = "bar" => Listings(tb["bar"], p) = Listings(table["bar"], p) + d
        <4> HAVE t = "bar"
        <4>1. ~FirstToo(t, g.cookie)
          BY DEF Sources, FirstToo
        <4>2. d = IF p = s THEN 0 - 1 ELSE 0
          BY <1>5, <3>3, <4>1
        <4>3. tb["bar"] = r
          BY <1>0, <1>1, <3>4
        <4> QED
          BY <3>1, <3>2, <4>2, <4>3
      <3>9. \A o \in Owners : o \notin made \/ (rf[o] > 0 <=> refs[o] > 0)
        BY <1>8, <3>4, WrappersAre
      <3>10. rf[p] = refs[p] + d
        <4>1. p \in Counted /\ refs[p] \in Nat
          BY <1>6, WrappersAre DEF Counted
        <4>2. CASE p = s
          BY <1>7, <1>5, <3>3, <3>4, <4>1, <4>2
        <4>3. CASE p # s
          BY <1>7, <3>3, <3>4, <4>1, <4>3
        <4> QED
          BY <4>2, <4>3
      <3>11. rf[p] = GlobalsTo(g_key_sink, tb, items, p) + FieldsTo(rf, slot, fs, tb, p)
        BY <1>0, <3>5, <3>6, <3>7, <3>8, <3>9, <3>10, OneTable
      <3> QED
        BY <1>0, <1>1, <3>4, <3>11
    <2> QED
      BY <2>1 DEF LeavesExact
  <1>10. refs' \in [Counted -> Nat]
    <2>1. \A o \in Wrappers : refs'[o] \in Nat
      BY <1>8, <1>6, WrappersAre
    <2> QED
      BY <2>1, <1>4, <1>7, <1>9, CountsTyped
  <1>11. CookiesExact'
    <2>1. CookiesExact /\ next' = next
      BY <1>0, <1>1 DEF ObjectsInv, Cookies
    <2>2. \A h \in given' : h \in given /\ h.table \in Tables /\ (h.table = t => h.cookie # g.cookie)
      BY <1>0, <1>1 DEF ObjectsInv, ObjectKinds, RegistryKinds, Registrations
    <2>3. \A h \in given' : h.cookie < next'[h.table]
      BY <2>1, <2>2 DEF CookiesExact
    <2>4. \A u \in Tables : \A j, k \in DOMAIN table'[u] : table'[u][j].cookie = table'[u][k].cookie => j = k
      <3>1. \A u \in Tables : u # t => \A j, k \in DOMAIN table'[u] : table'[u][j].cookie = table'[u][k].cookie => j = k
        <4>1. \A u \in Tables : u # t => table'[u] = table[u]
          BY <1>0, <1>1
        <4> QED
          BY <2>1, <4>1 DEF CookiesExact
      <3>2. ASSUME NEW j \in DOMAIN r, NEW k \in DOMAIN r, r[j].cookie = r[k].cookie PROVE j = k
        <4>1. PICK a \in DOMAIN table[t], b \in DOMAIN table[t] :
                  a = Before(i, j) /\ b = Before(i, k) /\ r[j] = table[t][a] /\ r[k] = table[t][b]
          BY <1>2
        <4>2. a = b
          BY <1>0, <1>1, <2>1, <3>2, <4>1 DEF CookiesExact
        <4> QED
          BY <1>2, <4>1, <4>2
      <3> QED
        BY <1>0, <1>1, <3>1, <3>2
    <2>5. \A u \in Tables : \A j \in DOMAIN table'[u] :
              [table |-> u, cookie |-> table'[u][j].cookie, sink |-> table'[u][j].sink] \in given'
      <3>1. ASSUME NEW u \in Tables, NEW j \in DOMAIN table'[u], u # t
            PROVE  [table |-> u, cookie |-> table'[u][j].cookie, sink |-> table'[u][j].sink] \in given'
        <4>1. PICK h : h = [table |-> u, cookie |-> table'[u][j].cookie, sink |-> table'[u][j].sink]
          OBVIOUS
        <4>2. h \in given /\ h.table # t
          BY <1>0, <1>1, <2>1, <3>1, <4>1 DEF CookiesExact
        <4> QED
          BY <1>0, <1>1, <4>1, <4>2
      <3>2. ASSUME NEW j \in DOMAIN r PROVE [table |-> t, cookie |-> r[j].cookie, sink |-> r[j].sink] \in given'
        <4>1. PICK a \in DOMAIN table[t] : a # i /\ r[j] = table[t][a]
          BY <1>2
        <4>2. PICK h : h = [table |-> t, cookie |-> table[t][a].cookie, sink |-> table[t][a].sink]
          OBVIOUS
        <4>3. h \in given
          BY <1>0, <1>1, <2>1, <4>2 DEF CookiesExact
        <4>4. h.cookie # g.cookie
          BY <1>0, <1>1, <4>1, <4>2
        <4> QED
          BY <1>0, <1>1, <4>1, <4>2, <4>3, <4>4
      <3> QED
        BY <1>0, <1>1, <3>1, <3>2
    <2>6. \A h \in given' : \E j \in DOMAIN table'[h.table] :
              table'[h.table][j].cookie = h.cookie /\ table'[h.table][j].sink = h.sink
      <3> TAKE h \in given'
      <3>1. PICK k \in DOMAIN table[h.table] : table[h.table][k].cookie = h.cookie /\ table[h.table][k].sink = h.sink
        BY <2>1, <2>2 DEF CookiesExact
      <3>2. CASE h.table # t
        BY <1>0, <1>1, <2>2, <3>1, <3>2
      <3>3. CASE h.table = t
        <4>1. k # i
          BY <1>0, <1>1, <2>2, <3>1, <3>3
        <4>2. PICK j \in DOMAIN r : r[j] = table[t][k]
          BY <1>2, <3>1, <3>3, <4>1
        <4>3. j \in DOMAIN table'[h.table] /\ table'[h.table][j] = table[h.table][k]
          BY <1>0, <1>1, <3>3, <4>2
        <4> QED
          BY <3>1, <4>3
      <3> QED
        BY <3>2, <3>3
    <2>7. \A u \in Sources : first'[u].sink # None =>
              [table |-> u, cookie |-> first'[u].cookie, sink |-> first'[u].sink] \in given'
      <3> TAKE u \in Sources
      <3> HAVE first'[u].sink # None
      <3>1. first'[u] = first[u] /\ (u = t => ~FirstToo(t, g.cookie))
        BY <1>0, <1>1
      <3>2. PICK h : h = [table |-> u, cookie |-> first[u].cookie, sink |-> first[u].sink]
        OBVIOUS
      <3>3. h \in given
        BY <2>1, <3>1, <3>2 DEF CookiesExact
      <3>4. h.table # t \/ h.cookie # g.cookie
        BY <3>1, <3>2 DEF FirstToo
      <3> QED
        BY <1>0, <1>1, <3>1, <3>2, <3>3, <3>4
    <2> QED
      BY <2>3, <2>4, <2>5, <2>6, <2>7 DEF CookiesExact
  <1>12. EventSinks' # {} => EventSinks # {}
    <2> SUFFICES ASSUME NEW j \in DOMAIN table'["tmsrc"], table'["tmsrc"][j].iid = "event"
                 PROVE  \E k \in DOMAIN table["tmsrc"] : table["tmsrc"][k].iid = "event"
      BY DEF EventSinks
    <2>1. CASE t # "tmsrc"
      BY <1>0, <1>1, <2>1 DEF Tables, Sources
    <2>2. CASE t = "tmsrc"
      BY <1>0, <1>1, <1>2, <2>2
    <2> QED
      BY <2>1, <2>2
  <1> QED
    BY <1>0, <1>1, <1>4, <1>8, <1>9, <1>10, <1>11, <1>12

LEMMA StepTipUnadvise == ASSUME ObjectsInv, NEW t \in Tables, NEW c, TipUnadvise(t, c) PROVE ObjectsInv'
  <1>1. /\ TipRuns /\ (t \in Sources => held[t] > 0) /\ UnadviseSink(t, c)
        /\ UNCHANGED <<host, loaded, focus, made, held, active, calls>>
    BY DEF TipUnadvise, Returns, hostUnchanged
  <1>2. PICK g \in given : g.table = t /\ g.cookie = c /\ g.sink # HostSink
    BY DEF TipUnadvise
  <1>3. t \in Sources => t \in made /\ refs[t] > 0
    BY <1>1, TipIsUp, WrappersAre DEF Sources
  <1>4. /\ RegistryKinds' /\ LeavesExact' /\ CookiesExact'
        /\ refs' \in [Counted -> Nat] /\ \A o \in Wrappers : refs'[o] = refs[o]
        /\ given' = {h \in given : h.table # t \/ h.cookie # g.cookie}
        /\ \A u \in Tables : u # t => table'[u] = table[u]
        /\ \A u \in Sources : u # t => first'[u] = first[u]
        /\ UNCHANGED <<next, slot, told, wild>>
        /\ EventSinks' # {} => EventSinks # {}
    BY <1>1, <1>2, <1>3, Unadvised
  <1>5. HostKinds'
    BY <1>1, <1>4 DEF ObjectsInv, ObjectKinds, HostKinds
  <1>6. CountKinds'
    BY <1>1, <1>4 DEF ObjectsInv, ObjectKinds, CountKinds
  <1>7. Stages' /\ WrappersExact' /\ Untouched'
    BY <1>1, <1>4, QuietWrappers
  <1>8. Unmade'
    BY <1>1, <1>3, <1>4 DEF ObjectsInv, Unmade, Tables
  <1>9. HostsCookie'
    <2>1. HostsCookie /\ host' = host
      BY <1>1 DEF ObjectsInv, Cookies
    <2>2. HostAdvised \in given => HostAdvised.table # t \/ HostAdvised.cookie # g.cookie
      <3> SUFFICES ASSUME NEW h \in given, h = HostAdvised, h.table = t, h.cookie = g.cookie PROVE FALSE
        OBVIOUS
      <3>1. PICK i \in DOMAIN table[t] : table[t][i].cookie = g.cookie /\ table[t][i].sink = g.sink
        BY <1>2, EntryOf
      <3>2. PICK j \in DOMAIN table[t] : table[t][j].cookie = g.cookie /\ table[t][j].sink = h.sink
        BY EntryOf
      <3>3. i = j
        BY <3>1, <3>2 DEF ObjectsInv, Cookies, CookiesExact
      <3> QED
        BY <1>2, <3>1, <3>2, <3>3 DEF HostAdvised
    <2>3. HostAdvised \in given' <=> HostAdvised \in given
      BY <1>4, <2>2
    <2> QED
      BY <1>4, <2>1, <2>3 DEF HostsCookie
  <1>10. Heard'
    BY <1>1, <1>4 DEF Heard, ObjectsInv
  <1>11. Cookies'
    BY <1>4, <1>9 DEF Cookies
  <1> QED
    BY <1>4, <1>5, <1>6, <1>7, <1>8, <1>10, <1>11, AllHold

LEMMA StepCompositionSinkUnadvise == ASSUME ObjectsInv, CompositionSinkUnadvise PROVE ObjectsInv'
  <1>1. At[host] = 11 /\ At[host'] = 12 /\ host # "done" /\ host' \in Steps /\ host' # "done"
    BY StageIs DEF CompositionSinkUnadvise, HostAt
  <1>2. UnadviseSink("ctxsrc", 1) /\ UNCHANGED <<loaded, focus, made, held, active, calls>>
    BY DEF CompositionSinkUnadvise, HostAt
  <1>3. PICK g \in given : g = HostAdvised
    BY <1>1 DEF ObjectsInv, Cookies, HostsCookie
  <1>4. g.table = "ctxsrc" /\ g.cookie = 1
    BY <1>3 DEF HostAdvised
  <1>5. "ctxsrc" \in made /\ refs["ctxsrc"] > 0
    <2>1. "ctxsrc" \in made
      BY <1>1 DEF ObjectsInv, Stages
    <2> QED
      BY <1>1, <2>1, Living
  <1>6. /\ RegistryKinds' /\ LeavesExact' /\ CookiesExact'
        /\ refs' \in [Counted -> Nat] /\ \A o \in Wrappers : refs'[o] = refs[o]
        /\ given' = {h \in given : h.table # "ctxsrc" \/ h.cookie # g.cookie}
        /\ \A u \in Tables : u # "ctxsrc" => table'[u] = table[u]
        /\ \A u \in Sources : u # "ctxsrc" => first'[u] = first[u]
        /\ UNCHANGED <<next, slot, told, wild>>
        /\ EventSinks' # {} => EventSinks # {}
    BY <1>2, <1>4, <1>5, Unadvised
  <1>7. HostKinds'
    BY <1>1, <1>2, <1>6 DEF ObjectsInv, ObjectKinds, HostKinds
  <1>8. CountKinds'
    BY <1>2, <1>6 DEF ObjectsInv, ObjectKinds, CountKinds
  <1>9. Stages'
    BY <1>1, <1>2 DEF ObjectsInv, Stages
  <1>10. Unmade'
    BY <1>2, <1>5, <1>6 DEF ObjectsInv, Unmade, Tables
  <1>11. WrappersExact'
    <2>1. \A q \in Wrappers : \A p : Field(q, p)' = Field(q, p)
      BY <1>2, <1>6 DEF Field
    <2>2. \A p : MainHas(12, p) = MainHas(11, p)
      BY DEF MainHas
    <2> QED
      BY <1>1, <1>2, <1>6, <2>1, <2>2, WrappersAre DEF ObjectsInv, WrappersExact
  <1>12. Untouched'
    <2>1. refs'["ctx"] = refs["ctx"]
      BY <1>6, WrappersAre
    <2> QED
      BY <2>1, <1>1, <1>2, <1>6 DEF ObjectsInv, Untouched
  <1>13. HostsCookie'
    <2>1. HostsCookie
      BY DEF ObjectsInv, Cookies
    <2>2. HostAdvised \notin given'
      BY <1>3, <1>4, <1>6
    <2> QED
      BY <1>1, <1>6, <2>1, <2>2 DEF HostsCookie
  <1>14. Heard'
    BY <1>1, <1>6 DEF Heard, ObjectsInv
  <1>15. Cookies'
    BY <1>6, <1>13 DEF Cookies
  <1> QED
    BY <1>6, <1>7, <1>8, <1>9, <1>10, <1>11, <1>12, <1>14, <1>15, AllHold

-----------------------------------------------------------------------------
(***************************************************************************)
(* ShimObjects: releases.                                                  *)
(***************************************************************************)
\* Main or the TIP gives back one reference to o that it has.
LEMMA Releasing ==
    ASSUME ObjectsInv, host # "done", At[host'] \in 1..15, At[host'] = 15 <=> host' = "done",
           NEW o \in Wrappers, held[o] + MainHas(At[host], o) > 0, NEW r, r = Release(o),
           refs' = r.refs, wild' = r.wild, UNCHANGED <<made, registry>>, held' \in [Wrappers -> Nat],
           \A p \in Wrappers : held'[p] + MainHas(At[host'], p) = held[p] + MainHas(At[host], p) - One(p = o)
    PROVE  /\ refs' \in [Counted -> Nat] /\ LeavesExact' /\ refs'["ctx"] = refs["ctx"] - One("ctx" = o)
           /\ At[host'] \in 2..14 => WrappersExact' /\ wild' = {}
           /\ host' = "done" /\ o = "tm" => WrappersExact' /\ refs'["doc"] <= held'["doc"] /\ wild' \subseteq {"doc"}
  <1>1. WrappersExact /\ LeavesExact /\ ObjectKinds /\ RegistryKinds
    BY DEF ObjectsInv, ObjectKinds
  <1>2. made' = made /\ table' = table /\ first' = first /\ slot' = slot /\ g_key_sink' = g_key_sink /\ items' = items
    BY DEF registry
  <1>3. PICK rf : rf = Release(o).refs /\ rf = refs'
    OBVIOUS
  <1>4. LET left(q, p) == IF p \in made /\ rf[q] > 0 THEN 1 ELSE 0 IN
           /\ rf \in [Counted -> Nat]
           /\ \A p \in Wrappers : rf[p] <= refs[p]
           /\ \A p \in {"ex", "compartment", "ctx"} : rf[p] = refs[p] - One(p = o)
           /\ rf["tm"] = refs["tm"] - One("tm" = o) - Field("ex", "tm") + left("ex", "tm")
           /\ \A p \in {"tmsrc", "single", "km", "provider"} :
                  rf[p] = refs[p] - One(p = o) - Field("tm", p) + left("tm", p)
           /\ \A p \in {"ctxsrc", "view", "composition"} :
                  rf[p] = refs[p] - One(p = o) - Field("ctx", p) + left("ctx", p)
           /\ rf["range"] = refs["range"] - One("range" = o)
                  - Field("ctx", "range") - Field("view", "range") - Field("composition", "range")
                  + left("ctx", "range") + left("view", "range") + left("composition", "range")
           /\ rf["tm"] > 0 \/ refs["tm"] = 0 => rf["doc"] = refs["doc"] - One("doc" = o)
           /\ \A p \in Leaves :
                  rf[p] = refs[p] - FieldsTo(refs, slot, first, table, p) + FieldsTo(rf, slot, first, table, p)
           /\ Release(o).wild \subseteq wild \cup {"doc"}
           /\ rf["tm"] > 0 \/ refs["tm"] = 0 => Release(o).wild = wild
    BY <1>1, <1>3, ReleaseKeeps
  <1>5. \A q, p : Field(q, p)' = IF p \in made /\ rf[q] > 0 THEN 1 ELSE 0
    BY <1>2, <1>3 DEF Field
  <1>6. /\ \A p \in {"ex", "compartment", "ctx"} : refs'[p] = refs[p] - One(p = o)
        /\ refs'["tm"] = refs["tm"] - One("tm" = o) - Field("ex", "tm") + Field("ex", "tm")'
        /\ \A p \in {"tmsrc", "single", "km", "provider"} :
               refs'[p] = refs[p] - One(p = o) - Field("tm", p) + Field("tm", p)'
        /\ \A p \in {"ctxsrc", "view", "composition"} :
               refs'[p] = refs[p] - One(p = o) - Field("ctx", p) + Field("ctx", p)'
        /\ refs'["range"] = refs["range"] - One("range" = o)
               - Field("ctx", "range") - Field("view", "range") - Field("composition", "range")
               + Field("ctx", "range")' + Field("view", "range")' + Field("composition", "range")'
    BY <1>3, <1>4, <1>5
  <1>7. /\ refs'["tm"] > 0 \/ refs["tm"] = 0 => refs'["doc"] = refs["doc"] - One("doc" = o) /\ wild' = wild
        /\ wild' \subseteq wild \cup {"doc"} /\ refs'["doc"] <= refs["doc"] /\ refs' \in [Counted -> Nat]
    BY <1>3, <1>4, WrappersAre
  <1>8. LeavesExact'
    <2>1. ASSUME NEW p \in Leaves
          PROVE  refs'[p] = GlobalsTo(g_key_sink', table', items', p) + FieldsTo(refs', slot', first', table', p)
      <3>1. PICK a \in Nat : a = FieldsTo(refs, slot, first, table, p)
        BY <1>1, SharesAre
      <3>2. PICK b \in Nat : b = FieldsTo(rf, slot, first, table, p)
        BY <1>1, SharesAre
      <3>3. PICK c \in Nat : c = GlobalsTo(g_key_sink, table, items, p)
        BY <1>1, SharesAre
      <3>4. refs[p] = c + a
        BY <1>1, <3>1, <3>3 DEF LeavesExact
      <3>5. rf[p] = refs[p] - a + b
        BY <1>4, <3>1, <3>2
      <3>6. rf[p] = c + b
        BY <3>4, <3>5
      <3> QED
        BY <1>2, <1>3, <3>2, <3>3, <3>6
    <2> QED
      BY <2>1 DEF LeavesExact
  <1>9. \A p \in Wrappers : refs[p] \in Nat /\ held[p] \in Nat /\ held'[p] \in Nat /\ refs'[p] \in Nat /\ One(p = o) \in {0, 1}
    BY <1>7, CountsAre, WrappersAre DEF One
  <1>10. \A q, p : Field(q, p) \in {0, 1} /\ Field(q, p)' \in {0, 1}
    BY <1>5 DEF Field
  <1>11. At[host] \in 1..15 /\ \A n, p : MainHas(n, p) \in {0, 1}
    BY StageOf DEF MainHas
  <1>12. \A n, p : p \notin {"tm", "doc", "ctx", "km"} => MainHas(n, p) = 0
    BY DEF MainHas
  <1>13. \A p \in Wrappers : p \notin {"tm", "doc", "ctx", "km"} => held'[p] = held[p] - One(p = o)
    <2> SUFFICES ASSUME NEW p \in Wrappers, p \notin {"tm", "doc", "ctx", "km"} PROVE held'[p] = held[p] - One(p = o)
      OBVIOUS
    <2>1. MainHas(At[host], p) = 0 /\ MainHas(At[host'], p) = 0
      BY <1>12
    <2>2. held'[p] + MainHas(At[host'], p) = held[p] + MainHas(At[host], p) - One(p = o)
      OBVIOUS
    <2> QED
      BY <2>1, <2>2, <1>9
  <1>14. refs'["ex"] = held'["ex"] /\ refs'["compartment"] = held'["compartment"]
    BY <1>1, <1>6, <1>13, WrappersAre DEF WrappersExact
  <1>15. refs'["ctx"] = MainHas(At[host'], "ctx") + held'["ctx"]
    BY <1>1, <1>6, <1>9, <1>11, WrappersAre DEF WrappersExact
  <1>16. refs'["tm"] = MainHas(At[host'], "tm") + held'["tm"] + Field("ex", "tm")'
    BY <1>1, <1>6, <1>9, <1>10, <1>11, WrappersAre DEF WrappersExact
  <1>17. refs'["km"] = MainHas(At[host'], "km") + held'["km"] + Field("tm", "km")'
    BY <1>1, <1>6, <1>9, <1>10, <1>11, WrappersAre DEF WrappersExact
  <1>18. \A p \in {"tmsrc", "single", "provider"} : refs'[p] = held'[p] + Field("tm", p)'
    BY <1>1, <1>6, <1>9, <1>10, <1>13, WrappersAre DEF WrappersExact
  <1>19. \A p \in {"ctxsrc", "view", "composition"} : refs'[p] = held'[p] + Field("ctx", p)'
    BY <1>1, <1>6, <1>9, <1>10, <1>13, WrappersAre DEF WrappersExact
  <1>20. refs'["range"] = held'["range"] + Field("ctx", "range")' + Field("view", "range")' + Field("composition", "range")'
    BY <1>1, <1>6, <1>9, <1>10, <1>13, WrappersAre DEF WrappersExact
  <1>21. wild = {} /\ refs["doc"] = MainHas(At[host], "doc") + held["doc"]
    BY <1>1, Living DEF WrappersExact
  <1>22. ASSUME At[host'] \in 2..14 PROVE WrappersExact' /\ wild' = {}
    <2>1. MainHas(At[host'], "tm") = 1
      BY <1>22 DEF MainHas
    <2>2. refs'["tm"] > 0
      BY <2>1, <1>9, <1>10, <1>16, WrappersAre
    <2>3. refs'["doc"] = MainHas(At[host'], "doc") + held'["doc"] /\ wild' = wild
      BY <2>2, <1>7, <1>9, <1>11, <1>21, WrappersAre
    <2> QED
      BY <2>3, <1>14, <1>15, <1>16, <1>17, <1>18, <1>19, <1>20, <1>21 DEF WrappersExact
  <1>23. ASSUME host' = "done", o = "tm"
         PROVE  WrappersExact' /\ refs'["doc"] <= held'["doc"] /\ wild' \subseteq {"doc"}
    <2>1. MainHas(At[host'], "doc") = 0 /\ One("doc" = o) = 0
      BY <1>23 DEF MainHas, One
    <2>2. held'["doc"] = held["doc"] + MainHas(At[host], "doc")
      BY <2>1, <1>9, <1>11, WrappersAre
    <2>3. refs'["doc"] <= held'["doc"]
      BY <2>2, <1>7, <1>9, <1>11, <1>21, WrappersAre
    <2> QED
      BY <2>3, <1>7, <1>14, <1>15, <1>16, <1>17, <1>18, <1>19, <1>20, <1>21, <1>23 DEF WrappersExact
  <1> QED
    BY <1>6, <1>7, <1>8, <1>22, <1>23

LEMMA StepTipRelease == ASSUME ObjectsInv, NEW o \in Wrappers, TipRelease(o) PROVE ObjectsInv'
  <1>1. /\ TipRuns /\ held[o] > 0 /\ held' = [held EXCEPT ![o] = @ - 1]
        /\ refs' = Release(o).refs /\ wild' = Release(o).wild /\ active' = ActiveAfter(Release(o))
        /\ UNCHANGED <<host, loaded, focus, made, registry, calls>>
    BY DEF TipRelease, Returns, Released, hostUnchanged
  <1>2. At[host] \in 3..10 /\ host # "done" /\ host \in Steps
    BY <1>1, TipIsUp DEF ObjectsInv, ObjectKinds, HostKinds
  <1>3. held \in [Wrappers -> Nat] /\ (\A p \in Wrappers : held[p] <= calls) /\ calls \in Nat
    BY SlotsAre DEF ObjectsInv, ObjectKinds, CountKinds
  <1>4. /\ held'[o] = held[o] - 1 /\ \A p \in Wrappers : p # o => held'[p] = held[p]
        /\ held' \in [Wrappers -> Nat] /\ \A p \in Wrappers : held'[p] <= held[p] /\ held'[p] <= calls'
    BY <1>1, <1>3
  <1>5. \A n, p : MainHas(n, p) \in Nat
    BY DEF MainHas
  <1>6. \A p \in Wrappers : held'[p] + MainHas(At[host'], p) = held[p] + MainHas(At[host], p) - One(p = o)
    BY <1>1, <1>3, <1>4, <1>5 DEF One
  <1>7. held[o] + MainHas(At[host], o) > 0
    BY <1>1, <1>3, <1>5
  <1>8. PICK r : r = Release(o) /\ refs' = r.refs /\ wild' = r.wild /\ active' = ActiveAfter(r)
    BY <1>1
  <1>9. /\ refs' \in [Counted -> Nat] /\ LeavesExact' /\ refs'["ctx"] = refs["ctx"] - One("ctx" = o)
        /\ WrappersExact' /\ wild' = {}
    BY <1>1, <1>2, <1>4, <1>6, <1>7, <1>8, Releasing
  <1>10. HostKinds'
    BY <1>1, <1>8, <1>9 DEF ObjectsInv, ObjectKinds, HostKinds, registry, ActiveAfter
  <1>11. CountKinds'
    BY <1>4, <1>9 DEF CountKinds
  <1>12. RegistryKinds' /\ Unmade' /\ Cookies' /\ Heard'
    BY <1>1, QuietRegistry
  <1>13. Stages'
    <2>1. \A p \in Wrappers : held'[p] > 0 => held[p] > 0
      BY <1>3, <1>4
    <2> QED
      BY <1>1, <2>1, WrappersAre DEF ObjectsInv, Stages
  <1>14. Untouched'
    <2>1. "ctx" \in active' => refs'["ctx"] > 0
      BY <1>8, <1>9, WrappersAre DEF ActiveAfter
    <2>2. "tm" \in active' => "tm" \in active
      BY <1>8 DEF ActiveAfter
    <2> QED
      BY <1>1, <1>2, <1>9, <2>1, <2>2 DEF ObjectsInv, Untouched
  <1> QED
    BY <1>9, <1>10, <1>11, <1>12, <1>13, <1>14, AllHold

\* Main gives back what it has.
LEMMA MainReleases ==
    ASSUME ObjectsInv, NEW n \in 1..14, At[host] = n, At[host'] = n + 1, host' \in Steps, NEW o \in Wrappers,
           NEW r, r = Release(o), refs' = r.refs, wild' = r.wild,
           <<n, o>> \in {<<9, "km">>, <<12, "ctx">>, <<13, "doc">>, <<14, "tm">>},
           active' = IF n = 14 THEN active \ {"tm"} ELSE ActiveAfter(r),
           UNCHANGED <<loaded, focus, made, held, registry, calls>>
    PROVE  ObjectsInv'
  <1>1. /\ host # "done" /\ At[host'] \in 1..15 /\ (At[host'] = 15 <=> host' = "done")
        /\ (n = 14 <=> host' = "done") /\ (n # 14 => At[host'] \in 2..14)
    BY StageNumbers, StageOf
  <1>2. held' \in [Wrappers -> Nat] /\ \A p \in Wrappers : held'[p] = held[p]
    BY DEF ObjectsInv, ObjectKinds, CountKinds
  <1>3. \A p \in Wrappers : MainHas(n + 1, p) = MainHas(n, p) - One(p = o)
    BY DEF MainHas, One
  <1>4. MainHas(n, o) = 1
    BY DEF MainHas
  <1>5. \A p \in Wrappers : held[p] \in Nat /\ One(p = o) \in {0, 1}
    BY CountsAre DEF One
  <1>6. \A p \in Wrappers : held'[p] + MainHas(At[host'], p) = held[p] + MainHas(At[host], p) - One(p = o)
    <2>1. \A p : MainHas(n, p) \in {0, 1}
      BY DEF MainHas
    <2> QED
      BY <1>2, <1>3, <1>5, <2>1
  <1>7. held[o] + MainHas(At[host], o) > 0
    BY <1>4, <1>5
  <1>8. /\ refs' \in [Counted -> Nat] /\ LeavesExact' /\ refs'["ctx"] = refs["ctx"] - One("ctx" = o)
        /\ At[host'] \in 2..14 => WrappersExact' /\ wild' = {}
        /\ host' = "done" /\ o = "tm" => WrappersExact' /\ refs'["doc"] <= held'["doc"] /\ wild' \subseteq {"doc"}
    BY <1>1, <1>2, <1>6, <1>7, Releasing
  <1>9. /\ WrappersExact' /\ wild' \subseteq {"doc"} /\ (host' = "done" => refs'["doc"] <= held'["doc"])
        /\ host' # "done" => wild' = {}
    BY <1>1, <1>8
  <1>10. HostKinds'
    BY <1>9, WrappersAre DEF ObjectsInv, ObjectKinds, HostKinds, registry, ActiveAfter
  <1>11. CountKinds'
    BY <1>8 DEF ObjectsInv, ObjectKinds, CountKinds
  <1>12. RegistryKinds' /\ Unmade' /\ Cookies' /\ Heard'
    BY QuietRegistry
  <1>13. Stages'
    BY DEF ObjectsInv, Stages
  <1>14. Untouched'
    <2>1. "ctx" \in active' => refs'["ctx"] > 0
      <3>1. CASE n = 14
        <4>1. One("ctx" = o) = 0 /\ active' = active \ {"tm"}
          BY <3>1 DEF One
        <4>2. refs["ctx"] \in Nat
          BY CountsAre, WrappersAre
        <4>3. refs'["ctx"] = refs["ctx"]
          BY <1>8, <4>1, <4>2
        <4> QED
          BY <4>1, <4>3 DEF ObjectsInv, Untouched
      <3>2. CASE n # 14
        BY <1>8, <3>2, WrappersAre DEF ActiveAfter
      <3> QED
        BY <3>1, <3>2
    <2>2. "tm" \in active' => At[host'] \in 3..14
      <3>1. CASE n = 14
        BY <3>1
      <3>2. CASE n # 14
        <4>1. "tm" \in active' => "tm" \in active
          BY <3>2 DEF ActiveAfter
        <4> QED
          BY <4>1, <3>2 DEF ObjectsInv, Untouched
      <3> QED
        BY <3>1, <3>2
    <2> QED
      BY <1>9, <2>1, <2>2 DEF Untouched
  <1> QED
    BY <1>8, <1>9, <1>10, <1>11, <1>12, <1>13, <1>14, AllHold

LEMMA StepHostRelease ==
    ASSUME ObjectsInv, (ReleaseKeystrokeMgr \/ ReleaseContext) \/ (ReleaseDocument \/ ReleaseThreadMgr) PROVE ObjectsInv'
  <1>1. CASE ReleaseKeystrokeMgr
    <2>1. PICK n \in 1..14, o \in Wrappers : n = 9 /\ o = "km"
      BY WrappersAre
    <2>2. At[host] = n /\ At[host'] = n + 1 /\ host' \in Steps
      BY <1>1, <2>1, StageIs DEF ReleaseKeystrokeMgr, HostAt
    <2>3. PICK r : r = Release(o) /\ refs' = r.refs /\ wild' = r.wild /\ active' = ActiveAfter(r)
      BY <1>1, <2>1 DEF ReleaseKeystrokeMgr, Released
    <2>4. UNCHANGED <<loaded, focus, made, held, registry, calls>>
      BY <1>1 DEF ReleaseKeystrokeMgr, HostAt
    <2>5. <<n, o>> \in {<<9, "km">>, <<12, "ctx">>, <<13, "doc">>, <<14, "tm">>} /\ n # 14
      BY <2>1
    <2> QED
      BY <2>2, <2>3, <2>4, <2>5, MainReleases
  <1>2. CASE ReleaseContext
    <2>1. PICK n \in 1..14, o \in Wrappers : n = 12 /\ o = "ctx"
      BY WrappersAre
    <2>2. At[host] = n /\ At[host'] = n + 1 /\ host' \in Steps
      BY <1>2, <2>1, StageIs DEF ReleaseContext, HostAt
    <2>3. PICK r : r = Release(o) /\ refs' = r.refs /\ wild' = r.wild /\ active' = ActiveAfter(r)
      BY <1>2, <2>1 DEF ReleaseContext, Released
    <2>4. UNCHANGED <<loaded, focus, made, held, registry, calls>>
      BY <1>2 DEF ReleaseContext, HostAt
    <2>5. <<n, o>> \in {<<9, "km">>, <<12, "ctx">>, <<13, "doc">>, <<14, "tm">>} /\ n # 14
      BY <2>1
    <2> QED
      BY <2>2, <2>3, <2>4, <2>5, MainReleases
  <1>3. CASE ReleaseDocument
    <2>1. PICK n \in 1..14, o \in Wrappers : n = 13 /\ o = "doc"
      BY WrappersAre
    <2>2. At[host] = n /\ At[host'] = n + 1 /\ host' \in Steps
      BY <1>3, <2>1, StageIs DEF ReleaseDocument, HostAt
    <2>3. PICK r : r = Release(o) /\ refs' = r.refs /\ wild' = r.wild /\ active' = ActiveAfter(r)
      BY <1>3, <2>1 DEF ReleaseDocument, Released
    <2>4. UNCHANGED <<loaded, focus, made, held, registry, calls>>
      BY <1>3 DEF ReleaseDocument, HostAt
    <2>5. <<n, o>> \in {<<9, "km">>, <<12, "ctx">>, <<13, "doc">>, <<14, "tm">>} /\ n # 14
      BY <2>1
    <2> QED
      BY <2>2, <2>3, <2>4, <2>5, MainReleases
  <1>4. CASE ReleaseThreadMgr
    <2>1. PICK n \in 1..14, o \in Wrappers : n = 14 /\ o = "tm"
      BY WrappersAre
    <2>2. At[host] = n /\ At[host'] = n + 1 /\ host' \in Steps
      BY <1>4, <2>1, StageIs DEF ReleaseThreadMgr, HostAt
    <2>3. PICK r : r = Release(o) /\ refs' = r.refs /\ wild' = r.wild
      BY <1>4, <2>1 DEF ReleaseThreadMgr
    <2>4. UNCHANGED <<loaded, focus, made, held, registry, calls>> /\ active' = active \ {"tm"}
      BY <1>4 DEF ReleaseThreadMgr, HostAt
    <2>5. <<n, o>> \in {<<9, "km">>, <<12, "ctx">>, <<13, "doc">>, <<14, "tm">>} /\ n = 14
      BY <2>1
    <2> QED
      BY <2>2, <2>3, <2>4, <2>5, MainReleases
  <1> QED
    BY <1>1, <1>2, <1>3, <1>4

-----------------------------------------------------------------------------
(***************************************************************************)
(* ShimObjects: the invariant, and what it says.                           *)
(***************************************************************************)
LEMMA ObjectsInit == ShimInit => ObjectsInv
  <1> SUFFICES ASSUME ShimInit PROVE ObjectsInv
    OBVIOUS
  <1> USE DEF ShimInit
  <1>1. At[host] = 1 /\ host \in Steps /\ host # "done"
    BY StageIs
  <1>2. HostKinds
    <2>1. calls \in 0..MaxCalls
      BY ShimConstants
    <2>2. made \in SUBSET Wrappers /\ active \in SUBSET {"tm", "ctx"} /\ wild \in SUBSET Counted
      OBVIOUS
    <2>3. focus \in BOOLEAN /\ told \in BOOLEAN /\ loaded \in {"none", "profile", "host", "gone"}
      OBVIOUS
    <2> HIDE DEF ShimInit
    <2> QED
      BY <1>1, <2>1, <2>2, <2>3 DEF HostKinds
  <1>3. CountKinds
    BY DEF CountKinds
  <1>4. RegistryKinds
    BY ShimConstants DEF RegistryKinds, TipSinks
  <1>5. Stages
    BY <1>1, WrappersAre DEF Stages
  <1>6. Unmade
    BY DEF Unmade, Sources, Tables
  <1>7. Cookies
    <2>1. \A t \in Tables : DOMAIN table[t] = {}
      OBVIOUS
    <2>2. \A t \in Sources : first[t].sink = None
      OBVIOUS
    <2>3. CookiesExact
      BY <2>1, <2>2 DEF CookiesExact
    <2>4. HostsCookie
      BY <1>1 DEF HostsCookie, Tables, Sources
    <2> QED
      BY <2>3, <2>4 DEF Cookies
  <1>8. WrappersExact
    <2>1. \A o \in Wrappers : refs[o] = 0 /\ held[o] = 0
      BY WrappersAre
    <2>2. \A q, p : Field(q, p) = 0
      BY DEF Field
    <2>3. \A p : MainHas(1, p) = 0
      BY DEF MainHas
    <2> QED
      BY <1>1, <2>1, <2>2, <2>3, WrappersAre DEF WrappersExact
  <1>9. LeavesExact
    <2> SUFFICES ASSUME NEW p \in Leaves
                 PROVE  refs[p] = GlobalsTo(g_key_sink, table, items, p) + FieldsTo(refs, slot, first, table, p)
      BY DEF LeavesExact
    <2>1. p # None /\ refs[p] = 0
      BY ApartFromLeaves
    <2>2. \A t \in Tables : Listings(table[t], p) = 0
      BY ListingsEmpty
    <2>3. GlobalsTo(g_key_sink, table, items, p) = 0
      BY <2>1, <2>2 DEF GlobalsTo, Tables
    <2>4. \A o \in Owners : refs[o] = 0
      BY WrappersAre
    <2>5. /\ \A o \in {"tm", "single", "km", "composition", "compartment"} : Share(refs, slot, o, p) = 0
          /\ \A t \in Sources : SourceShare(refs, first, table, t, p) = 0
      BY <2>4 DEF Share, SourceShare, Owners, Sources
    <2>6. FieldsTo(refs, slot, first, table, p) = 0
      BY <2>5, FieldsAreShares DEF Sources
    <2> QED
      BY <2>1, <2>3, <2>6
  <1>10. Untouched
    BY <1>1 DEF Untouched
  <1>11. Heard
    BY <1>1 DEF Heard
  <1> QED
    BY <1>2, <1>3, <1>4, <1>5, <1>6, <1>7, <1>8, <1>9, <1>10, <1>11 DEF ObjectsInv, ObjectKinds

LEMMA ObjectsStutter == ASSUME ObjectsInv, UNCHANGED shimVars PROVE ObjectsInv'
  <1> USE DEF shimVars
  <1>1. HostKinds' /\ CountKinds' /\ RegistryKinds'
    BY DEF ObjectsInv, ObjectKinds, HostKinds, CountKinds, RegistryKinds
  <1>2. Stages' /\ Unmade' /\ Untouched'
    BY DEF ObjectsInv, Stages, Unmade, Untouched
  <1>3. Cookies' /\ Heard'
    BY DEF ObjectsInv, Cookies, CookiesExact, HostsCookie, Heard, EventSinks
  <1>4. WrappersExact'
    BY DEF ObjectsInv, WrappersExact, Field
  <1>5. LeavesExact'
    BY DEF ObjectsInv, LeavesExact
  <1> QED
    BY <1>1, <1>2, <1>3, <1>4, <1>5, AllHold

LEMMA ObjectsStep == ASSUME ObjectsInv, [ShimNext]_shimVars PROVE ObjectsInv'
  <1>1. CASE HostNext
    <2>1. CASE CreateThreadMgr \/ Activate \/ CreateDocumentMgr \/ CreateContext \/ CompositionSinkAdvise
      BY <2>1, StepCreateThreadMgr, StepActivate, StepCreateDocumentMgr, StepCreateContext, StepCompositionSinkAdvise
    <2>2. CASE AssociateFocus \/ SetFocus \/ ActivateLanguageProfile \/ QueryKeystrokeMgr \/ LoadTip \/ DropTip
      BY <2>2, StepAssociateFocus, StepSetFocus, StepLoad, StepQueryKeystrokeMgr
    <2>3. CASE KeyDown \/ GetFunctionProvider \/ DeactivateTip \/ CompositionSinkUnadvise
      BY <2>3, StepKeyDown, StepGetFunctionProvider, StepDeactivateTip, StepCompositionSinkUnadvise
    <2>4. CASE ReleaseKeystrokeMgr \/ ReleaseContext \/ ReleaseDocument \/ ReleaseThreadMgr
      BY <2>4, StepHostRelease
    <2> QED
      BY <1>1, <2>1, <2>2, <2>3, <2>4 DEF HostNext
  <1>2. CASE TipNext
    <2>1. CASE \E o \in {"tm", "tmsrc", "single", "km"} : QueryThreadMgr(o)
      BY <2>1, StepQueryThreadMgr
    <2>2. CASE QueryThreadMgrEx \/ GetFocus \/ GetTop \/ QueryContextSource \/ GetRange \/ GetCompartment \/ UseRange
      BY <2>2, StepQueryThreadMgrEx, StepGetFocus, StepGetTop, StepQueryContextSource, StepGetRange, StepGetCompartment,
         StepKeyDown
    <2>3. CASE \E s \in Sinks : ctxcomp_StartComposition(s)
      BY <2>3, StepStartComposition
    <2>4. CASE \E o \in Wrappers : TipRelease(o)
      BY <2>4, StepTipRelease
    <2>5. CASE \E t \in Tables, s \in Sinks : \E i \in Iids[t] : TipAdvise(t, s, i)
      BY <2>5, StepTipAdvise
    <2>6. CASE \E t \in Tables, c \in 1..MaxCalls + 1 : TipUnadvise(t, c)
      BY <2>6, StepTipUnadvise
    <2>7. CASE (\E s \in Sinks, b \in BOOLEAN : AdviseSingleSink(s, b)) \/ (\E b \in BOOLEAN : UnadviseSingleSink(b))
      BY <2>7, StepSingleSink
    <2>8. CASE (\E s \in Sinks : AdviseKeyEventSink(s)) \/ (\E sticky \in BOOLEAN : UnadviseKeyEventSink(sticky))
      BY <2>8, StepKeySink
    <2>9. CASE (\E s \in Sinks : CompartmentAdvise(s)) \/ CompartmentUnadvise
      BY <2>9, StepCompartmentSink, ShimConstants
    <2>10. CASE \E it \in Items : AddItem(it) \/ RemoveItem(it)
      BY <2>10, StepItems
    <2> QED
      BY <1>2, <2>1, <2>2, <2>3, <2>4, <2>5, <2>6, <2>7, <2>8, <2>9, <2>10 DEF TipNext
  <1>3. CASE UNCHANGED shimVars
    BY <1>3, ObjectsStutter
  <1> QED
    BY <1>1, <1>2, <1>3 DEF ShimNext

LEMMA ObjectsAlways == ShimSpec => []ObjectsInv
  BY ObjectsInit, ObjectsStep, PTL DEF ShimSpec

\* What the globals hold, counted in the bar's items as in the model.
LEMMA GlobalsAreHeld ==
    ASSUME ObjectsInv
    PROVE  /\ \A p : GlobalHolds(p) = GlobalsTo(g_key_sink, table, items, p)
           /\ \A p \in Wrappers : GlobalHolds(p) = 0
  <1>1. ASSUME NEW p PROVE Cardinality({i \in DOMAIN items : items[i] = p}) = IF items # <<>> /\ items[1] = p THEN 1 ELSE 0
    <2>1. items \in Seq(Items) /\ Len(items) <= 1 /\ Len(items) \in Nat /\ DOMAIN items = 1..Len(items)
      BY DEF ObjectsInv, ObjectKinds, RegistryKinds
    <2>2. CASE Len(items) = 0
      <3>1. items = <<>> /\ {i \in DOMAIN items : items[i] = p} = {}
        BY <2>1, <2>2
      <3> QED
        BY <3>1, FS_EmptySet
    <2>3. CASE Len(items) = 1
      <3>0. 1..1 = {1} /\ Len(<<>>) = 0
        OBVIOUS
      <3>a. items # <<>>
        BY <2>3, <3>0
      <3>b. DOMAIN items = 1..1
        BY <2>1, <2>3
      <3>1. items # <<>> /\ DOMAIN items = {1}
        BY <3>0, <3>a, <3>b
      <3>2. {i \in DOMAIN items : items[i] = p} = IF items[1] = p THEN {1} ELSE {}
        BY <3>1
      <3>3. Cardinality({1}) = 1 /\ Cardinality({}) = 0
        BY FS_EmptySet, FS_Singleton
      <3> QED
        BY <3>1, <3>2, <3>3
    <2> QED
      BY <2>1, <2>2, <2>3
  <1>2. \A p : GlobalHolds(p) = GlobalsTo(g_key_sink, table, items, p)
    <2> TAKE p
    <2>1. Listed("bar", p) = Listings(table["bar"], p)
      BY ListedType DEF ObjectsInv, Tables
    <2> QED
      BY <1>1, <2>1 DEF GlobalHolds, GlobalsTo, One
  <1>3. ASSUME NEW p \in Wrappers PROVE GlobalsTo(g_key_sink, table, items, p) = 0
    <2>1. g_key_sink # p
      BY SlotsAre
    <2>2. items # <<>> => items[1] # p
      <3> HAVE items # <<>>
      <3>1. items[1] \in Items
        BY SlotsAre
      <3> QED
        BY <3>1, SlotsAre
    <2>3. Listings(table["bar"], p) = 0
      <3>1. \A i \in DOMAIN table["bar"] : table["bar"][i].sink # p
        BY TablesAre, LeavesOfTables, ApartFromLeaves DEF Tables
      <3>2. {i \in DOMAIN table["bar"] : table["bar"][i].sink = p} = {}
        BY <3>1
      <3> QED
        BY <3>2, FS_EmptySet DEF Listings
    <2> QED
      BY <2>1, <2>2, <2>3 DEF GlobalsTo
  <1> QED
    BY <1>2, <1>3

LEMMA CountsAreExact == ObjectsInv => RefsExact
  <1> SUFFICES ASSUME ObjectsInv, NEW p \in Counted, ~(p = "doc" /\ host = "done")
               PROVE  refs[p] = (IF p \in Wrappers THEN HostHolds(p) + held[p] ELSE 0) + GlobalHolds(p) + FieldHolds(p)
    BY DEF RefsExact
  <1>1. GlobalHolds(p) = GlobalsTo(g_key_sink, table, items, p) /\ (p \in Wrappers => GlobalHolds(p) = 0)
    BY GlobalsAreHeld
  <1>2. \A o \in Wrappers : o \in Alive <=> refs[o] > 0
    <2>1. \A o \in Wrappers : refs[o] \in Nat
      BY CountsAre
    <2> QED
      BY <2>1 DEF Alive, Dead
  <1>3. CASE p \in Leaves
    <2>1. p \notin Wrappers /\ p # "doc"
      BY <1>3, WrappersAre
    <2>2. Owed(Alive, p) = FieldsIn(Alive, p) /\ FieldsIn(Alive, p) \in Nat
      BY <1>3, OwedLeaf DEF ObjectsInv
    <2>3. FieldsIn(Alive, p) = FieldsTo(refs, slot, first, table, p)
      <3>1. \A o \in {"tm", "single", "km", "composition", "compartment", "tmsrc", "ctxsrc"} : o \in Alive <=> refs[o] > 0
        BY <1>2, WrappersAre DEF Owners
      <3> QED
        BY <3>1 DEF FieldsIn, FieldsTo
    <2>4. refs[p] = GlobalsTo(g_key_sink, table, items, p) + FieldsTo(refs, slot, first, table, p)
      BY <1>3 DEF ObjectsInv, LeavesExact
    <2>5. GlobalsTo(g_key_sink, table, items, p) \in Nat
      BY SlotsAre
    <2>6. FieldHolds(p) = Owed(Alive, p)
      BY <2>1 DEF FieldHolds
    <2> QED
      BY <1>1, <2>1, <2>2, <2>3, <2>4, <2>5, <2>6
  <1>4. CASE p \in Wrappers
    <2>1. HostHolds(p) = MainHas(At[host], p)
      <3>1. \A a, b \in Steps : Between(a, b) <=> At[host] \in At[a]..At[b]
        BY DEF Between
      <3>2. At[host] \in 1..15 /\ (At[host] = 9 <=> host = "up")
        BY StageOf
      <3> QED
        BY <3>1, <3>2, StageIs DEF HostHolds, MainHas, One
    <2>2. /\ \A q \in Outer : Owed(Alive, q) = 0
          /\ Owed(Alive, "tm") = IF "ex" \in Alive /\ "tm" \in made THEN 1 ELSE 0
          /\ \A q \in {"tmsrc", "single", "km", "provider", "doc"} :
                 Owed(Alive, q) = IF "tm" \in Alive /\ q \in made THEN 1 ELSE 0
          /\ \A q \in {"ctxsrc", "view", "composition"} :
                 Owed(Alive, q) = IF "ctx" \in Alive /\ q \in made THEN 1 ELSE 0
          /\ Owed(Alive, "range") =
                 (IF "ctx" \in Alive /\ "range" \in made THEN 1 ELSE 0)
                   + (IF "view" \in Alive /\ "range" \in made THEN 1 ELSE 0)
                   + (IF "composition" \in Alive /\ "range" \in made THEN 1 ELSE 0)
      BY OwedWrapper
    <2>3. \A q \in {"ex", "tm", "ctx", "view", "composition"} : \A k :
              (IF q \in Alive /\ k \in made THEN 1 ELSE 0) = Field(q, k)
      BY <1>2, WrappersAre DEF Field
    <2>4. WrappersExact /\ held[p] \in Nat /\ MainHas(At[host], p) \in {0, 1} /\ \A q, k : Field(q, k) \in {0, 1}
      BY <1>4, CountsAre DEF ObjectsInv, MainHas
    <2>5. refs[p] = MainHas(At[host], p) + held[p] + FieldHolds(p) /\ FieldHolds(p) \in Nat
      <3>1. CASE p \in Outer
        BY <2>2, <2>4, <3>1 DEF FieldHolds, Outer, WrappersExact, MainHas
      <3>2. CASE p = "tm"
        BY <2>2, <2>3, <2>4, <3>2 DEF FieldHolds, WrappersExact
      <3>3. CASE p = "doc"
        BY <2>4, <3>3 DEF FieldHolds, WrappersExact
      <3>4. CASE p \in {"tmsrc", "single", "provider"}
        BY <2>2, <2>3, <2>4, <3>4 DEF FieldHolds, WrappersExact, MainHas
      <3>5. CASE p = "km"
        BY <2>2, <2>3, <2>4, <3>5 DEF FieldHolds, WrappersExact
      <3>6. CASE p \in {"ctxsrc", "view", "composition"}
        BY <2>2, <2>3, <2>4, <3>6 DEF FieldHolds, WrappersExact, MainHas
      <3>7. CASE p = "range"
        BY <2>2, <2>3, <2>4, <3>7 DEF FieldHolds, WrappersExact, MainHas
      <3> QED
        BY <1>4, <3>1, <3>2, <3>3, <3>4, <3>5, <3>6, <3>7, WrappersAre DEF Outer
    <2> QED
      BY <1>1, <1>4, <2>1, <2>4, <2>5
  <1> QED
    BY <1>3, <1>4 DEF Counted

LEMMA TablesAreExact == ObjectsInv => WithdrawnGone
  <1> SUFFICES ASSUME ObjectsInv, NEW t \in Tables
               PROVE  /\ {[table |-> t, cookie |-> e.cookie, sink |-> e.sink] : e \in ToSet(table[t])}
                           = {g \in given : g.table = t}
                      /\ t \in Sources /\ first[t].sink # None =>
                           [table |-> t, cookie |-> first[t].cookie, sink |-> first[t].sink] \in given
    BY DEF WithdrawnGone
  <1>1. CookiesExact
    BY DEF ObjectsInv, Cookies
  <1>2. ASSUME NEW e \in ToSet(table[t]) PROVE [table |-> t, cookie |-> e.cookie, sink |-> e.sink] \in {g \in given : g.table = t}
    <2>1. PICK i \in DOMAIN table[t] : e = table[t][i]
      BY DEF ToSet
    <2> QED
      BY <1>1, <2>1 DEF CookiesExact
  <1>3. ASSUME NEW g \in given, g.table = t
        PROVE  \E e \in ToSet(table[t]) : g = [table |-> t, cookie |-> e.cookie, sink |-> e.sink]
    <2>1. PICK i \in DOMAIN table[t] : table[t][i].cookie = g.cookie /\ table[t][i].sink = g.sink
      BY <1>1, <1>3 DEF CookiesExact
    <2>2. g \in Registrations
      BY EntryOf
    <2>3. g = [table |-> t, cookie |-> table[t][i].cookie, sink |-> table[t][i].sink]
      BY <1>3, <2>1, <2>2 DEF Registrations
    <2>4. table[t][i] \in ToSet(table[t])
      BY DEF ToSet
    <2> QED
      BY <2>3, <2>4
  <1> QED
    BY <1>1, <1>2, <1>3 DEF CookiesExact

LEMMA ObjectsAreTyped == ObjectsInv => ShimTypeOK
  <1> SUFFICES ASSUME ObjectsInv PROVE ShimTypeOK
    OBVIOUS
  <1>1. \A o \in Wrappers : held[o] \in 0..MaxCalls
    <2>1. \A o \in Wrappers : held[o] \in Nat /\ held[o] <= calls
      BY CountsAre DEF ObjectsInv, ObjectKinds, CountKinds
    <2>2. calls \in Nat /\ calls <= MaxCalls /\ MaxCalls \in Nat
      BY SlotsAre, ShimConstants
    <2> QED
      BY <2>1, <2>2
  <1> QED
    BY <1>1, CountsAre DEF ShimTypeOK, ObjectsInv, ObjectKinds, HostKinds, RegistryKinds

LEMMA NobodyIsTouched == ObjectsInv => NoUseAfterFree
  <1> SUFFICES ASSUME ObjectsInv PROVE NoUseAfterFree
    OBVIOUS
  <1>1. wild # {} => host = "done" /\ wild = {"doc"}
    BY DEF ObjectsInv, Untouched
  <1>2. "tm" \in active => refs["tm"] > 0
    <2>1. "tm" \in active => At[host] \in 3..14
      BY DEF ObjectsInv, Untouched
    <2> QED
      BY <2>1, Living
  <1>3. "ctx" \in active => refs["ctx"] > 0
    BY DEF ObjectsInv, Untouched
  <1>4. active \subseteq {"tm", "ctx"}
    BY DEF ObjectsInv, ObjectKinds, HostKinds
  <1> QED
    <2>1. \A o \in active : ~(refs[o] = 0)
      BY <1>2, <1>3, <1>4
    <2>2. Dead(active) = {}
      BY <2>1 DEF Dead
    <2> QED
      BY <1>1, <2>2 DEF NoUseAfterFree

LEMMA FocusIsHeard == ObjectsInv => FocusTold
  <1> SUFFICES ASSUME ObjectsInv, Between("focused", "unkeyed"), EventSinks # {} PROVE told
    BY DEF FocusTold
  <1>1. At[host] \in 8..10
    BY StageIs DEF Between
  <1> QED
    BY <1>1 DEF ObjectsInv, Heard

LEMMA AllIsGone == ObjectsInv => NothingLeaks
  <1> SUFFICES ASSUME ObjectsInv, host = "done", \A o \in Wrappers : held[o] = 0
               PROVE  Dead(Wrappers) = Wrappers /\ \A s \in Leaves : refs[s] = GlobalHolds(s)
    BY DEF NothingLeaks
  <1>1. WrappersExact /\ refs["doc"] <= held["doc"]
    BY DEF ObjectsInv, Untouched
  <1>2. \A p : MainHas(15, p) = 0
    BY DEF MainHas
  <1>3. At[host] = 15
    BY StageIs
  <1>4. \A o \in {"ex", "compartment", "ctx"} : refs[o] = 0
    BY <1>1, <1>2, <1>3, WrappersAre DEF WrappersExact
  <1>5. \A p : Field("ex", p) = 0 /\ Field("ctx", p) = 0
    BY <1>4 DEF Field
  <1>6. refs["tm"] = 0
    BY <1>1, <1>2, <1>3, <1>5, WrappersAre DEF WrappersExact
  <1>7. \A p : Field("tm", p) = 0
    BY <1>6 DEF Field
  <1>8. \A o \in {"tmsrc", "single", "provider", "km", "ctxsrc", "view", "composition"} : refs[o] = 0
    BY <1>1, <1>2, <1>3, <1>5, <1>7, WrappersAre DEF WrappersExact
  <1>9. \A p : Field("view", p) = 0 /\ Field("composition", p) = 0
    BY <1>8 DEF Field
  <1>10. refs["range"] = 0
    BY <1>1, <1>5, <1>9, WrappersAre DEF WrappersExact
  <1>11. refs["doc"] = 0
    <2>1. refs["doc"] \in Nat /\ held["doc"] = 0
      BY CountsAre, WrappersAre
    <2> QED
      BY <1>1, <2>1
  <1>12. \A o \in Wrappers : refs[o] = 0
    BY <1>4, <1>6, <1>8, <1>10, <1>11, WrappersAre
  <1>13. ASSUME NEW s \in Leaves PROVE refs[s] = GlobalHolds(s)
    <2>1. \A o \in Owners : refs[o] = 0
      BY <1>12, WrappersAre
    <2>2. /\ \A o \in {"tm", "single", "km", "composition", "compartment"} : Share(refs, slot, o, s) = 0
          /\ \A t \in Sources : SourceShare(refs, first, table, t, s) = 0
      BY <2>1 DEF Share, SourceShare, Owners, Sources
    <2>3. FieldsTo(refs, slot, first, table, s) = 0
      BY <2>2, FieldsAreShares DEF Sources
    <2>4. refs[s] = GlobalsTo(g_key_sink, table, items, s) + FieldsTo(refs, slot, first, table, s)
      BY SlotsAre
    <2>5. GlobalsTo(g_key_sink, table, items, s) \in Nat
      BY SlotsAre
    <2> QED
      BY <2>3, <2>4, <2>5, GlobalsAreHeld
  <1> QED
    BY <1>12, <1>13 DEF Dead

\* After any calls of the host and the TIP every reference count of MsctfShim.c is exactly
\* the references there are, and a cookie stands for its own sink until it is withdrawn.
THEOREM CountsAndCookiesAreExact == ShimSpec => []ShimConsistent
  <1>1. ObjectsInv => ShimConsistent
    BY ObjectsAreTyped, CountsAreExact, TablesAreExact DEF ShimConsistent
  <1> QED
    BY <1>1, ObjectsAlways, PTL

\* The uncounted pointers of the shim never lead to a freed wrapper or sink while the host is up.
THEOREM NothingFreedIsUsed == ShimSpec => []NoUseAfterFree
  BY NobodyIsTouched, ObjectsAlways, PTL

\* An event sink is told of the focus, whether it is advised before it is set or after.
THEOREM FocusIsAnnounced == ShimSpec => []FocusTold
  BY FocusIsHeard, ObjectsAlways, PTL

\* Clients that give back what they were handed leave nothing but what the globals keep.
THEOREM NothingIsLeaked == ShimSpec => []NothingLeaks
  BY AllIsGone, ObjectsAlways, PTL
=============================================================================
