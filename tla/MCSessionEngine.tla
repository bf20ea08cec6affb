-------------------------- MODULE MCSessionEngine ---------------------------
(***************************************************************************)
(* Instances of SessionEngine.  A text is the keys typed, and "henkan"     *)
(* once it is converted; typing stops at MaxKeys symbols.                  *)
(***************************************************************************)
EXTENDS SessionEngine, TLC

CONSTANT MaxKeys

ShortTexts == UNION {[1..n -> Keys \cup {"henkan"}] : n \in 0..MaxKeys}

Cut(t) == IF Len(t) > MaxKeys THEN SubSeq(t, 1, MaxKeys) ELSE t

KanaEffect == [c \in Commands |-> [t \in ShortTexts |->
    CASE c \in {"sreset", "scancel", "scommit"} -> <<>>
      [] c = "spre"  -> t
      [] c = "sback" -> IF t = <<>> THEN t ELSE SubSeq(t, 1, Len(t) - 1)
      [] c = "sconv" -> Cut(Append(t, "henkan"))
      [] OTHER       -> Cut(Append(t, c))]]

EmptyText == <<>>
=============================================================================
