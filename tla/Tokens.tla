------------------------------- MODULE Tokens -------------------------------
(***************************************************************************)
(* Texts as sequences of tokens.  A token is a character that some rule    *)
(* looks at, or a run of characters that no rule looks into.  These are    *)
(* the operations on byte slices and header maps that the rules use.       *)
(***************************************************************************)
EXTENDS Integers, SequencesExt

None == <<"none">> \* a text that is not there

\* What stands at a position, and nothing beyond the end.
At(s, i) == IF i \in DOMAIN s THEN s[i] ELSE "end"

\* The least position from `from` on that holds one of cs, or one past the end.
Find(s, cs, from) == Min({i \in from .. Len(s) : s[i] \in cs} \cup {Len(s) + 1})

\* The least position from `from` on that holds none of cs, or one past the end.
Skip(s, cs, from) == Min({i \in from .. Len(s) : s[i] \notin cs} \cup {Max({from, Len(s) + 1})})

TrimEnd(s, cs) == SubSeq(s, 1, Max({i \in DOMAIN s : s[i] \notin cs} \cup {0}))
Trim(s, cs) == LET t == TrimEnd(s, cs) IN SubSeq(t, Skip(t, cs, 1), Len(t))

\* What stands at the positions of a set, in order.
Kept(s, places) == FlattenSeq([i \in DOMAIN s |-> IF i \in places THEN <<s[i]>> ELSE <<>>])

\* The pieces between the separators; a text without one is one piece.
Split(s, sep) ==
  LET ends == {i \in DOMAIN s : s[i] = sep} \cup {Len(s) + 1}
      start(end) == Max({i \in ends : i < end} \cup {0}) + 1
  IN Kept([end \in 1 .. Len(s) + 1 |-> SubSeq(s, start(end), end - 1)], ends)

\* A header map as its lines [name, value], in arrival order: its names by their
\* first line, and the values of one.
Keys(lines) ==
  Kept([i \in DOMAIN lines |-> lines[i].name],
       {i \in DOMAIN lines : \A j \in 1 .. i - 1 : lines[j].name # lines[i].name})
ValuesOf(lines, name) ==
  Kept([i \in DOMAIN lines |-> lines[i].value], {i \in DOMAIN lines : lines[i].name = name})
=============================================================================
