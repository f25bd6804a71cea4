----------------------------- MODULE Multipart ------------------------------
(***************************************************************************)
(* The multipart/form-data parser of the dispatcher mode                   *)
(* (crates/plugins/http/src/multipart.rs): the boundary parameter, the     *)
(* delimiter lines of a body, and the parameters of a part's               *)
(* content-disposition.  What becomes of a part and its files is in        *)
(* Uploads.                                                                *)
(*                                                                         *)
(* In a body, "delim" is the two dashes with the boundary, "--" two more   *)
(* dashes, and "x" any bytes without a line end.                           *)
(***************************************************************************)
EXTENDS Tokens

CONSTANT MaxParts \* Limits::max_parts

ASSUME MultipartConstants == MaxParts \in Nat \ {0}

Refused(status) == [status |-> status, parts |-> <<>>]
Padding == {"sp"}

\* boundary(): a comma ends an unquoted value.
Boundary(content_type) ==
  LET isBoundary(seg) == Trim(SubSeq(seg, 1, Find(seg, {"="}, 1) - 1), Padding) = <<"boundary">>
                         /\ "=" \in ToSet(seg)
      segs == Tail(Split(content_type, ";"))
      chosen == {i \in DOMAIN segs : isBoundary(segs[i])}
      seg == segs[Min(chosen)]
      val == Trim(SubSeq(seg, Find(seg, {"="}, 1) + 1, Len(seg)), Padding)
      quoted == At(val, 1) = "quote"
      end == IF quoted THEN Find(val, {"quote"}, 2) ELSE Find(val, {","}, 1)
      boundary == IF quoted THEN SubSeq(val, 2, end - 1) ELSE Trim(SubSeq(val, 1, end - 1), Padding)
  IN IF chosen = {} \/ (quoted /\ end > Len(val)) \/ boundary = <<>> THEN None ELSE boundary

-----------------------------------------------------------------------------
(* The delimiter lines of a body.  A Broken... operator stands for one     *)
(* plausible bug of the operator after it.                                 *)

\* A line end at a position, as its length; 0 when there is none.
LineEnd(body, i) ==
  IF At(body, i) = "LF" THEN 1 ELSE IF At(body, i) = "CR" /\ At(body, i + 1) = "LF" THEN 2 ELSE 0

\* next_delimiter(): the rest of each line that is no delimiter is skipped.
NextDelimiter(body, from) ==
  LET none == [start |-> 0, after |-> 0, close |-> FALSE]
      next[at \in 1 .. Len(body) + 1] ==
        LET i == Find(body, {"delim"}, at)
            starts == i = 1 \/ At(body, i - 1) = "LF"
            j == Skip(body, Padding, i + 1)
            k == Skip(body, Padding, i + 2)
            closes == At(body, i + 1) = "--" /\ (k > Len(body) \/ LineEnd(body, k) > 0)
            rest == Find(body, {"LF"}, i) + 1
        IN IF i > Len(body) THEN none
           ELSE IF starts /\ closes THEN [start |-> i, after |-> i + 2, close |-> TRUE]
           ELSE IF starts /\ LineEnd(body, j) > 0
                THEN [start |-> i, after |-> j + LineEnd(body, j), close |-> FALSE]
           ELSE IF rest > Len(body) + 1 THEN none ELSE next[rest]
  IN next[from]

BrokenPartEnd(body, from, line) ==
  IF line > from /\ At(body, line - 1) = "LF" THEN line - 1 ELSE line

\* The end of a part: the line end before a delimiter belongs to the delimiter.
PartEnd(body, from, line) ==
  IF line > from /\ At(body, line - 1) = "LF"
  THEN IF line - 1 > from /\ At(body, line - 2) = "CR" THEN line - 2 ELSE line - 1
  ELSE line

\* The parts from a position on, of which `before` stand in front of it.
PartsFrom(body, from, before) ==
  LET parts[at \in 1 .. Len(body) + 1, n \in 0 .. MaxParts] ==
        LET ending == NextDelimiter(body, at)
            part == SubSeq(body, at, PartEnd(body, at, ending.start) - 1)
            rest == parts[ending.after, n + 1]
        IN IF n + 1 > MaxParts THEN Refused(413)
           ELSE IF ending.start = 0 THEN Refused(400)
           ELSE IF ending.close THEN [status |-> 200, parts |-> <<part>>]
           ELSE IF rest.status # 200 THEN rest
           ELSE [rest EXCEPT !.parts = <<part>> \o @]
  IN parts[from, before]

\* parse(), up to the contents of the parts.
Parts(body) ==
  LET opening == NextDelimiter(body, 1)
  IN IF opening.start = 0 THEN Refused(400)
     ELSE IF opening.close THEN [status |-> 200, parts |-> <<>>]
     ELSE PartsFrom(body, opening.after, 0)

-----------------------------------------------------------------------------
(* The parameters of a content-disposition.                                *)

\* The quoted string from a position on, and the position after it.
Unquoted(v, from) ==
  LET text[k \in 1 .. Len(v) + 1] ==
        LET escaped == At(v, k) = "\\" /\ At(v, k + 1) \in {"\\", "quote"}
            i == IF escaped THEN k + 1 ELSE k
            rest == text[i + 1]
        IN IF k > Len(v) THEN [value |-> None, next |-> 0]
           ELSE IF v[k] = "quote" THEN [value |-> <<>>, next |-> k + 1]
           ELSE IF rest.value = None THEN rest
           ELSE [rest EXCEPT !.value = <<v[i]>> \o @]
  IN text[from]

\* The parameters from a position on, in order: [key, value].  One that is
\* refused has the value None, and is the last.
ParamsFrom(v, from) ==
  LET params[i \in 1 .. Len(v) + 2] ==
        LET eq == Find(v, {"="}, i)
            j == Skip(v, Padding, eq + 1)
            semi == Find(v, {";"}, j)
            val == IF At(v, j) = "quote" THEN Unquoted(v, j + 1)
                   ELSE [value |-> Trim(SubSeq(v, j, semi - 1), Padding), next |-> semi]
            param == [key |-> Trim(SubSeq(v, i, eq - 1), Padding), value |-> val.value]
        IN IF eq > Len(v) THEN <<>>
           ELSE IF val.value = None THEN <<param>>
           ELSE <<param>> \o params[Find(v, {";"}, val.next) + 1]
  IN params[from]

\* disposition_params(), and the name that parse_part() insists on: a value it
\* refuses, for a parameter without end or one that is there twice, has no name.
DispositionParams(v) ==
  LET params == ParamsFrom(v, Find(v, {";"}, 1) + 1)
      all(key) == {i \in DOMAIN params : params[i].key = <<key>>}
      refused == \/ \E i \in DOMAIN params : params[i].value = None
                 \/ \E key \in {"name", "filename"} : Cardinality(all(key)) > 1
      value(key) == IF all(key) = {} THEN None ELSE params[Min(all(key))].value
  IN [name |-> IF refused THEN None ELSE value("name"), filename |-> value("filename")]

-----------------------------------------------------------------------------
(* Reference definitions.                                                  *)

\* The body as its lines, each without its LF.
Lines(body) == Split(body, "LF")

Bare(line) == IF line # <<>> /\ Last(line) = "CR" THEN Front(line) ELSE line

\* A delimiter line, as RFC 2046 has it: alone on its line but for padding.
Opens(body, n) ==
  n < Len(Lines(body)) /\ TrimEnd(Bare(Lines(body)[n]), Padding) = <<"delim">>
Closes(body, n) ==
  LET line == Lines(body)[n]
  IN TrimEnd(IF n < Len(Lines(body)) THEN Bare(line) ELSE line, Padding) = <<"delim", "--">>

\* What stands between two delimiter lines, without the last line end.
Between(body, m, n) ==
  LET lines == SubSeq(Lines(body), m + 1, n - 1)
      text == FlattenSeq([i \in DOMAIN lines |-> <<"LF">> \o lines[i]])
  IN IF lines = <<>> THEN <<>> ELSE Bare(Tail(text))

\* The parts of a body: between the delimiter lines, in their order.
PartsByLines(body) ==
  LET N == 1 .. Len(Lines(body))
      last == Min({n \in N : Closes(body, n)} \cup {Len(Lines(body)) + 1})
      first == Min({n \in N : Opens(body, n)} \cup {last})
      marks == SetToSortSeq({n \in N : n < last /\ Opens(body, n)} \cup ({last} \cap N), <)
      parts == [p \in 1 .. Len(marks) - 1 |-> Between(body, marks[p], marks[p + 1])]
  IN IF first = Len(Lines(body)) + 1 THEN Refused(400)
     ELSE IF Len(parts) > MaxParts \/ (last \notin N /\ Len(marks) > MaxParts) THEN Refused(413)
     ELSE IF last \notin N THEN Refused(400)
     ELSE [status |-> 200, parts |-> parts]

\* A parameter as a client quotes it.
Quoted(text) ==
  <<"quote">> \o FlattenSeq([i \in DOMAIN text |-> IF text[i] \in {"\\", "quote"}
                                                   THEN <<"\\", text[i]>> ELSE <<text[i]>>])
              \o <<"quote">>
Composed(name, filename) ==
  <<"form-data", ";", "sp", "name", "=">> \o Quoted(name)
    \o IF filename = None THEN <<>> ELSE <<";", "sp", "filename", "=">> \o Quoted(filename)
=============================================================================
