----------------------------- MODULE CollParser -----------------------------
(***************************************************************************)
(* The collection parser of collparser.c: a pattern is cut into tokens, the*)
(* tokens are adjusted to their neighbours, and a parser by recursive      *)
(* descent builds a collection of them.                                    *)
(*                                                                         *)
(* A character is a string of length one and a text a sequence of them.    *)
(* Decimal numbers are written with the digits of a smaller Radix.  The    *)
(* parser is driven by everything that can be typed, character by character*)
(* or token by token.  Out of memory is left out, and so are numbers beyond*)
(* the width of an int.                                                    *)
(***************************************************************************)
EXTENDS Integers, SequencesExt

CONSTANTS
  Inputs,    \* what is typed: "text" or "tokens", of which alphabet, how long
  Digits     \* the digits, in ascending order

Radix == Len(Digits)

VARIABLES
  input,     \* the chosen element of Inputs
  typed,     \* what has been typed so far
  result     \* of xmmsv_coll_parse, when it has been called

vars == <<input, typed, result>>

Wild   == {"*", "?"}
Quotes == {"\"", "'"}
Escape == "\\"
Number == ToSet(Digits)

Tok(type, str) == [type |-> type, str |-> str]

-----------------------------------------------------------------------------
\* TOKEN_MATCH_CHAR and TOKEN_MATCH_STRING, in their order
Symbols == <<
  Tok("open", <<"(">>), Tok("close", <<")">>), Tok("id", <<"#">>), Tok("has", <<"+">>),
  Tok("equals", <<":">>), Tok("match", <<"~">>),
  Tok("smallereq", <<"<", "=">>), Tok("greatereq", <<">", "=">>),
  Tok("smaller", <<"<">>), Tok("greater", <<">">>),
  Tok("or", <<"O", "R">>), Tok("and", <<"A", "N", "D">>), Tok("not", <<"N", "O", "T">>),
  Tok("in", <<"i", "n", ":">>)>>

\* A token and the text behind it.  "Did we encounter a trailing backslash?"
Found(type, word, rest, escape) == [ok |-> ~escape, tok |-> Tok(type, word), rest |-> rest]

RECURSIVE Quoted(_, _, _, _, _), Word(_, _, _, _, _), Tokens(_)

\* Behind an opening quote: to the closing one, or to the end.
Quoted(s, quote, escape, type, word) ==
  IF s = <<>> \/ (~escape /\ Head(s) = quote)
  THEN Found(type, word, IF s = <<>> THEN s ELSE Tail(s), escape)
  ELSE IF ~escape /\ Head(s) = Escape THEN Quoted(Tail(s), quote, TRUE, type, word)
  ELSE Quoted(Tail(s), quote, FALSE,
              IF ~escape /\ Head(s) \in Wild THEN "pattern" ELSE type, Append(word, Head(s)))

\* What a character makes of the type of the word before it.
Retyped(type, c, escape) ==
  LET other == IF type = "pattern" THEN "pattern"
               ELSE IF ~escape /\ c \in Wild THEN "pattern" ELSE "string"
  IN CASE type \in {"integer", "sequence"} /\ c \in Number -> type
       [] type \in {"integer", "sequence"} /\ c \in {",", "-"} -> "sequence"
       [] OTHER -> other

\* A word without quotes, of which n characters have been read.
Word(s, escape, type, word, n) ==
  IF s = <<>> THEN Found(type, word, s, escape)
  ELSE LET c == Head(s) IN
       CASE ~escape /\ c = Escape -> Word(Tail(s), TRUE, type, word, n + 1)
         [] ~escape /\ c \in {" ", "(", ")"} -> Found(type, word, s, FALSE)
         [] ~escape /\ c \in {":", "~", "<", ">"} ->
              Found(IF n = 1 THEN "short" ELSE "long", word, s, FALSE)
         [] OTHER -> Word(Tail(s), FALSE, Retyped(type, c, escape), Append(word, c), n + 1)

\* xmmsv_coll_default_parse_tokens, for a text that does not begin with a space
NextToken(s) ==
  LET sym == SelectInSeq(Symbols, LAMBDA y : IsPrefix(y.str, s)) IN
  CASE sym # 0 -> Found(Symbols[sym].type, Symbols[sym].str,
                        SubSeq(s, Len(Symbols[sym].str) + 1, Len(s)), FALSE)
    [] sym = 0 /\ Head(s) \in Quotes -> Quoted(Tail(s), Head(s), FALSE, "string", <<>>)
    [] OTHER -> Word(s, FALSE, "integer", <<>>, 0)

\* Mutant: the loop ends one character early.
Tokens_EndsEarly(s) ==
  IF Len(s) <= 1 THEN <<>>
  ELSE IF Head(s) = " " THEN Tokens(Tail(s))
  ELSE LET k == NextToken(s) IN IF k.ok THEN <<k.tok>> \o Tokens(k.rest) ELSE <<>>

\* The loop of xmmsv_coll_parse_custom: up to the end or the first token that
\* cannot be read.
Tokens(s) ==
  IF s = <<>> THEN <<>>
  ELSE IF Head(s) = " " THEN Tokens(Tail(s))
  ELSE LET k == NextToken(s) IN IF k.ok THEN <<k.tok>> \o Tokens(k.rest) ELSE <<>>

-----------------------------------------------------------------------------
\* strtol and snprintf; strtol takes the whole of an optional sign and digits.
ValueOf(s) == FoldLeft(LAMBDA n, c : n * Radix + SelectInSeq(Digits, LAMBDA d : d = c) - 1, 0, s)
IsInt(s) == LET d == IF s # <<>> /\ Head(s) = "-" THEN Tail(s) ELSE s
            IN d # <<>> /\ ToSet(d) \subseteq Number
IntOf(s) == IF Head(s) = "-" THEN -ValueOf(Tail(s)) ELSE ValueOf(s)

RECURSIVE Printed(_)
Printed(n) == IF n < 0 THEN <<"-">> \o Printed(-n)
              ELSE IF n < Radix THEN <<Digits[n + 1]>>
              ELSE Append(Printed(n \div Radix), Digits[(n % Radix) + 1])

NoString == <<"NULL">>

\* string_intadd: the buffer has room for as many characters as the number had.
IntAdd(s, delta) ==
  IF ~IsInt(s) THEN NoString
  ELSE LET digits == Printed(IntOf(s) + delta) IN SubSeq(digits, 1, Min({Len(s), Len(digits)}))

AsProp(t) == Tok(IF Len(t.str) = 1 THEN "short" ELSE "long", t.str)

\* "Fuzzy match the operand to MATCH, i.e. surround with '*'"
Fuzzy(s) == (IF s # <<>> /\ Head(s) = "*" THEN <<>> ELSE <<"*">>) \o s
            \o (IF s # <<>> /\ Last(s) # "*" THEN <<"*">> ELSE <<>>)

\* coll_parse_prepare at the token i: what becomes of the pair <<prev, curr>>.
Pair(prev, curr) ==
  LET before == IF curr.type \in {"greatereq", "smallereq", "greater", "smaller"} /\ prev.type = "string"
                THEN AsProp(prev) ELSE prev
      strict == IF prev.type = "greatereq" THEN "greater" ELSE "smaller"
  IN CASE before.type = "has" /\ curr.type = "string" -> <<before, AsProp(curr)>>
       [] before.type = "match" /\ curr.type = "integer" -> <<before, Tok("string", Fuzzy(curr.str))>>
       [] before.type = "match" /\ curr.type \in {"string", "pattern"} ->
            <<before, Tok(curr.type, Fuzzy(curr.str))>>
       [] before.type = "equals" /\ curr.type = "pattern" -> <<Tok("match", before.str), curr>>
       [] before.type = "equals" /\ curr.type = "integer" -> <<before, Tok("string", curr.str)>>
       [] before.type \in {"greatereq", "smallereq"} /\ curr.type = "integer" ->
            <<Tok(strict, before.str),
              Tok("integer", IntAdd(curr.str, IF strict = "greater" THEN -1 ELSE 1))>>
       [] OTHER -> <<before, curr>>

Prepare(tokens) ==
  FoldLeft(LAMBDA t, i : LET p == Pair(t[i - 1], t[i]) IN [t EXCEPT ![i - 1] = p[1], ![i] = p[2]],
           tokens, [k \in 1..Len(tokens) - 1 |-> k + 1])

-----------------------------------------------------------------------------
\* Collections: a kind, two attributes and operands.
Node(kind, field, value, ops) == [kind |-> kind, field |-> field, value |-> value, ops |-> ops]
Universe == Node("reference", <<>>, <<>>, <<>>)
Filter(kind, field, value) == Node(kind, field, value, <<Universe>>)
Op(kind, ops) == Node(kind, <<>>, <<>>, ops)

\* xmmsv_coll_prop_short
Shorts == [a |-> "artist", l |-> "album", t |-> "title", n |-> "tracknr",
           y |-> "year", g |-> "genre", u |-> "url"]
DefaultProps == <<"artist", "album", "title">>

Done(coll, pos) == [ok |-> TRUE, coll |-> coll, pos |-> pos]
Fail(pos) == [ok |-> FALSE, pos |-> pos]
Type(t, p) == IF p \in DOMAIN t THEN t[p].type ELSE "end"
Value(t, p) == t[p].str
StrVal == {"string", "pattern"}

\* coll_parse_prop
IsProp(t, p) == Type(t, p) \in {"short", "long"}
Prop(t, p) ==
  IF Type(t, p) = "short" /\ Head(Value(t, p)) \in DOMAIN Shorts
  THEN <<Shorts[Head(Value(t, p))]>> ELSE Value(t, p)

Cut(s, c) == FoldLeft(LAMBDA parts, x : IF x = c THEN Append(parts, <<>>)
                        ELSE [parts EXCEPT ![Len(parts)] = Append(@, x)], << <<>> >>, s)

\* Mutant: the lower end of a range is not taken in.
Element_Exclusive(e, field) ==
  LET dash == SelectInSeq(e, LAMBDA c : c = "-")
      from == SubSeq(e, 1, dash - 1)
      to   == SubSeq(e, dash + 1, Len(e))
      low  == IF from = <<>> THEN Universe ELSE Filter("greater", field, from)
  IN CASE dash = 0 -> Filter("equals", field, e)
       [] dash # 0 /\ to = <<>> -> low
       [] OTHER -> Node("smaller", field, IntAdd(to, 1), <<low>>)

\* One element of a sequence: a number, or a range with one end, two or none.
Element(e, field) ==
  LET dash == SelectInSeq(e, LAMBDA c : c = "-")
      from == SubSeq(e, 1, dash - 1)
      to   == SubSeq(e, dash + 1, Len(e))
      low  == IF from = <<>> THEN Universe ELSE Filter("greater", field, IntAdd(from, -1))
  IN CASE dash = 0 -> Filter("equals", field, e)
       [] dash # 0 /\ to = <<>> -> low
       [] OTHER -> Node("smaller", field, IntAdd(to, 1), <<low>>)

\* coll_parse_sequence
Sequence(t, p, field) ==
  IF Type(t, p) \notin {"integer", "sequence"} THEN Fail(p)
  ELSE LET parts == Cut(Value(t, p), ",")
           colls == [i \in DOMAIN parts |-> Element(parts[i], field)]
       IN Done(IF Len(parts) = 1 THEN colls[1] ELSE Op("union", colls), p + 1)

IdSeq(t, p) == IF Type(t, p) = "id" THEN Sequence(t, p + 1, <<"id">>) ELSE Fail(p)

Reference(t, p) ==
  IF Type(t, p) # "in" \/ Type(t, p + 1) # "string" THEN Fail(p)
  ELSE LET s == Value(t, p + 1)
           slash == SelectInSeq(s, LAMBDA c : c = "/")
           space == IF slash > 1 THEN SubSeq(s, 1, slash - 1) ELSE <<"Collections">>
       IN Done(Node("reference", space, SubSeq(s, slash + 1, Len(s)), <<>>), p + 2)

UnaryFilter(t, p) ==
  IF Type(t, p) = "has" /\ IsProp(t, p + 1)
  THEN Done(Filter("has", Prop(t, p + 1), <<>>), p + 2) ELSE Fail(p)

BinaryFilter(t, p) ==
  LET op == Type(t, p + 1)
      operand == Type(t, p + 2)
      fits == \/ op = "equals" /\ operand = "string"
              \/ op = "match" /\ operand \in StrVal
              \/ op \in {"smaller", "greater"} /\ operand = "integer"
  IN IF IsProp(t, p) /\ fits THEN Done(Filter(op, Prop(t, p), Value(t, p + 2)), p + 3) ELSE Fail(p)

\* "Properties to match by default": the union of one filter for each.
Auto(kind, value) == Op("union", [i \in DOMAIN DefaultProps |-> Filter(kind, <<DefaultProps[i]>>, value)])

AutoFilter(t, p) ==
  LET given == Type(t, p) \in {"equals", "match"}
      at    == IF given THEN p + 1 ELSE p
      kind  == IF given THEN Type(t, p) ELSE IF Type(t, p) = "pattern" THEN "match" ELSE "equals"
  IN IF Type(t, at) \in StrVal THEN Done(Auto(kind, Value(t, at)), at + 1) ELSE Fail(p)

\* "Recognize a seperate '*' as the universe collection"
Star(t, p) == IF Type(t, p) = "pattern" /\ Value(t, p) = <<"*">> THEN Done(Universe, p + 1) ELSE Fail(p)

RECURSIVE Expr(_, _), AndAppend(_, _, _), OrAppend(_, _, _)

\* What the parser makes of the result r of something it has tried at p.
\* An operator with one operand is left out again.
Conjunction(r, p) ==
  IF ~r.ok THEN Fail(p)
  ELSE Done(IF Len(r.ops) = 1 THEN r.ops[1] ELSE Op("intersection", r.ops), r.pos)

\* A union is made when there is an OR, also for one operand.
Disjunction(r, single, p) ==
  IF ~r.ok THEN Fail(p)
  ELSE IF r.pos = single.pos THEN single ELSE Done(Op("union", r.ops), r.pos)

Closed(t, r, p) == IF r.ok /\ Type(t, r.pos) = "close" THEN Done(r.coll, r.pos + 1) ELSE Fail(p)
Negated(r, p) == IF r.ok THEN Done(Op("complement", <<r.coll>>), r.pos) ELSE Fail(p)
FirstOf(tries, p) == LET first == SelectInSeq(tries, LAMBDA r : r.ok)
                     IN IF first = 0 THEN Fail(p) ELSE tries[first]

\* Operands so far with r, which ends at q, and with what was read behind it.
Append1(r, q, ops) == [ok |-> TRUE, ops |-> Append(ops, r.coll), pos |-> q]
Longer(next, r, q, ops) == IF next.ok THEN next ELSE Append1(r, q, ops)

AndOp(t, p) == Conjunction(AndAppend(t, p, <<>>), p)
ParenExpr(t, p) == IF Type(t, p) = "open" THEN Closed(t, AndOp(t, p + 1), p) ELSE Fail(p)
NotOp(t, p) == IF Type(t, p) = "not" THEN Negated(Expr(t, p + 1), p) ELSE Fail(p)

\* coll_parse_expr, with coll_parse_filter and coll_parse_unaryop: the first
\* alternative that succeeds.
Expr(t, p) ==
  FirstOf(<<Sequence(t, p, <<"position">>), IdSeq(t, p), UnaryFilter(t, p), BinaryFilter(t, p),
            Star(t, p), AutoFilter(t, p), ParenExpr(t, p), NotOp(t, p), Reference(t, p)>>, p)

\* Mutant: what follows an OR may be a conjunction.
OrAppend_Loose(t, p, ops) ==
  LET r == Expr(t, p) IN
  IF ~r.ok THEN Fail(p)
  ELSE IF Type(t, r.pos) # "or" THEN Append1(r, r.pos, ops)
  ELSE LET next == AndOp(t, r.pos + 1)
       IN IF next.ok THEN Append1(next, next.pos, Append(ops, r.coll)) ELSE Append1(r, r.pos + 1, ops)

\* coll_parse_orop_append: an OR that nothing follows is skipped.
OrRest(t, r, p, ops) ==
  IF ~r.ok THEN Fail(p)
  ELSE IF Type(t, r.pos) # "or" THEN Append1(r, r.pos, ops)
  ELSE Longer(OrAppend(t, r.pos + 1, Append(ops, r.coll)), r, r.pos + 1, ops)
OrAppend(t, p, ops) == OrRest(t, Expr(t, p), p, ops)
OrOp(t, p) == Disjunction(OrAppend(t, p, <<>>), Expr(t, p), p)

\* coll_parse_andop_append: "skip the AND operator if present".
SkipAnd(t, p) == IF Type(t, p) = "and" THEN p + 1 ELSE p
AndRest(t, r, p, ops) ==
  IF ~r.ok THEN Fail(p)
  ELSE Longer(AndAppend(t, SkipAnd(t, r.pos), Append(ops, r.coll)), r, SkipAnd(t, r.pos), ops)
AndAppend(t, p, ops) == AndRest(t, OrOp(t, p), p, ops)

\* xmmsv_coll_default_parse_build: all tokens must be used.
AllUsed(t, r) == IF r.ok /\ r.pos = Len(t) + 1 THEN r ELSE Fail(1)
Parsed(t) == AllUsed(t, AndOp(t, 1))
Build(tokens) == Parsed(Prepare(tokens))

-----------------------------------------------------------------------------
NotParsed == <<>>

Init == input \in Inputs /\ typed = <<>> /\ result = NotParsed

TypeOne(x) ==
  /\ result = NotParsed /\ Len(typed) < input.max
  /\ typed' = Append(typed, x)
  /\ UNCHANGED <<input, result>>

Toks == IF input.sort = "text" THEN Tokens(typed) ELSE typed

\* xmmsv_coll_parse
Parse ==
  /\ result = NotParsed
  /\ result' = <<Build(Toks)>>
  /\ UNCHANGED <<input, typed>>

Next == Parse \/ \E x \in input.alphabet : TypeOne(x)

Spec == Init /\ [][Next]_vars

-----------------------------------------------------------------------------
TokenTypes == {Symbols[i].type : i \in DOMAIN Symbols}
              \cup {"string", "pattern", "integer", "sequence", "short", "long"}

TypeOK ==
  /\ input \in Inputs /\ Len(typed) <= input.max
  /\ \A i \in DOMAIN Toks : Toks[i].type \in TokenTypes
  /\ result # NotParsed => result[1].ok \in BOOLEAN

\* The documented grammar, as the collections that it gives the tokens i..j-1.
Leaves(t, i, j) ==
  LET ty(k) == Type(t, i + k) v(k) == Value(t, i + k) IN
  CASE j = i + 1 /\ ty(0) \in {"integer", "sequence"} -> {Sequence(t, i, <<"position">>).coll}
    [] j = i + 1 /\ ty(0) = "string" -> {Auto("equals", v(0))}
    [] j = i + 1 /\ ty(0) = "pattern" -> {IF v(0) = <<"*">> THEN Universe ELSE Auto("match", v(0))}
    [] j = i + 2 /\ ty(0) = "id" /\ ty(1) \in {"integer", "sequence"} -> {Sequence(t, i + 1, <<"id">>).coll}
    [] j = i + 2 /\ ty(0) = "has" /\ IsProp(t, i + 1) -> {Filter("has", Prop(t, i + 1), <<>>)}
    [] j = i + 2 /\ ty(0) = "in" /\ ty(1) = "string" -> {Reference(t, i).coll}
    [] j = i + 2 /\ ((ty(0) = "equals" /\ ty(1) = "string") \/ (ty(0) = "match" /\ ty(1) \in StrVal)) ->
         {Auto(ty(0), v(1))}
    [] /\ j = i + 3 /\ IsProp(t, i)
       /\ \/ ty(1) = "equals" /\ ty(2) = "string"
          \/ ty(1) = "match" /\ ty(2) \in StrVal
          \/ ty(1) \in {"smaller", "greater"} /\ ty(2) = "integer" ->
         {Filter(ty(1), Prop(t, i), v(2))}
    [] OTHER -> {}

RECURSIVE GExpr(_, _, _), GOr(_, _, _), GAnd(_, _, _)
Joined(kind, lists) == {IF Len(l) = 1 THEN l[1] ELSE Op(kind, l) : l \in lists}
GExpr(t, i, j) ==
  Leaves(t, i, j)
  \cup (IF Type(t, i) = "open" /\ Type(t, j - 1) = "close" THEN Joined("intersection", GAnd(t, i + 1, j - 1)) ELSE {})
  \cup (IF Type(t, i) = "not" THEN {Op("complement", <<x>>) : x \in GExpr(t, i + 1, j)} ELSE {})
GOr(t, i, j) ==
  {<<x>> : x \in GExpr(t, i, j)}
  \cup UNION {{<<x>> \o l : x \in GExpr(t, i, k), l \in GOr(t, k + 1, j)} :
                k \in {k \in i + 1..j - 2 : Type(t, k) = "or"}}
GAnd(t, i, j) ==
  LET first(k) == Joined("union", GOr(t, i, k)) IN
  {<<x>> : x \in first(j)}
  \cup UNION {{<<x>> \o l : x \in first(k), l \in GAnd(t, IF Type(t, k) = "and" THEN k + 1 ELSE k, j)} :
                k \in i + 1..j - 1}
Grammar(t) == Joined("intersection", GAnd(t, 1, Len(t) + 1))

\* An OR and an AND that nothing follows to which they could apply.
Dangling(t, i) ==
  LET next == Type(t, i + 1) IN
  \/ Type(t, i) = "or" /\ next \in {"end", "close", "and"}
  \/ Type(t, i) = "and" /\ next \in {"end", "close"}
Trimmed(t) == FoldRight(LAMBDA i, rest : IF i > 1 /\ Dangling(t, i) THEN rest ELSE <<t[i]>> \o rest,
                        [k \in DOMAIN t |-> k], <<>>)
RECURSIVE Unwrapped(_)
Unwrapped(c) == LET ops == [i \in DOMAIN c.ops |-> Unwrapped(c.ops[i])] IN
                IF c.kind = "union" /\ Len(ops) = 1 THEN ops[1] ELSE [c EXCEPT !.ops = ops]

\* The parser accepts what the documented grammar derives, in which OR binds more
\* tightly than AND, and builds the collection that the grammar means: no operand
\* is lost, doubled or moved into another operator by the attempts that failed.
\* Beyond the grammar it only ignores operators that nothing follows.
ParsesGrammar ==
  result # NotParsed =>
    LET t == Trimmed(Prepare(Toks)) IN
    IF result[1].ok THEN Grammar(t) = {Unwrapped(result[1].coll)} ELSE Grammar(t) = {}

Silent == {" ", "\"", "'", Escape}
Letters(s) == SelectSeq(s, LAMBDA c : c \notin Silent)
EndsEscaped(s) ==
  LET run == {n \in 0..Len(s) : \A i \in Len(s) - n + 1..Len(s) : s[i] = Escape} IN Max(run) % 2 = 1

\* Every character of a pattern is found in one of its tokens, in the order in
\* which they were typed, whatever is quoted, escaped or broken off; only a
\* backslash at the very end drops the word before it.
NothingSkipped ==
  input.sort = "text" =>
    LET read == Letters(FlattenSeq([i \in DOMAIN Toks |-> Toks[i].str])) IN
    IF EndsEscaped(typed) THEN IsPrefix(read, Letters(typed)) ELSE read = Letters(typed)

\* A text can be quoted so that it comes through as one word, unchanged.
QuotedSurvives ==
  input.sort = "text" =>
    LET escaped == FlattenSeq([i \in DOMAIN typed |-> <<Escape, typed[i]>>])
    IN Tokens(<<"\"">> \o escaped \o <<"\"">>) = <<Tok("string", typed)>>

\* The numbers that a sequence of well-formed elements stands for, and those that
\* the collection built of it matches.
Bounds(e) == LET dash == SelectInSeq(e, LAMBDA c : c = "-") IN
  IF dash = 0 THEN <<e, e>> ELSE <<SubSeq(e, 1, dash - 1), SubSeq(e, dash + 1, Len(e))>>
WellFormed(e) == e # <<>> /\ \A i \in 1..2 : ToSet(Bounds(e)[i]) \subseteq Number
Meant(s, n) == \E e \in ToSet(Cut(s, ",")) :
  /\ Bounds(e)[1] = <<>> \/ ValueOf(Bounds(e)[1]) <= n
  /\ Bounds(e)[2] = <<>> \/ n <= ValueOf(Bounds(e)[2])
AsInt(s) == IF IsInt(s) THEN IntOf(s) ELSE 0
RECURSIVE Matches(_, _)
Matches(c, n) ==
  LET v == AsInt(c.value) IN
  CASE c.kind = "reference" -> TRUE
    [] c.kind = "union" -> \E i \in DOMAIN c.ops : Matches(c.ops[i], n)
    [] c.kind = "equals" -> n = v
    [] c.kind = "smaller" -> n < v /\ Matches(c.ops[1], n)
    [] c.kind = "greater" -> n > v /\ Matches(c.ops[1], n)

IsSequence == result # NotParsed /\ Len(Toks) = 1 /\ Type(Toks, 1) \in {"integer", "sequence"}
              /\ \A e \in ToSet(Cut(Toks[1].str, ",")) : WellFormed(e)

\* A sequence of numbers and ranges matches the positions it names, "given a string
\* containing a number, add the given delta to that number and produce a new string
\* with the result" (collparser.c:1100).
SequenceMeant ==
  IsSequence => \A n \in 0..Radix^2 : Matches(result[1].coll, n) = Meant(Toks[1].str, n)

\* The same, when no bound of a range gets another length by being made exclusive.
SameLength(e) == LET b == Bounds(e) IN
  SelectInSeq(e, LAMBDA c : c = "-") # 0 =>
    /\ b[1] # <<>> => ValueOf(b[1]) > 0
    /\ b[2] # <<>> => Len(Printed(ValueOf(b[2]) + 1)) <= Len(b[2])
SequenceMeantSameLength ==
  IsSequence /\ (\A e \in ToSet(Cut(Toks[1].str, ",")) : SameLength(e)) =>
    \A n \in 0..Radix^2 : Matches(result[1].coll, n) = Meant(Toks[1].str, n)

\* What was typed comes through the cutting into tokens (collparser.c).
TextSurvives == TypeOK /\ NothingSkipped /\ QuotedSurvives
=============================================================================
