---------------------------- MODULE MCCollParser ----------------------------
(* CollParser with several small keyboards. *)
EXTENDS CollParser

Text(alphabet, max) == [sort |-> "text", alphabet |-> alphabet, max |-> max]
Typed(alphabet, max) == [sort |-> "tokens", alphabet |-> alphabet, max |-> max]
Sym(type) == Tok(type, <<>>)

MCDigits == <<"0", "1", "2">>

Operators == {Sym("open"), Sym("close"), Sym("or"), Sym("and"), Sym("not"), Tok("string", <<"s">>)}
Filters   == {Sym("equals"), Sym("match"), Sym("smallereq"), Sym("greatereq"), Sym("has"),
              Sym("in"), Sym("id"), Tok("string", <<"a">>), Tok("pattern", <<"*">>),
              Tok("pattern", <<"b", "*">>), Tok("long", <<"x", "/", "y">>), Tok("string", <<"x", "/", "y">>),
              Tok("integer", <<"2">>), Tok("sequence", <<"1", ",", "2">>)}

MCInputs == {
  Text({"0", "1", "2", ",", "-"}, 5),
  Text({"a", "1", " ", "\"", Escape, "*", "(", ":"}, 4),
  Text({"O", "R", "<", "=", "i", "n", ":", " ", "'"}, 4),
  Typed(Operators, 6),
  Typed(Filters, 4)}
SequenceInputs == {Text({"0", "1", "2", ",", "-"}, 5)}
=============================================================================
