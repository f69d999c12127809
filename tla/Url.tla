-------------------------------- MODULE Url --------------------------------
(***************************************************************************)
(* The encoding of media URLs: medialib.c writes it, xmmsv_decode_url of   *)
(* value.c reads it.  A character is a byte, and a byte has two halves,    *)
(* each of Half values (16 in the source); the characters that matter have *)
(* names.  Arguments are appended as they are.                             *)
(***************************************************************************)
EXTENDS Naturals, SequencesExt

CONSTANT Half

ASSUME UrlAssumption == Half \in Nat /\ Half > 3

\* '0' and so on up to 'f', and a letter that is no digit
Digit(n) == n + 1
Digits   == {Digit(n) : n \in 0..Half - 1}
Letter   == Half + 1
Space    == Half + 2
Plus     == Half + 3
Percent  == Half + 4
Question == Half + 5
Equals   == Half + 6
Amp      == Half + 7
Quote    == Half + 8        \* a character that must be encoded

\* GOODCHAR
Good == Digits \cup {Letter}

\* Mutant: '%' is not accepted.
Verified_NoPercent(url) == ToSet(url) \subseteq Good \cup {Plus, Question, Equals, Amp}

\* _xmmsc_medialib_verify_url
Verified(url) == ToSet(url) \subseteq Good \cup {Plus, Percent, Question, Equals, Amp}

Escaped(c) == <<Percent, Digit(c \div Half), Digit(c % Half)>>

EncodedChar(c) ==
  IF c \in Good THEN <<c>> ELSE IF c = Space THEN <<Plus>> ELSE Escaped(c)

\* _xmmsc_medialib_encode_url and _encode_url_old: args are the texts of the
\* arguments, "key" or "key=value".
Encode(url, args) ==
  FlattenSeq([i \in DOMAIN url |-> EncodedChar(url[i])])
  \o FlattenSeq([i \in DOMAIN args |-> <<IF i = 1 THEN Question ELSE Amp>> \o args[i]])

\* The text of one entry of a dictionary of arguments.
ArgText(key, val) == IF val[1] = "string" THEN key \o <<Equals>> \o val[2] ELSE key

\* The room that _sum_len_string_dict provides for it.
ArgRoom(key, val) == IF val[1] = "string" THEN Len(key) + Len(val[2]) + 2
                     ELSE IF val[1] = "none" THEN Len(key) + 1 ELSE 0

\* The allocation, with the terminating NUL.
Room(url, extra) == Len(url) * 3 + 1 + extra

\* xmmsv_decode_url: a '+', and a '%' with its two digits or an error.
Decode(text) ==
  LET Bad == [ok |-> FALSE, url |-> <<>>, pending |-> <<>>]
      Step(s, c) ==
        CASE ~s.ok -> s
          [] s.pending = <<>> /\ c = Percent -> [s EXCEPT !.pending = <<c>>]
          [] s.pending = <<>> /\ c # Percent ->
               [s EXCEPT !.url = Append(@, IF c = Plus THEN Space ELSE c)]
          [] Len(s.pending) = 1 -> [s EXCEPT !.pending = Append(@, c)]
          [] OTHER -> IF {c, s.pending[2]} \subseteq Digits
                      THEN [s EXCEPT !.pending = <<>>,
                                     !.url = Append(@, (s.pending[2] - 1) * Half + c - 1)]
                      ELSE Bad
      end == FoldLeft(Step, [ok |-> TRUE, url |-> <<>>, pending |-> <<>>], text)
  IN IF end.pending = <<>> THEN end ELSE Bad
=============================================================================
