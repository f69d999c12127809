----------------------------- MODULE MCCommands -----------------------------
(* Commands with a few arguments of every kind.  Byte 15 is no UTF-8. *)
EXTENDS Commands

MCUtf8 == 1..14

Names == {Str(<<Letter>>), Str(<<Letter, 15>>)}
MCUrls == {Str(u) : u \in {<<>>, <<Letter, Space>>, <<Plus, 15>>, <<Percent, Digit(3), Question>>,
                           <<Quote, Amp, Digit(0)>>, <<Equals, Equals, Equals, Equals>>}}

\* Dictionaries of arguments, and lists of arguments in one piece.
ArgDicts == {<<>>, (<<Letter>> :> None), (<<Letter>> :> Str(<<Digit(2), Digit(3)>>)) @@ (<<Digit(1)>> :> None),
             (<<Letter>> :> Str(<<Quote>>))}
ArgLists == {<<<<Letter>>, <<Digit(1), Equals, Digit(2)>>>>}

FromDict(u, d) ==
  LET es == Entries(d) IN
  <<"pair", u, [i \in DOMAIN es |-> ArgText(es[i][1], es[i][2])],
    FoldLeft(LAMBDA n, e : n + ArgRoom(e[1], e[2]), 0, es)>>
FromList(u, l) == <<"pair", u, l, FoldLeft(LAMBDA n, t : n + Len(t) + 2, 0, l)>>

AColl(kind, attrs, ids, ops) == Coll([kind |-> kind, attrs |-> attrs, ids |-> ids, ops |-> ops])
Ids   == AColl(IdlistKind, <<>>, <<3, 255>>, <<>>)
Has   == AColl(4, (<<Letter>> :> Str(<<>>)) @@ (<<Letter, Digit(2)>> :> Str(<<Space>>)), <<>>, <<Ids>>)
Colls == {Ids, Has, AColl(Reference, <<>>, <<>>, <<Ids>>), AColl(1, <<>>, <<1, 0, 2>>, <<Has, Ids>>)}

Lists == {List(<<>>), List(<<Str(<<Letter>>), Str(<<>>)>>)}

MCArgs == [
  playlist |-> Names \cup {Absent},
  name     |-> Names \cup {Absent},
  string   |-> Names \cup {Absent},
  url      |-> MCUrls \cup {Absent},
  plainurl |-> MCUrls \cup {Absent},
  path     |-> MCUrls \cup {Absent},
  urlargs  |-> {FromDict(u, d) : u \in MCUrls \cup {Absent}, d \in ArgDicts}
               \cup {FromList(u, l) : u \in MCUrls, l \in ArgLists},
  encoded  |-> {Absent, Str(<<Letter, Percent, Digit(0)>>), Str(<<Space>>)},
  checked  |-> {Str(<<Letter, Percent, Digit(0)>>), Str(<<Space>>)},
  int      |-> {Num(0), Num(-1), Num(127)},
  bin      |-> {<<"bin", <<>>>>, <<"bin", <<0, 15>>>>},
  order    |-> Lists \cup {Absent},
  coll     |-> Colls \cup {Absent},
  anycoll  |-> Colls \cup {Absent},
  list     |-> Lists \cup {Absent},
  strings  |-> Lists \cup {Absent, List(<<Str(<<>>), Num(1)>>)},
  anylist  |-> Lists \cup {Absent}]

Leaves == {None, Num(-128), Num(127), Str(<<>>), Str(<<1, 2>>), <<"error", <<Space>>>>,
           <<"bin", <<0, 1>>>>} \cup Colls
Dicts  == {<<"dict", <<>>>>} \cup {<<"dict", (<<1>> :> v) @@ (<<1, 2>> :> w)>> : v, w \in Leaves}
MCValues == Leaves \cup {List(<<v, w>>) : v \in Leaves, w \in Leaves \cup {List(<<>>)}} \cup Dicts
            \cup {List(<<v, v>>) : v \in {List(<<None>>), <<"dict", (<<3>> :> List(<<Num(1)>>))>>}}
=============================================================================
