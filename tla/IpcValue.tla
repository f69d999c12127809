------------------------------ MODULE IpcValue ------------------------------
(***************************************************************************)
(* How msg.c lays the values of value.c and coll.c out in the body of a    *)
(* message, and how it reads them back from a message somebody else wrote. *)
(*                                                                         *)
(* A value is a pair: its type and its content.  A string is a sequence of *)
(* bytes other than 0, a dictionary a function from strings, a collection  *)
(* a record.  A word has WordLen digits in base Base, most significant     *)
(* first; the source's has four, in base 256.  The operators are recursive:*)
(* the module is for TLC.                                                  *)
(***************************************************************************)
EXTENDS Integers, SequencesExt

CONSTANTS
  Base,      \* number of values of a byte
  WordLen,   \* bytes of a uint32_t
  Default    \* XMMS_IPC_MSG_DEFAULT_SIZE

ASSUME IpcValueAssumption == Base > 7 /\ WordLen > 0 /\ Default > 0

\* xmmsv_type_t and, in content.kind, the one xmmsv_coll_type_t that matters
TypeNumber == [none |-> 0, error |-> 1, int |-> 2, string |-> 3,
               coll |-> 4, bin |-> 5, list |-> 6, dict |-> 7]
Reference == 0

\* A value that could not be made: NULL.
Absent == <<"absent">>

\* xmmsv_new_none to xmmsv_new_dict
None == <<"none">>
Num(n) == <<"int", n>>
Str(s) == <<"string", s>>
List(s) == <<"list", s>>
Coll(c) == <<"coll", c>>

-----------------------------------------------------------------------------
\* htonl, ntohl, and the two's complement of an int32_t
Word(n) == [i \in 1..WordLen |-> (n \div Base^(WordLen - i)) % Base]
Number(w) == FoldLeft(LAMBDA n, byte : n * Base + byte, 0, w)
Signed(n) == IF 2 * n < Base^WordLen THEN n ELSE n - Base^WordLen

HeadLen == 4 * WordLen
EmptyMsg == [data |-> <<>>, size |-> Default]


PutData(m, bytes) ==
  LET total == Len(m.data) + HeadLen + Len(bytes) IN
  [data |-> m.data \o bytes,
   size |-> IF total > m.size THEN m.size + Max({Default, Len(bytes)}) ELSE m.size]

PutInt(m, n) == PutData(m, Word(n))
PutBin(m, b) == PutData(PutInt(m, Len(b)), b)

\* Strings and errors travel with their trailing NUL.
PutString(m, s) == PutBin(m, Append(s, 0))

\* xmms_ipc_msg_store_uint32: word n over what is at offset at.
StoreInt(m, at, n) ==
  [m EXCEPT !.data = [i \in DOMAIN @ |-> IF i - at \in 1..WordLen THEN Word(n)[i - at] ELSE @[i]]]

\* strcmp, and the entries of a dictionary in the order of its flat list
Before(s, t) == \E n \in 0..Len(s) : /\ n < Len(t)
                                     /\ SubSeq(s, 1, n) = SubSeq(t, 1, n)
                                     /\ (n = Len(s) \/ s[n + 1] < t[n + 1])
Entries(d) == [i \in 1..Cardinality(DOMAIN d) |->
                 LET k == SetToSortSeq(DOMAIN d, Before)[i] IN <<k, d[k]>>]

IsString(v) == v[1] = "string"

RECURSIVE PutValue(_, _), PutColl(_, _)

\* A dummy count, the entries, and then the real count in the dummy's place.
PutCounted(m, Put(_, _), s) ==
  StoreInt(FoldLeft(Put, PutInt(m, 0), s), Len(m.data), Len(s))

\* All attributes are counted; those that are strings are written.
PutAttributes(m, attrs) ==
  FoldLeft(LAMBDA n, e : IF IsString(e[2]) THEN PutString(PutString(n, e[1]), e[2][2]) ELSE n,
           PutInt(m, Len(attrs)), attrs)

UpToZero(ids) == SubSeq(ids, 1, SelectInSeq(Append(ids, 0), LAMBDA id : id = 0) - 1)

PutOperand(m, v) == PutColl(PutInt(m, TypeNumber.coll), v[2])

PutColl(m, c) ==
  LET attrs == PutAttributes(PutInt(m, c.kind), Entries(c.attrs))
      ids   == UpToZero(c.ids)
      mids  == FoldLeft(PutInt, PutInt(attrs, Len(ids)), ids)
      ops   == IF c.kind = Reference THEN <<>> ELSE c.ops
  IN FoldLeft(PutOperand, PutInt(mids, Len(ops)), ops)

PutPair(m, e) == PutValue(PutString(m, e[1]), e[2])

PutValue(m, v) ==
  LET typed == PutInt(m, TypeNumber[v[1]]) IN
  CASE v[1] = "none" -> typed
    [] v[1] = "int" -> PutInt(typed, v[2])
    [] v[1] \in {"string", "error"} -> PutString(typed, v[2])
    [] v[1] = "bin" -> PutBin(typed, v[2])
    [] v[1] = "coll" -> PutColl(typed, v[2])
    [] v[1] = "list" -> PutCounted(typed, PutValue, v[2])
    [] v[1] = "dict" -> PutCounted(typed, PutPair, Entries(v[2]))

-----------------------------------------------------------------------------
\* Reading at position p of the body d: whether it worked, the position after
\* it and what was read.
Fail == [ok |-> FALSE]
Got(p, v) == [ok |-> TRUE, pos |-> p, val |-> v]
Then(r, K(_, _)) == IF r.ok THEN K(r.pos, r.val) ELSE Fail


GetData(d, p, n) == IF n > Len(d) - p THEN Fail ELSE Got(p + n, SubSeq(d, p + 1, p + n))

GetUint(d, p) == Then(GetData(d, p, WordLen), LAMBDA q, w : Got(q, Number(w)))
GetBin(d, p) == Then(GetUint(d, p), LAMBDA q, n : GetData(d, q, n))

\* xmmsv_new_string and _new_error copy the bytes up to the first NUL.
GetString(d, p) == Then(GetBin(d, p), LAMBDA q, b : Got(q, UpToZero(b)))

GetMany(Get(_, _), d, p, n) ==
  FoldLeft(LAMBDA r, i : Then(r, LAMBDA q, vs :
             Then(Get(d, q), LAMBDA q2, v : Got(q2, Append(vs, v)))),
           Got(p, <<>>), [i \in 1..n |-> i])

GetCounted(Get(_, _), d, p) == Then(GetUint(d, p), LAMBDA q, n : GetMany(Get, d, q, n))

\* xmmsv_dict_set, pair after pair
Dict(pairs) == FoldLeft(LAMBDA f, e : (e[1] :> e[2]) @@ f, <<>>, pairs)

RECURSIVE GetValue(_, _), GetColl(_, _)

GetPair(Get(_, _), d, p) ==
  Then(GetString(d, p), LAMBDA q, k : Then(Get(d, q), LAMBDA q2, v : Got(q2, <<k, v>>)))

GetAttribute(d, p) ==
  Then(GetPair(GetString, d, p), LAMBDA q, e : Got(q, <<e[1], Str(e[2])>>))

GetOperand(d, p) ==
  Then(GetUint(d, p), LAMBDA q, t :
    IF t = TypeNumber.coll THEN Then(GetColl(d, q), LAMBDA q2, c : Got(q2, Coll(c))) ELSE Fail)

GetColl(d, p) ==
  Then(GetUint(d, p), LAMBDA p1, kind :
  Then(GetCounted(GetAttribute, d, p1), LAMBDA p2, attrs :
  Then(GetCounted(GetUint, d, p2), LAMBDA p3, ids :
  Then(GetCounted(GetOperand, d, p3), LAMBDA p4, ops :
    Got(p4, [kind |-> kind, attrs |-> Dict(attrs), ids |-> UpToZero(ids), ops |-> ops])))))

GetEntry(d, p) == GetPair(GetValue, d, p)

GetValue(d, p) ==
  Then(GetUint(d, p), LAMBDA q, t :
    CASE t = TypeNumber.none -> Got(q, None)
      [] t = TypeNumber.int -> Then(GetUint(d, q), LAMBDA r, n : Got(r, Num(Signed(n))))
      [] t = TypeNumber.string -> Then(GetString(d, q), LAMBDA r, s : Got(r, Str(s)))
      [] t = TypeNumber.error -> Then(GetString(d, q), LAMBDA r, s : Got(r, <<"error", s>>))
      [] t = TypeNumber.bin -> Then(GetBin(d, q), LAMBDA r, b : Got(r, <<"bin", b>>))
      [] t = TypeNumber.coll -> Then(GetColl(d, q), LAMBDA r, c : Got(r, Coll(c)))
      [] t = TypeNumber.list -> Then(GetCounted(GetValue, d, q), LAMBDA r, s : Got(r, List(s)))
      [] t = TypeNumber.dict -> Then(GetCounted(GetEntry, d, q), LAMBDA r, e : Got(r, <<"dict", Dict(e)>>))
      [] OTHER -> Fail)
=============================================================================
