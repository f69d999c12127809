----------------------------- MODULE Sequences2 -----------------------------
(***************************************************************************)
(* What the lists of xlist.c and the queue of xqueue.c promise to those    *)
(* who call them: sequences, and what every call makes of them.            *)
(***************************************************************************)
EXTENDS Naturals, SequencesExt

CONSTANT Names

VARIABLES
  seq, fifo,
  done       \* the last call: function, list, and its two other arguments

svars == <<seq, fifo, done>>

SInit == seq = [l \in Names |-> <<>>] /\ fifo = <<>> /\ done = <<>>

Becomes(l, s) == seq' = [seq EXCEPT ![l] = s] /\ UNCHANGED fifo

\* Sorted insertion: in front of all that is not smaller, at the first such place.
SortedPlace(s, d) == CHOOSE p \in 1..Len(s) + 1 :
  /\ \A i \in 1..p - 1 : s[i] < d
  /\ p <= Len(s) => s[p] >= d

\* s without the entries d
Without(s, d) ==
  LET kept[i \in 0..Len(s)] ==
        IF i = 0 THEN <<>> ELSE IF s[i] = d THEN kept[i - 1] ELSE Append(kept[i - 1], s[i])
  IN kept[Len(s)]

SList(call, l, d, i) ==
  \/ call = "append" /\ Becomes(l, Append(seq[l], d))
  \/ call = "prepend" /\ Becomes(l, <<d>> \o seq[l])
  \/ call = "insert" /\ Becomes(l, InsertAt(seq[l], i, d))
  \/ call = "insert_sorted" /\ Becomes(l, InsertAt(seq[l], SortedPlace(seq[l], d), d))
  \/ call = "remove" /\ Becomes(l, RemoveAt(seq[l], Min({p \in DOMAIN seq[l] : seq[l][p] = d})))
  \/ call = "remove_all" /\ Becomes(l, Without(seq[l], d))
  \/ call = "delete_link" /\ Becomes(l, RemoveAt(seq[l], i))
  \/ call = "reverse" /\ Becomes(l, Reverse(seq[l]))
  \/ call = "free" /\ Becomes(l, <<>>)

\* Calls with two lists
STwo(call, l, m, i) ==
  /\ UNCHANGED fifo
  /\ \/ call = "remove_link" /\ seq' = [seq EXCEPT ![l] = RemoveAt(@, i), ![m] = <<seq[l][i]>>]
     \/ call = "concat" /\ seq' = [seq EXCEPT ![l] = @ \o seq[m], ![m] = <<>>]
     \/ call = "copy" /\ seq' = [seq EXCEPT ![m] = seq[l]]

SQueue(call, d) ==
  /\ UNCHANGED seq
  /\ \/ call = "push_head" /\ fifo' = <<d>> \o fifo
     \/ call = "push_tail" /\ fifo' = Append(fifo, d)
     \/ call = "pop_head" /\ fifo' = Tail(fifo)
     \/ call = "pop_tail" /\ fifo' = Front(fifo)
     \/ call = "queue_free" /\ fifo' = <<>>

SNext ==
  /\ done' # <<>>
  /\ LET call == done'[1]  l == done'[2]  x == done'[3]  i == done'[4]
     IN SList(call, l, x, i) \/ STwo(call, l, x, i) \/ SQueue(call, x)

SSpec == SInit /\ [][SNext]_svars
=============================================================================
