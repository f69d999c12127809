------------------------------- MODULE XList -------------------------------
(***************************************************************************)
(* The doubly linked lists of xlist.c, which hold the results, notifiers   *)
(* and iterators of the library, and the queue of xqueue.c made of them,   *)
(* which holds the messages to be written.  All nodes lie in one heap.     *)
(*                                                                         *)
(* A function is applied to a list at its head and its result is the list  *)
(* from then on.  Memory is always found, but a call happens only when a   *)
(* node is free: the heap is small.  Using a node that is free is applying *)
(* `heap' outside its domain, which TLC reports.                           *)
(***************************************************************************)
EXTENDS Integers, SequencesExt

CONSTANTS
  Nodes,     \* the places in memory for a node
  Null,
  Names,     \* the names of the lists
  Data       \* what is stored: numbers, whose order is that of the comparison

ASSUME LinksAssumption ==
  IsFiniteSet(Nodes) /\ Null \notin Nodes /\ Null \notin Names /\ Data \subseteq Int

VARIABLES
  heap,      \* the allocated nodes: next, prev and data
  list,      \* the first node of every list, or Null
  queue,     \* x_queue_t: head, tail and length
  done       \* the last call, with its arguments (history)

links == <<heap, list, queue, done>>

LinksInit ==
  /\ heap = <<>>
  /\ list = [l \in Names |-> Null]
  /\ queue = [head |-> Null, tail |-> Null, length |-> 0]
  /\ done = <<>>

\* The nodes from n on; `next' first.
Chain(h, n) ==
  LET way[m \in DOMAIN h \cup {Null}] == IF m = Null THEN <<>> ELSE <<m>> \o way[h[m].next]
  IN way[n]

NodesOf(l) == Chain(heap, list[l])
LastOf(n)  == IF n = Null THEN Null ELSE Last(Chain(heap, n))

FreeNodes == Nodes \ DOMAIN heap

\* _x_list_alloc, with the data
Node(next, prev, data) == [next |-> next, prev |-> prev, data |-> data]
Allocated(h, k, node) == [n \in DOMAIN h \cup {k} |-> IF n = k THEN node ELSE h[n]]

\* h with n->next, or n->prev, set to m unless n is NULL
SetNext(h, n, m) == IF n = Null THEN h ELSE [h EXCEPT ![n].next = m]
SetPrev(h, n, m) == IF n = Null THEN h ELSE [h EXCEPT ![n].prev = m]

\* A node k with the data d, in front of the node n
Before(h, k, n, d) ==
  LET prev == h[n].prev IN SetPrev(SetNext(Allocated(h, k, Node(n, prev, d)), prev, k), n, k)

\* ... and behind it, as the last one
Behind(h, k, n, d) == SetNext(Allocated(h, k, Node(Null, n, d)), n, k)

\* Mutant: the node behind is not told.
Unlinked_OneWay(h, n) == SetNext(h, h[n].prev, h[n].next)

\* The neighbours of n are linked to each other.
Unlinked(h, n) == SetPrev(SetNext(h, h[n].prev, h[n].next), h[n].next, h[n].prev)

\* _x_list_free_1
Freed(h, n) == Restrict(h, DOMAIN h \ {n})

-----------------------------------------------------------------------------
\* x_list_append and x_list_prepend
Append1(l, d) ==
  \E k \in FreeNodes :
    /\ heap' = Behind(heap, k, LastOf(list[l]), d)
    /\ list' = IF list[l] = Null THEN [list EXCEPT ![l] = k] ELSE list
    /\ UNCHANGED queue

Prepend(l, d) ==
  \E k \in FreeNodes :
    /\ heap' = IF list[l] = Null THEN Behind(heap, k, Null, d) ELSE Before(heap, k, list[l], d)
    /\ list' = [list EXCEPT ![l] = k]
    /\ UNCHANGED queue

\* x_list_insert in front of the node n that x_list_nth has found, at a position above
\* 0, and x_list_insert_before; the other cases are x_list_append and x_list_prepend.
Insert(l, d, n) ==
  \E k \in FreeNodes :
    /\ n # Null
    /\ heap' = Before(heap, k, n, d)
    /\ list' = IF n = list[l] THEN [list EXCEPT ![l] = k] ELSE list
    /\ UNCHANGED queue

\* The first node that is not smaller than d.
Place(l, d) ==
  LET bigger == {i \in 1..Len(NodesOf(l)) : heap[NodesOf(l)[i]].data >= d}
  IN IF bigger = {} THEN Null ELSE NodesOf(l)[Min(bigger)]

\* x_list_insert_sorted
InsertSorted(l, d) == IF Place(l, d) = Null THEN Append1(l, d) ELSE Insert(l, d, Place(l, d))

\* x_list_delete_link; x_list_remove of the first node with the data d
DeleteLink(l, n) ==
  /\ n # Null
  /\ heap' = Freed(Unlinked(heap, n), n)
  /\ list' = IF n = list[l] THEN [list EXCEPT ![l] = heap[n].next] ELSE list
  /\ UNCHANGED queue

Found(l, d) == {i \in DOMAIN NodesOf(l) : heap[NodesOf(l)[i]].data = d}
RemoveData(l, d) == Found(l, d) # {} /\ DeleteLink(l, NodesOf(l)[Min(Found(l, d))])

\* x_list_remove_all: the loop, with the list it has made of the first i nodes
Dropped(left, n) ==
  [heap  |-> Freed(Unlinked(left.heap, n), n),
   first |-> IF left.heap[n].prev = Null THEN left.heap[n].next ELSE left.first]

RemoveAll(l, d) ==
  LET way == NodesOf(l)
      left[i \in 0..Len(way)] ==
        IF i = 0 THEN [heap |-> heap, first |-> list[l]]
        ELSE IF heap[way[i]].data = d THEN Dropped(left[i - 1], way[i]) ELSE left[i - 1]
  IN /\ heap' = left[Len(way)].heap
     /\ list' = [list EXCEPT ![l] = left[Len(way)].first]
     /\ UNCHANGED queue

\* x_list_remove_link: the node becomes a list of its own, m.
RemoveLink(l, n, m) ==
  /\ n # Null /\ list[m] = Null
  /\ heap' = [Unlinked(heap, n) EXCEPT ![n] = Node(Null, Null, heap[n].data)]
  /\ list' = [list EXCEPT ![l] = IF n = list[l] THEN heap[n].next ELSE @, ![m] = n]
  /\ UNCHANGED queue

\* x_list_concat: m goes on l.
Concat(l, m) ==
  /\ list[m] # Null
  /\ LET last == LastOf(list[l]) IN heap' = SetPrev(SetNext(heap, last, list[m]), list[m], last)
  /\ list' = [list EXCEPT ![l] = IF @ = Null THEN list[m] ELSE @, ![m] = Null]
  /\ UNCHANGED queue

\* The i-th node of a copy of the nodes `old' of the heap h, made in the nodes `new'
Copied(h, old, new, i) ==
  Node(IF i = Len(old) THEN Null ELSE new[i + 1], IF i = 1 THEN Null ELSE new[i - 1], h[old[i]].data)

\* x_list_copy of l into m, whose nodes are new
Copy(l, m) ==
  /\ list[m] = Null /\ list[l] # Null
  /\ \E new \in {s \in [DOMAIN NodesOf(l) -> FreeNodes] : IsInjective(s)} :
       /\ heap' = [n \in DOMAIN heap \cup ToSet(new) |->
                     IF n \in DOMAIN heap THEN heap[n]
                     ELSE Copied(heap, NodesOf(l), new, CHOOSE i \in DOMAIN new : new[i] = n)]
       /\ list' = [list EXCEPT ![m] = new[1]]
  /\ UNCHANGED queue

Turned(cell) == Node(cell.prev, cell.next, cell.data)

\* x_list_reverse
ReverseList(l) ==
  /\ list[l] # Null
  /\ heap' = [n \in DOMAIN heap |-> IF n \in ToSet(NodesOf(l)) THEN Turned(heap[n]) ELSE heap[n]]
  /\ list' = [list EXCEPT ![l] = LastOf(list[l])]
  /\ UNCHANGED queue

\* x_list_free
FreeList(l) ==
  /\ heap' = Restrict(heap, DOMAIN heap \ ToSet(NodesOf(l)))
  /\ list' = [list EXCEPT ![l] = Null]
  /\ UNCHANGED queue

-----------------------------------------------------------------------------
\* x_queue_push_head
PushHead(d) ==
  \E k \in FreeNodes :
    /\ heap' = IF queue.head = Null THEN Behind(heap, k, Null, d) ELSE Before(heap, k, queue.head, d)
    /\ queue' = [head |-> k, tail |-> IF queue.tail = Null THEN k ELSE queue.tail,
                 length |-> queue.length + 1]
    /\ UNCHANGED list

\* x_queue_push_tail
PushTail(d) ==
  \E k \in FreeNodes :
    /\ heap' = Behind(heap, k, LastOf(queue.tail), d)
    /\ queue' = [head |-> IF queue.tail = Null THEN k ELSE queue.head, tail |-> k,
                 length |-> queue.length + 1]
    /\ UNCHANGED list

TailAfter(next) == IF next = Null THEN Null ELSE queue.tail

\* x_queue_pop_head
PopHead ==
  /\ queue.head # Null
  /\ LET next == heap[queue.head].next IN
     /\ heap' = Freed(SetPrev(heap, next, Null), queue.head)
     /\ queue' = [head |-> next, tail |-> TailAfter(next), length |-> queue.length - 1]
  /\ UNCHANGED list

\* x_queue_pop_tail
PopTail ==
  /\ queue.tail # Null
  /\ LET prev == heap[queue.tail].prev IN
     /\ heap' = Freed(SetNext(heap, prev, Null), queue.tail)
     /\ queue' = [head |-> IF prev = Null THEN Null ELSE queue.head, tail |-> prev,
                  length |-> queue.length - 1]
  /\ UNCHANGED list

\* x_queue_free, and a new queue
FreeQueue ==
  /\ heap' = Restrict(heap, DOMAIN heap \ ToSet(Chain(heap, queue.head)))
  /\ queue' = [head |-> Null, tail |-> Null, length |-> 0]
  /\ UNCHANGED list

Call(call, l, x, i) == done' = <<call, l, x, i>>

OneList(l) ==
  \/ ReverseList(l) /\ Call("reverse", l, 0, 0)
  \/ FreeList(l) /\ Call("free", l, 0, 0)
  \/ \E d \in Data :
       \/ Append1(l, d) /\ Call("append", l, d, 0)
       \/ Prepend(l, d) /\ Call("prepend", l, d, 0)
       \/ InsertSorted(l, d) /\ Call("insert_sorted", l, d, 0)
       \/ RemoveData(l, d) /\ Call("remove", l, d, 0)
       \/ RemoveAll(l, d) /\ Call("remove_all", l, d, 0)
       \/ \E i \in DOMAIN NodesOf(l) : Insert(l, d, NodesOf(l)[i]) /\ Call("insert", l, d, i)
  \/ \E i \in DOMAIN NodesOf(l) : DeleteLink(l, NodesOf(l)[i]) /\ Call("delete_link", l, 0, i)

TwoLists(l, m) ==
  \/ Concat(l, m) /\ Call("concat", l, m, 0)
  \/ Copy(l, m) /\ Call("copy", l, m, 0)
  \/ \E i \in DOMAIN NodesOf(l) : RemoveLink(l, NodesOf(l)[i], m) /\ Call("remove_link", l, m, i)

Queue ==
  \/ \E d \in Data : \/ PushHead(d) /\ Call("push_head", Null, d, 0)
                     \/ PushTail(d) /\ Call("push_tail", Null, d, 0)
  \/ PopHead /\ Call("pop_head", Null, 0, 0)
  \/ PopTail /\ Call("pop_tail", Null, 0, 0)
  \/ FreeQueue /\ Call("queue_free", Null, 0, 0)

LinksNext == Queue \/ \E l \in Names : OneList(l) \/ \E m \in Names \ {l} : TwoLists(l, m)

LinksSpec == LinksInit /\ [][LinksNext]_links

-----------------------------------------------------------------------------
Cells == [next : Nodes \cup {Null}, prev : Nodes \cup {Null}, data : Data]

LinksTypeOK ==
  /\ DOMAIN heap \subseteq Nodes /\ \A n \in DOMAIN heap : heap[n] \in Cells
  /\ list \in [Names -> DOMAIN heap \cup {Null}]
  /\ {queue.head, queue.tail} \subseteq DOMAIN heap \cup {Null}
  /\ queue.length \in 0..Cardinality(Nodes)

\* The nodes of every list, and of the queue, which has no name.
Walk(l) == IF l = Null THEN Chain(heap, queue.head) ELSE NodesOf(l)
Walks   == Names \cup {Null}

\* The lists and the queue can be walked in both directions: the way back from the
\* last node is the way there reversed, and before the first node is nothing.
TwoWay ==
  \A l \in Walks : \A i \in DOMAIN Walk(l) :
    heap[Walk(l)[i]].prev = IF i = 1 THEN Null ELSE Walk(l)[i - 1]

\* Every node is in exactly one place of one list: none is lost when it is taken
\* out, none is freed that a list still leads to.
NoneLost ==
  /\ \A n \in DOMAIN heap : \E l \in Walks : \E i \in DOMAIN Walk(l) : Walk(l)[i] = n
  /\ \A l, m \in Walks : \A i \in DOMAIN Walk(l), j \in DOMAIN Walk(m) :
       Walk(l)[i] = Walk(m)[j] => l = m /\ i = j

\* The tail and the length of the queue are those of its list, and an empty queue
\* has neither head nor tail, whichever end was popped last.
QueueEnds ==
  /\ queue.tail = LastOf(queue.head)
  /\ queue.length = Len(Chain(heap, queue.head))

DataAlong(way) == [i \in DOMAIN way |-> heap[way[i]].data]
Stored == [l \in Names |-> DataAlong(NodesOf(l))]
Queued == DataAlong(Chain(heap, queue.head))
LinksAbstract == INSTANCE Sequences2 WITH seq <- Stored, fifo <- Queued

\* Every call makes of the lists and the queue what it makes of sequences of data.
LinksImplement == LinksAbstract!SSpec
=============================================================================
