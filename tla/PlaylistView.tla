---------------------------- MODULE PlaylistView ----------------------------
(***************************************************************************)
(* The playlist on the screen (PlaylistViewController.m and its data       *)
(* source): a mirror of the server's list, filled by one reply and kept up *)
(* by broadcasts, and the rows of the table view, which are told of every  *)
(* change.  The user deletes, drags, clears and shuffles by sending a      *)
(* command; the mirror changes only when the server's broadcast comes back.*)
(*                                                                         *)
(* Commands and messages are in order on the one connection (XmmsClient,   *)
(* Transport).  The server and UIKit are modelled from how the application *)
(* uses them: the table view keeps its own rows, and raises an exception   *)
(* when after an update their number is not the data source's.  All rows   *)
(* stay on the screen, so that none is asked for twice.                    *)
(***************************************************************************)
EXTENDS Naturals, Sequences, FiniteSets, SequencesExt

CONSTANTS
  Songs,       \* medialib ids
  MaxLen,      \* bound: length of the server's list
  MaxChanges,  \* bound: somebody else makes a change only below this number
  MaxUser      \* bound: commands of the user

ASSUME PlaylistAssumption == MaxLen \in Nat /\ MaxChanges \in Nat /\ MaxUser \in Nat

VARIABLES
  server,      \* the active playlist at the server
  subscribed,  \* the server sends playlist_changed to this client
  up,          \* commands under way to the server
  down,        \* replies and broadcasts under way to the client
  mirror,      \* ds.playlist
  shown,       \* what the rows of the table view show
  crashed,     \* an exception was raised
  version,     \* number of the server's change the view is up to (history)
  changes,     \* number of changes of the server's list so far (history)
  commands,    \* number of the user's commands so far (history)
  overtaken,   \* a broadcast came that the view cannot make sense of (history)
  misled       \* the rows were moved in another way than the list (history)

serverVars == <<server, subscribed, changes, overtaken>>
viewVars   == <<mirror, shown, crashed, version>>
vars == <<serverVars, viewVars, up, down, commands, misled>>

ListsUpTo(n) == UNION {[1..k -> Songs] : k \in 0..n}

\* The changes the server can make of list s; positions count from 0.
Changes(s) ==
  (IF Len(s) = MaxLen THEN {}
   ELSE [type : {"add"}, id : Songs]
        \cup [type : {"insert"}, pos : 0..Len(s), id : Songs])
  \cup [type : {"remove"}, pos : 0..Len(s) - 1]
  \cup {m \in [type : {"move"}, pos : 0..Len(s) - 1, new : 0..Len(s) - 1] : m.pos # m.new}
  \cup [type : {"clear", "reorder"}]

Commands ==
  [cmd : {"broadcast", "list", "clear", "shuffle"}]
  \cup [cmd : {"remove"}, pos : Nat, song : Songs, since : Nat]
  \cup [cmd : {"move"}, pos : Nat, new : Nat, since : Nat]

\* initWithStyle: the broadcast first, then the entries.
Init ==
  /\ server \in ListsUpTo(MaxLen - 1)
  /\ subscribed = FALSE
  /\ up = <<[cmd |-> "broadcast"], [cmd |-> "list"]>>
  /\ down = <<>>
  /\ mirror = <<>>
  /\ shown = <<>>
  /\ crashed = FALSE
  /\ version = 0 /\ changes = 0 /\ commands = 0
  /\ overtaken = FALSE /\ misled = FALSE

-----------------------------------------------------------------------------
\* The callbacks: what a message does to the mirror and to the rows.

\* NSMutableArray raises an exception for an index out of its range.
InBounds(list, m) ==
  CASE m.type = "insert" -> m.pos <= Len(list)
    [] m.type = "remove" -> m.pos < Len(list)
    [] m.type = "move"   -> m.pos < Len(list) /\ m.new < Len(list)
    [] OTHER             -> TRUE

\* Mutant: the entry's new place is taken to count the entry itself.
Moved_Before(list, pos, new) ==
  InsertAt(RemoveAt(list, pos + 1), IF new > pos THEN new ELSE new + 1, list[pos + 1])

\* removeObjectAtIndex, then insertObject: atIndex:
Moved(list, pos, new) == InsertAt(RemoveAt(list, pos + 1), new + 1, list[pos + 1])

\* Mutant: the list stays until the new entries arrive.
Emptied_Later(list, m) == IF m.type = "clear" THEN <<>> ELSE list

\* removeAllObjects
Emptied(list, m) == <<>>

\* insertObject: atIndex:
Inserted(list, m) == InsertAt(list, m.pos + 1, m.id)

\* ds.playlist after message m.
Mirrored(list, m) ==
  CASE m.type = "entries" -> IF m.list = <<>> THEN list ELSE m.list
    [] m.type = "add"     -> Append(list, m.id)
    [] m.type = "insert"  -> Inserted(list, m)
    [] m.type = "remove"  -> RemoveAt(list, m.pos + 1)
    [] m.type = "move"    -> Moved(list, m.pos, m.new)
    [] OTHER              -> Emptied(list, m)

\* insertRowsAtIndexPaths: the last row
RowAdded(m) == Append(shown, m.id)

\* The rows after message m: entries are inserted into an empty table, a move does
\* not touch the rows.
Rows(m) ==
  CASE m.type = "entries" -> m.list \o shown
    [] m.type = "add"     -> RowAdded(m)
    [] m.type = "insert"  -> InsertAt(shown, m.pos + 1, m.id)
    [] m.type = "remove"  -> RemoveAt(shown, m.pos + 1)
    [] m.type = "move"    -> shown
    [] OTHER              -> SubSeq(shown, Len(mirror) + 1, Len(shown))

\* The table view compares the number of rows when it is told of a change.
RowsAgree(m) == Len(Rows(m)) = Len(Mirrored(mirror, m))

\* Mutant: the entries are not asked for again.
Asked_Not(m) == up

\* After sorting or shuffling, the entries are asked for again.
Asked(m) == IF m.type = "reorder" THEN Append(up, [cmd |-> "list"]) ELSE up

\* playlist_list_entries, playlist_changed
Receive ==
  /\ down # <<>>
  /\ ~crashed
  /\ LET m == Head(down)
     IN /\ \/ /\ InBounds(mirror, m) /\ RowsAgree(m)
              /\ mirror' = Mirrored(mirror, m)
              /\ shown' = Rows(m)
              /\ UNCHANGED crashed
           \/ /\ ~(InBounds(mirror, m) /\ RowsAgree(m))
              /\ crashed' = TRUE
              /\ UNCHANGED <<mirror, shown>>
        /\ version' = m.version
        /\ up' = Asked(m)
  /\ down' = Tail(down)
  /\ UNCHANGED <<serverVars, commands, misled>>

-----------------------------------------------------------------------------
\* The user.

UserSends(c) ==
  /\ ~crashed
  /\ commands < MaxUser
  /\ commands' = commands + 1
  /\ up' = Append(up, c)
  /\ UNCHANGED <<serverVars, mirror, crashed, version, down, misled>>

\* The number of the change that the rows show: the last one received, and the
\* moves of the user that have not come back yet (history).
Ahead == version + Cardinality({i \in DOMAIN up : up[i].cmd = "move"})
                 + Cardinality({i \in DOMAIN down : down[i].type = "move"})

\* Mutant: rows are counted from 1.
Position_From1(row) == row

\* [indexPath indexAtPosition:1]
Position(row) == row - 1

\* commitEditingStyle: the command; the row stays for now.
Swipe(row) ==
  /\ UserSends([cmd |-> "remove", pos |-> Position(row), song |-> shown[row], since |-> Ahead])
  /\ UNCHANGED shown

\* moveRowAtIndexPath: the table view has moved the row already.
Drag(row, to) ==
  /\ row # to
  /\ UserSends([cmd |-> "move", pos |-> Position(row), new |-> Position(to), since |-> Ahead])
  /\ shown' = InsertAt(RemoveAt(shown, row), to, shown[row])

\* actionSheet: didDismissWithButtonIndex:
Choose(button) ==
  /\ UserSends([cmd |-> button])
  /\ UNCHANGED shown

-----------------------------------------------------------------------------
\* The server.

\* Entries replies that are due, and whose commands the server has not seen.
Owed == Cardinality({i \in DOMAIN up : up[i].cmd = "list"})
        + Cardinality({i \in DOMAIN down : down[i].type = "reorder"})

Reordered(s) ==
  {t \in [DOMAIN s -> ToSet(s)] :
     \A x \in ToSet(s) : Cardinality({i \in DOMAIN s : t[i] = x})
                         = Cardinality({i \in DOMAIN s : s[i] = x})}

\* The server's list after change m.
Changed(s, m) ==
  CASE m.type = "add"     -> {s \o <<m.id>>}
    [] m.type = "insert"  -> {SubSeq(s, 1, m.pos) \o <<m.id>> \o SubSeq(s, m.pos + 1, Len(s))}
    [] m.type = "remove"  -> {SubSeq(s, 1, m.pos) \o SubSeq(s, m.pos + 2, Len(s))}
    [] m.type = "move"    -> {[i \in DOMAIN s |->
                                 IF i = m.new + 1 THEN s[m.pos + 1]
                                 ELSE IF i > m.pos /\ i <= m.new THEN s[i + 1]
                                 ELSE IF i <= m.pos + 1 /\ i > m.new + 1 THEN s[i - 1]
                                 ELSE s[i]]}
    [] m.type = "reorder" -> Reordered(s)
    [] m.type = "clear"   -> {<<>>}

Numbered(m, n) == [f \in DOMAIN m \cup {"version"} |-> IF f = "version" THEN n ELSE m[f]]

\* A change that is announced to a view which waits for the entries is applied to
\* a list it was not made of; only clearing does no harm.
Change(m) ==
  /\ changes' = changes + 1
  /\ server' \in Changed(server, m)
  /\ down' = IF subscribed THEN Append(down, Numbered(m, changes')) ELSE down
  /\ overtaken' = (overtaken \/ (subscribed /\ Owed > 0 /\ m.type # "clear"))

\* Somebody else changes the list.
Other(m) ==
  /\ changes < MaxChanges
  /\ Change(m)
  /\ misled' = (misled \/ m.type = "move")
  /\ UNCHANGED <<subscribed, up, viewVars, commands>>

\* Somebody changes another playlist: the callback does not look at its name.
OtherPlaylist(m) ==
  /\ subscribed
  /\ ~overtaken
  /\ overtaken' = TRUE
  /\ down' = Append(down, Numbered(m, changes))
  /\ UNCHANGED <<server, subscribed, changes, up, viewVars, commands, misled>>

\* A command of this client arrives.
Command ==
  /\ up # <<>>
  /\ up' = Tail(up)
  /\ UNCHANGED <<viewVars, commands>>

ServerSubscribe ==
  /\ Command
  /\ Head(up).cmd = "broadcast"
  /\ subscribed' = TRUE
  /\ UNCHANGED <<server, changes, overtaken, down, misled>>

ServerList ==
  /\ Command
  /\ Head(up).cmd = "list"
  /\ down' = Append(down, [type |-> "entries", list |-> server, version |-> changes])
  /\ UNCHANGED <<serverVars, misled>>

\* Removing and moving; a command with positions the list does not have does nothing.
ServerRemove ==
  /\ Command
  /\ Head(up).cmd = "remove"
  /\ LET m == [type |-> "remove", pos |-> Head(up).pos]
     IN \/ m \in Changes(server) /\ Change(m)
        \/ m \notin Changes(server) /\ UNCHANGED <<serverVars, down>>
  /\ UNCHANGED <<subscribed, misled>>

ServerMove ==
  /\ Command
  /\ Head(up).cmd = "move"
  /\ misled' = (misled \/ Head(up).since # changes)
  /\ LET m == [type |-> "move", pos |-> Head(up).pos, new |-> Head(up).new]
     IN \/ m \in Changes(server) /\ Change(m)
        \/ m \notin Changes(server) /\ UNCHANGED <<serverVars, down>>
  /\ UNCHANGED subscribed

ServerClear ==
  /\ Command
  /\ \/ Head(up).cmd = "clear" /\ Change([type |-> "clear"])
     \/ Head(up).cmd = "shuffle" /\ Change([type |-> "reorder"])
  /\ UNCHANGED <<subscribed, misled>>

ServerStep == ServerSubscribe \/ ServerList \/ ServerRemove \/ ServerMove \/ ServerClear

Next ==
  \/ Receive
  \/ ServerStep
  \/ \E m \in Changes(server) : Other(m)
  \/ \E m \in Changes(server) : OtherPlaylist(m)
  \/ \E row \in DOMAIN shown : Swipe(row) \/ \E to \in DOMAIN shown : Drag(row, to)
  \/ \E button \in {"clear", "shuffle"} : Choose(button)

\* The main loop delivers, the server answers.
FairSpec == Init /\ [][Next]_vars /\ WF_vars(Receive) /\ WF_vars(ServerStep)

-----------------------------------------------------------------------------
TypeOK ==
  /\ server \in ListsUpTo(MaxLen)
  /\ up \in Seq(Commands)
  /\ mirror \in Seq(Songs) /\ shown \in Seq(Songs)
  /\ version \in 0..changes /\ changes \in 0..MaxChanges + MaxUser
  /\ {subscribed, crashed, overtaken, misled} \subseteq BOOLEAN

\* Once the entries have been asked for and answered, the mirror with the pending
\* messages is the server's list, whatever was added, moved, removed or shuffled
\* in between.  Whatever happened, the state keeps its types.
InStep ==
  /\ TypeOK
  /\ ~overtaken /\ ~crashed /\ Owed = 0 => FoldLeft(Mirrored, mirror, down) = server

\* The view applies every broadcast to the list it was made of, and tells the table
\* of as many rows as the data source has: no exception is raised.
NoException == ~overtaken => ~crashed

\* Deleting a row deletes the entry the user saw there, unless the list has been
\* changed by more than the user's moves since then.
DeletesSeen ==
  [][ServerRemove /\ ~overtaken /\ ~misled /\ Head(up).since = changes
       => LET c == Head(up)
          IN c.pos + 1 \in DOMAIN server /\ server[c.pos + 1] = c.song]_vars

\* In the end, when everything has arrived, the user sees the server's list.
Settles == <>[](overtaken \/ misled \/ shown = server)
=============================================================================
