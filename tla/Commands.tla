------------------------------ MODULE Commands ------------------------------
(***************************************************************************)
(* The functions of xmmsclient.h that send a command, with what happens to *)
(* their arguments: playlist.c, medialib.c, collection.c, playback.c,      *)
(* config.c, stats.c, xform.c, bindata.c, and the build-up of a message in *)
(* xmmsclient.c, value.c and msg.c.  The server reads the message and      *)
(* answers with any value; the client reads the answer, which may be cut.  *)
(*                                                                         *)
(* A function is described by the object and the command it sends and by   *)
(* the kinds of its parameters in the order in which they are sent:        *)
(*   playlist     a name, or NULL for the active playlist                  *)
(*   name         a string that may not be NULL                            *)
(*   string       a string; NULL, or one that is not UTF-8, becomes NULL   *)
(*   url, path    a string that is URL-encoded first; only url may not be  *)
(*                NULL                                                     *)
(*   urlargs      the same with a dictionary or a list of arguments, which *)
(*                may turn the result into one that is not accepted        *)
(*   encoded      a string that must look encoded                          *)
(*   int, bin, order                                                       *)
(*                as it is                                                 *)
(*   coll, list   as it is, but not NULL;  anycoll: or NULL                *)
(*   strings      a list, which may hold nothing but strings               *)
(*   anylist      a list, or NULL for an empty one                         *)
(* and the names in Fixed stand for arguments that the function supplies.  *)
(* A connection that is NULL or not connected is refused by every function *)
(* (but playlist_insert_encoded, which the others call) and left out.      *)
(***************************************************************************)
EXTENDS IpcValue, Url

CONSTANTS
  Args,      \* what the application passes, by kind
  Values,    \* what the server answers with
  Utf8       \* the bytes that are UTF-8 by themselves

ASSUME CommandsAssumption == Base = Half * Half /\ Utf8 \subseteq 1..Base - 1

VARIABLES
  phase,     \* "idle", "refused", "sent", "served", "answered" or "received"
  meant,     \* the call, or the server's answer
  msg,       \* the message under way
  got        \* what its receiver made of it

vars == <<phase, meant, msg, got>>

-----------------------------------------------------------------------------
\* The numbers of xmmsc_idnumbers.h follow from the order of its enumerations.
Objects == <<"SIGNAL", "MAIN", "PLAYLIST", "CONFIG", "PLAYBACK", "MEDIALIB",
             "COLLECTION", "VISUALIZATION", "MEDIAINFO_READER", "XFORM", "BINDATA">>

Signals == <<"PLAYLIST_CHANGED", "CONFIGVALUE_CHANGED", "PLAYBACK_STATUS",
             "PLAYBACK_VOLUME_CHANGED", "PLAYBACK_PLAYTIME", "PLAYBACK_CURRENTID",
             "PLAYLIST_CURRENT_POS", "PLAYLIST_LOADED", "MEDIALIB_ENTRY_ADDED",
             "MEDIALIB_ENTRY_UPDATE", "COLLECTION_CHANGED", "QUIT",
             "MEDIAINFO_READER_STATUS", "MEDIAINFO_READER_UNINDEXED">>

CmdFirst == 32

\* Numbers below CmdFirst "are reserved for special stuff like marking a reply".
Cmds == [
  SIGNAL |-> <<"SIGNAL", "BROADCAST">>,
  MAIN |-> <<"HELLO", "QUIT", "PLUGIN_LIST", "STATS">>,
  PLAYLIST |-> <<"SHUFFLE", "SET_POS", "SET_POS_REL", "ADD_URL", "ADD_ID", "ADD_IDLIST",
                 "ADD_COLL", "REMOVE_ENTRY", "MOVE_ENTRY", "CLEAR", "SORT", "LIST",
                 "CURRENT_POS", "CURRENT_ACTIVE", "INSERT_URL", "INSERT_ID",
                 "INSERT_COLL", "LOAD", "RADD", "RINSERT">>,
  CONFIG |-> <<"GETVALUE", "SETVALUE", "REGVALUE", "LISTVALUES">>,
  PLAYBACK |-> <<"START", "STOP", "PAUSE", "DECODER_KILL", "CPLAYTIME", "SEEKMS",
                 "SEEKSAMPLES", "PLAYBACK_STATUS", "CURRENTID", "VOLUME_SET", "VOLUME_GET">>,
  MEDIALIB |-> <<"INFO", "PATH_IMPORT", "REHASH", "GET_ID", "REMOVE_ID", "PROPERTY_SET_STR",
                 "PROPERTY_SET_INT", "PROPERTY_REMOVE", "MOVE_URL", "MLIB_ADD_URL">>,
  COLLECTION |-> <<"COLLECTION_GET", "COLLECTION_LIST", "COLLECTION_SAVE",
                   "COLLECTION_REMOVE", "COLLECTION_FIND", "COLLECTION_RENAME",
                   "QUERY_IDS", "QUERY_INFOS", "IDLIST_FROM_PLS", "COLLECTION_SYNC">>,
  XFORM |-> <<"BROWSE">>,
  BINDATA |-> <<"GET_DATA", "ADD_DATA", "REMOVE_DATA", "LIST_DATA">>]

IndexOf(s, x) == SelectInSeq(s, LAMBDA e : e = x) - 1
Header(f) == <<IndexOf(Objects, f.object), CmdFirst + IndexOf(Cmds[f.object], f.cmd)>>

\* Names of server data, in the bytes of the model.
Active    == Str(<<Letter, Letter>>)     \* XMMS_ACTIVE_PLAYLIST
Source    == Str(<<Letter, Digit(0)>>)   \* "client/" and the client's name
Playlists == Str(<<Letter, Digit(1)>>)   \* XMMS_COLLECTION_NS_PLAYLISTS
IdlistKind == 9                          \* XMMS_COLLECTION_TYPE_IDLIST
NewIdlist == Coll([kind |-> IdlistKind, attrs |-> <<>>, ids |-> <<>>, ops |-> <<>>])

Fixed == [active |-> Active, source |-> Source, playlists |-> Playlists, idlist |-> NewIdlist,
          SEEK_CUR |-> Num(1), SEEK_SET |-> Num(2)]
         @@ [s \in ToSet(Signals) |-> Num(IndexOf(Signals, s))]

F(object, cmd, params) == [object |-> object, cmd |-> cmd, params |-> params]
Playlist(cmd, params) == F("PLAYLIST", cmd, params)
Medialib(cmd, params) == F("MEDIALIB", cmd, params)
Collection(cmd, params) == F("COLLECTION", cmd, params)
Playback(cmd, params) == F("PLAYBACK", cmd, params)
Broadcast(signal) == F("SIGNAL", "BROADCAST", <<signal>>)
Signal(signal) == F("SIGNAL", "SIGNAL", <<signal>>)

-----------------------------------------------------------------------------
PlaylistState == [
  playlist_current_pos |-> Playlist("CURRENT_POS", <<"playlist">>),
  playlist_current_active |-> Playlist("CURRENT_ACTIVE", <<>>),
  playlist_list |-> Collection("COLLECTION_LIST", <<"playlists">>),
  playlist_create |-> Collection("COLLECTION_SAVE", <<"name", "playlists", "idlist">>),
  playlist_shuffle |-> Playlist("SHUFFLE", <<"playlist">>),
  playlist_sort |-> Playlist("SORT", <<"playlist", "strings">>),
  playlist_clear |-> Playlist("CLEAR", <<"playlist">>),
  playlist_remove |-> Collection("COLLECTION_REMOVE", <<"name", "playlists">>),
  playlist_list_entries |-> Playlist("LIST", <<"playlist">>)]

PlaylistInserts == [
  playlist_insert_id |-> Playlist("INSERT_ID", <<"playlist", "int", "int">>),
  playlist_insert_url |-> Playlist("INSERT_URL", <<"playlist", "int", "url">>),
  playlist_insert_full |-> Playlist("INSERT_URL", <<"playlist", "int", "urlargs">>),
  playlist_insert_args |-> Playlist("INSERT_URL", <<"playlist", "int", "urlargs">>),
  playlist_insert_encoded |-> Playlist("INSERT_URL", <<"playlist", "int", "checked">>),
  playlist_rinsert |-> Playlist("RINSERT", <<"playlist", "int", "url">>),
  playlist_rinsert_encoded |-> Playlist("RINSERT", <<"playlist", "int", "encoded">>)]

PlaylistAdds == [
  playlist_insert_collection |-> Playlist("INSERT_COLL", <<"playlist", "int", "anycoll", "order">>),
  playlist_add_id |-> Playlist("ADD_ID", <<"playlist", "int">>),
  playlist_add_url |-> Playlist("ADD_URL", <<"playlist", "url">>),
  playlist_radd |-> Playlist("RADD", <<"playlist", "url">>),
  playlist_radd_encoded |-> Playlist("RADD", <<"playlist", "encoded">>),
  playlist_add_args |-> Playlist("ADD_URL", <<"playlist", "urlargs">>)]

PlaylistAddsFull == [
  playlist_add_full |-> Playlist("ADD_URL", <<"playlist", "urlargs">>),
  playlist_add_encoded |-> Playlist("ADD_URL", <<"playlist", "encoded">>),
  playlist_add_idlist |-> Playlist("ADD_IDLIST", <<"playlist", "anycoll">>),
  playlist_add_collection |-> Playlist("ADD_COLL", <<"playlist", "anycoll", "order">>)]

PlaylistMoves == [
  playlist_move_entry |-> Playlist("MOVE_ENTRY", <<"playlist", "int", "int">>),
  playlist_remove_entry |-> Playlist("REMOVE_ENTRY", <<"playlist", "int">>),
  broadcast_playlist_changed |-> Broadcast("PLAYLIST_CHANGED"),
  broadcast_playlist_current_pos |-> Broadcast("PLAYLIST_CURRENT_POS"),
  playlist_set_next |-> Playlist("SET_POS", <<"int">>),
  playlist_set_next_rel |-> Playlist("SET_POS_REL", <<"int">>),
  playlist_load |-> Playlist("LOAD", <<"string">>),
  broadcast_playlist_loaded |-> Broadcast("PLAYLIST_LOADED")]

MedialibEntries == [
  medialib_get_id |-> Medialib("GET_ID", <<"plainurl">>),
  medialib_get_id_encoded |-> Medialib("GET_ID", <<"string">>),
  medialib_move_entry |-> Medialib("MOVE_URL", <<"int", "string">>),
  medialib_remove_entry |-> Medialib("REMOVE_ID", <<"int">>),
  medialib_add_entry |-> Medialib("MLIB_ADD_URL", <<"url">>),
  medialib_add_entry_args |-> Medialib("MLIB_ADD_URL", <<"urlargs">>)]

MedialibImports == [
  medialib_add_entry_full |-> Medialib("MLIB_ADD_URL", <<"urlargs">>),
  medialib_add_entry_encoded |-> Medialib("MLIB_ADD_URL", <<"checked">>),
  medialib_import_path |-> Medialib("PATH_IMPORT", <<"url">>),
  medialib_import_path_encoded |-> Medialib("PATH_IMPORT", <<"checked">>),
  medialib_path_import |-> Medialib("PATH_IMPORT", <<"url">>),
  medialib_path_import_encoded |-> Medialib("PATH_IMPORT", <<"checked">>),
  medialib_rehash |-> Medialib("REHASH", <<"int">>),
  medialib_get_info |-> Medialib("INFO", <<"int">>)]

MedialibProperties == [
  broadcast_medialib_entry_added |-> Broadcast("MEDIALIB_ENTRY_ADDED"),
  broadcast_medialib_entry_changed |-> Broadcast("MEDIALIB_ENTRY_UPDATE"),
  medialib_entry_property_set_int |->
    Medialib("PROPERTY_SET_INT", <<"int", "source", "string", "int">>),
  medialib_entry_property_set_int_with_source |->
    Medialib("PROPERTY_SET_INT", <<"int", "string", "string", "int">>),
  medialib_entry_property_set_str |->
    Medialib("PROPERTY_SET_STR", <<"int", "source", "string", "string">>),
  medialib_entry_property_set_str_with_source |->
    Medialib("PROPERTY_SET_STR", <<"int", "string", "string", "string">>),
  medialib_entry_property_remove |-> Medialib("PROPERTY_REMOVE", <<"int", "source", "string">>),
  medialib_entry_property_remove_with_source |->
    Medialib("PROPERTY_REMOVE", <<"int", "string", "string">>)]

Collections == [
  coll_get |-> Collection("COLLECTION_GET", <<"name", "string">>),
  coll_sync |-> Collection("COLLECTION_SYNC", <<>>),
  coll_list |-> Collection("COLLECTION_LIST", <<"string">>),
  coll_save |-> Collection("COLLECTION_SAVE", <<"name", "string", "coll">>),
  coll_remove |-> Collection("COLLECTION_REMOVE", <<"name", "string">>),
  coll_find |-> Collection("COLLECTION_FIND", <<"int", "string">>),
  coll_rename |-> Collection("COLLECTION_RENAME", <<"name", "name", "string">>)]

CollectionQueries == [
  coll_query_ids |-> Collection("QUERY_IDS", <<"coll", "int", "int", "anylist">>),
  coll_query_infos |->
    Collection("QUERY_INFOS", <<"coll", "int", "int", "anylist", "list", "anylist">>),
  broadcast_collection_changed |-> Broadcast("COLLECTION_CHANGED"),
  coll_idlist_from_playlist_file |-> Collection("IDLIST_FROM_PLS", <<"path">>)]

PlaybackSeeks == [
  playback_tickle |-> Playback("DECODER_KILL", <<>>),
  playback_stop |-> Playback("STOP", <<>>),
  playback_pause |-> Playback("PAUSE", <<>>),
  playback_start |-> Playback("START", <<>>),
  playback_seek_ms_abs |-> Playback("SEEKMS", <<"int", "SEEK_SET">>),
  playback_seek_ms_rel |-> Playback("SEEKMS", <<"int", "SEEK_CUR">>),
  playback_seek_ms |-> Playback("SEEKMS", <<"int", "int">>),
  playback_seek_samples_abs |-> Playback("SEEKSAMPLES", <<"int", "SEEK_SET">>)]

PlaybackState == [
  playback_seek_samples_rel |-> Playback("SEEKSAMPLES", <<"int", "SEEK_CUR">>),
  playback_seek_samples |-> Playback("SEEKSAMPLES", <<"int", "int">>),
  broadcast_playback_status |-> Broadcast("PLAYBACK_STATUS"),
  playback_status |-> Playback("PLAYBACK_STATUS", <<>>),
  broadcast_playback_current_id |-> Broadcast("PLAYBACK_CURRENTID"),
  playback_current_id |-> Playback("CURRENTID", <<>>),
  signal_playback_playtime |-> Signal("PLAYBACK_PLAYTIME"),
  playback_playtime |-> Playback("CPLAYTIME", <<>>),
  playback_volume_set |-> Playback("VOLUME_SET", <<"name", "int">>),
  playback_volume_get |-> Playback("VOLUME_GET", <<>>),
  broadcast_playback_volume_changed |-> Broadcast("PLAYBACK_VOLUME_CHANGED")]

Config == [
  configval_register |-> F("CONFIG", "REGVALUE", <<"name", "string">>),
  config_register_value |-> F("CONFIG", "REGVALUE", <<"name", "string">>),
  configval_set |-> F("CONFIG", "SETVALUE", <<"name", "string">>),
  config_set_value |-> F("CONFIG", "SETVALUE", <<"name", "string">>),
  configval_get |-> F("CONFIG", "GETVALUE", <<"name">>),
  config_get_value |-> F("CONFIG", "GETVALUE", <<"name">>),
  configval_list |-> F("CONFIG", "LISTVALUES", <<>>),
  config_list_values |-> F("CONFIG", "LISTVALUES", <<>>),
  broadcast_configval_changed |-> Broadcast("CONFIGVALUE_CHANGED"),
  broadcast_config_value_changed |-> Broadcast("CONFIGVALUE_CHANGED")]

Stats == [
  main_list_plugins |-> F("MAIN", "PLUGIN_LIST", <<"int">>),
  plugin_list |-> F("MAIN", "PLUGIN_LIST", <<"int">>),
  main_stats |-> F("MAIN", "STATS", <<>>),
  broadcast_mediainfo_reader_status |-> Broadcast("MEDIAINFO_READER_STATUS"),
  signal_mediainfo_reader_unindexed |-> Signal("MEDIAINFO_READER_UNINDEXED")]

Quit == [
  quit |-> F("MAIN", "QUIT", <<>>),
  broadcast_quit |-> Broadcast("QUIT")]

Xform == [
  xform_media_browse |-> F("XFORM", "BROWSE", <<"url">>),
  xform_media_browse_encoded |-> F("XFORM", "BROWSE", <<"encoded">>)]

Bindata == [
  bindata_add |-> F("BINDATA", "ADD_DATA", <<"bin">>),
  bindata_retrieve |-> F("BINDATA", "GET_DATA", <<"string">>),
  bindata_remove |-> F("BINDATA", "REMOVE_DATA", <<"string">>),
  bindata_list |-> F("BINDATA", "LIST_DATA", <<>>)]

Functions ==
  PlaylistState @@ PlaylistInserts @@ PlaylistAdds @@ PlaylistAddsFull @@ PlaylistMoves
  @@ MedialibEntries @@ MedialibImports @@ MedialibProperties
  @@ Collections @@ CollectionQueries @@ PlaybackSeeks @@ PlaybackState
  @@ Config @@ Stats @@ Quit @@ Xform @@ Bindata

-----------------------------------------------------------------------------
\* Arguments with an URL and its arguments: <<"pair", url, texts, extra>>, where
\* extra is the room counted for the texts.
Urls  == {"url", "plainurl", "path"}
Texts(kind, a) == IF kind = "urlargs" THEN a[3] ELSE <<>>

\* The API errors: the function returns NULL and nothing is sent.
Refused(kind, a) ==
  \/ a = Absent /\ kind \in {"name", "url", "plainurl", "encoded", "coll", "list", "strings"}
  \/ kind = "urlargs" /\ a[2] = Absent
  \/ /\ kind \in {"encoded", "checked"} /\ a # Absent
     /\ ~Verified(a[2])
  \/ /\ kind = "url" /\ a # Absent
     /\ ~Verified(Encode(a[2], <<>>))
  \/ /\ kind = "urlargs" /\ a[2] # Absent
     /\ ~Verified(Encode(a[2][2], a[3]))
  \/ /\ kind = "strings" /\ a # Absent
     /\ \E v \in ToSet(a[2]) : ~IsString(v)

\* xmmsv_new_string: NULL for NULL and for what is not UTF-8.
NewString(v) == IF v # Absent /\ ToSet(v[2]) \subseteq Utf8 THEN v ELSE Absent

\* The entry of the argument list that is made from an argument.
Entry(kind, a) ==
  CASE kind \in DOMAIN Fixed -> Fixed[kind]
    [] kind = "playlist" /\ a = Absent -> Active
    [] kind = "anylist" /\ a = Absent -> List(<<>>)
    [] kind = "urlargs" -> Str(Encode(a[2][2], a[3]))
    [] kind \in Urls /\ a # Absent -> Str(Encode(a[2], <<>>))
    [] kind \in {"playlist", "name", "string", "encoded", "checked"} -> NewString(a)
    [] OTHER -> a

\* Mutant: an argument that could not be made is left out.
BuildList_SkipsNull(entries) == SelectSeq(entries, LAMBDA v : v # Absent)

\* xmmsv_build_list_va takes NULL for the end of the arguments: the entries
\* behind it are not sent and never given back.
BuildList(entries) ==
  SubSeq(entries, 1, SelectInSeq(Append(entries, Absent), LAMBDA v : v = Absent) - 1)

Given(kind) == IF kind \in DOMAIN Fixed THEN {Absent} ELSE Args[kind]
Calls(f) ==
  FoldLeft(LAMBDA calls, kind : {Append(c, a) : c \in calls, a \in Given(kind)}, {<<>>}, f.params)

Init == phase = "idle" /\ meant = None /\ msg = EmptyMsg /\ got = Fail

\* A function is called: it refuses its arguments, or sends them.
Call(name) ==
  /\ phase = "idle"
  /\ LET f == Functions[name] IN
     \E args \in Calls(f) :
       LET refused == \E i \in DOMAIN args : Refused(f.params[i], args[i])
           entries == [i \in DOMAIN args |-> Entry(f.params[i], args[i])]
       IN /\ phase' = IF refused THEN "refused" ELSE "sent"
          /\ meant' = [name |-> name, args |-> args]
          /\ msg' = IF refused THEN msg ELSE PutValue(EmptyMsg, List(BuildList(entries)))
          /\ UNCHANGED got

\* The server reads the message.
Serve ==
  /\ phase = "sent"
  /\ phase' = "served"
  /\ got' = GetValue(msg.data, 0)
  /\ UNCHANGED <<meant, msg>>

\* ... and answers, whatever the call was; the answer may be cut.
Answer(v) ==
  /\ phase = "idle"
  /\ phase' = "answered"
  /\ LET whole == PutValue(EmptyMsg, v) IN
     \E n \in 0..Len(whole.data) :
       /\ msg' = [whole EXCEPT !.data = SubSeq(@, 1, n)]
       /\ meant' = [value |-> v, cut |-> n < Len(whole.data)]
  /\ UNCHANGED got

\* xmms_ipc_msg_get_value
Receive ==
  /\ phase = "answered"
  /\ phase' = "received"
  /\ got' = GetValue(msg.data, 0)
  /\ UNCHANGED <<meant, msg>>

Done ==
  /\ phase \in {"refused", "served", "received"}
  /\ phase' = "idle" /\ meant' = None /\ msg' = EmptyMsg /\ got' = Fail

Next ==
  \/ \E name \in DOMAIN Functions : Call(name)
  \/ \E v \in Values : Answer(v)
  \/ Serve \/ Receive \/ Done

Spec == Init /\ [][Next]_vars

-----------------------------------------------------------------------------
TypeOK ==
  /\ phase \in {"idle", "refused", "sent", "served", "answered", "received"}
  /\ phase \in {"refused", "sent", "served"} => meant.name \in DOMAIN Functions
  /\ ToSet(msg.data) \subseteq 0..Base - 1
  /\ got.ok \in BOOLEAN

\* "xmms_ipc_msg_put_data": whatever is put into a message, and however it grew,
\* it fits into its allocation together with the header.
Fits == HeadLen + Len(msg.data) <= msg.size

\* What the server finds in an URL: the encoded part, and what follows it.
UrlPart(text) == SubSeq(text, 1, SelectInSeq(Append(text, Question), LAMBDA c : c = Question) - 1)

\* What a value is on the other side of the wire: a collection ends its ids at a
\* 0, and a reference comes without its operand.
RECURSIVE Normal(_)
Normal(v) ==
  CASE v[1] = "coll" ->
         Coll([v[2] EXCEPT !.ids = UpToZero(@),
                           !.ops = IF v[2].kind = Reference THEN <<>>
                                   ELSE [i \in DOMAIN @ |-> Normal(@[i])]])
    [] v[1] = "list" -> List([i \in DOMAIN v[2] |-> Normal(v[2][i])])
    [] v[1] = "dict" -> <<"dict", [k \in DOMAIN v[2] |-> Normal(v[2][k])]>>
    [] OTHER -> v

\* The server's value v stands for the argument a of the call.
StandsFor(v, kind, a) ==
  CASE kind \in DOMAIN Fixed -> v = Fixed[kind]
    [] kind \in Urls \cup {"urlargs"} ->
         LET url  == UrlPart(v[2])
             rest == SubSeq(v[2], Len(url) + 1, Len(v[2]))
         IN /\ Decode(url).ok
            /\ Decode(url).url = IF kind = "urlargs" THEN a[2][2] ELSE a[2]
            /\ rest = Encode(<<>>, Texts(kind, a))
    [] a = Absent -> v \in {Active, List(<<>>)}
    [] OTHER -> v = Normal(a)

\* The server finds every argument of a call in its place and with its value: it
\* decodes to what the application passed, also an URL with any characters in it.
\* When an optional argument is missing or is no UTF-8, the message ends there:
\* no later argument is ever taken for it.
ArgsArrive ==
  phase = "served" =>
    LET params == Functions[meant.name].params
        missing == {i \in DOMAIN params :
                      Entry(params[i], meant.args[i]) = Absent}
    IN /\ got.ok /\ got.pos = Len(msg.data) /\ got.val[1] = "list"
       /\ Len(got.val[2]) = IF missing = {} THEN Len(params) ELSE Min(missing) - 1
       /\ \A i \in DOMAIN got.val[2] : StandsFor(got.val[2][i], params[i], meant.args[i])

\* The type that the server finds for a parameter.
TypeOf(kind) ==
  CASE kind \in DOMAIN Fixed -> Fixed[kind][1]
    [] kind \in {"int", "bin"} -> kind
    [] kind \in {"coll", "anycoll"} -> "coll"
    [] kind \in {"list", "anylist", "order", "strings"} -> "list"
    [] OTHER -> "string"

\* All functions that send the same command to the same object send it the same
\* types in the same order, so that one signature of the server serves them all.
OneSignature ==
  phase = "served" =>
    LET this == Functions[meant.name]
        seen == [i \in DOMAIN got.val[2] |-> got.val[2][i][1]]
    IN Len(seen) = Len(this.params) =>
         \A name \in {g \in DOMAIN Functions : Header(Functions[g]) = Header(this)} :
           seen = [i \in DOMAIN Functions[name].params |-> TypeOf(Functions[name].params[i])]

\* An URL is never refused: what the encoding makes of it looks encoded.  With
\* arguments it is refused exactly for the characters of the arguments, which
\* are not encoded.
UrlsAccepted ==
  phase = "refused" =>
    LET params == Functions[meant.name].params IN
    \E i \in DOMAIN params :
      LET a == meant.args[i] IN
      IF params[i] = "urlargs"
      THEN a[2] = Absent \/ \E t \in ToSet(a[3]) : ~Verified(t)
      ELSE Refused(params[i], a) /\ (params[i] \in Urls => a = Absent)

\* The encoded URL fits into the memory that was allocated for it.
UrlFits ==
  phase \in {"sent", "refused"} =>
    \A i \in DOMAIN meant.args :
      LET a == meant.args[i] IN
      Functions[meant.name].params[i] = "urlargs" /\ a[2] # Absent =>
        Len(Encode(a[2][2], a[3])) + 1 <= Room(a[2][2], a[4])



\* The server understands what the application meant (playlist.c and the others).
Understood == ArgsArrive /\ OneSignature
=============================================================================
