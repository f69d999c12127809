--------------------------- MODULE MCPlaylistView ---------------------------
(* PlaylistView on a small instance. *)
EXTENDS PlaylistView
=============================================================================
