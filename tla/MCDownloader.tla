---------------------------- MODULE MCDownloader ----------------------------
(* Small instances of Downloader. *)
EXTENDS Downloader

CONSTANTS a, c, folder, one, two

\* A folder with one of the tracks; the room is about to play the other.
SavedLists == {<<c>>}
OneList == {<<a>>}

\* One track, which is saved, and about to play or not.
SingleLists == {<<a>>}
OtherLists == {<<>>, <<a>>}

CallerSymmetry == Permutations(Callers)
=============================================================================
