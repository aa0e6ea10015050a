---------------------------- MODULE MCNoteEditor ----------------------------
(* NoteEditor for TLC: two folders that hold the same two paths.             *)
EXTENDS NoteEditor, TLC

CONSTANTS v1, v2, n1, n2

MCVaults == {v1, v2}
MCNotes == {n1, n2}

\* Neither the folders nor the notes in them are told apart.
FoldersAndNotes == Permutations(MCVaults) \cup Permutations(MCNotes)

=============================================================================
