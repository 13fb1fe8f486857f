--------------------------- MODULE MCDocumentSync ---------------------------
(* DocumentSync with interchangeable browsers and edits, for safety runs. *)
EXTENDS DocumentSync, TLC

Interchangeable == Permutations(Clients) \cup Permutations(Edits)
=============================================================================
