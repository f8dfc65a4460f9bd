--------------------------- MODULE MCResolveRows ---------------------------
(* Two pages of two tokens, a GPU page that can hold a resident page and    *)
(* two hot pages of which the second is used by half: three rows for        *)
(* selections of two, three and four distinct tokens, with duplicates,      *)
(* padding and a token beyond the pages.                                    *)
EXTENDS ResolveRows

OneLayer  == 1 .. 1
Hot       == <<1, 2>>

Selections == {<<0, 1, 2, 3>>, <<3, 1, 2, 3>>, <<4, 2, 2, 0>>, <<-1, 1, -1, 0>>}

\* One selection for every layer of a batched call.
SameStacks == {[l \in Layers |-> sel] : sel \in {<<2, 0, 3, 1>>, <<1, 3, 1, 3>>}}

ASSUME SharedSelections
=============================================================================
