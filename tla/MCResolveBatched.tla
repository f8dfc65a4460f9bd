-------------------------- MODULE MCResolveBatched --------------------------
(* Two layers whose selections in a batched call may differ.                *)
EXTENDS ResolveRows

TwoLayers  == 1 .. 2
Hot        == <<1, 2>>
Selections == {<<0, 1>>, <<1, 2>>, <<3, 0>>, <<2, 2>>, <<-1, 0>>}
AnyStacks  == [Layers -> Selections]
=============================================================================
