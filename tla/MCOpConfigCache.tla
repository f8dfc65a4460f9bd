-------------------------- MODULE MCOpConfigCache --------------------------
(* Two processes of one build serve the prefill bucket, of which the first  *)
(* captures graphs and seeds both buckets; a third one was started with the *)
(* cache off.  The file holds what an older build tuned for prefill.  For   *)
(* the downgrade, one process serves and another one seeds an empty file.   *)
EXTENDS OpConfigCache, TLC

P1  == "p1"
P2  == "p2"
Off == "off"

Traffic == {<<P1, "prefill">>, <<P2, "prefill">>, <<Off, "decode">>}
Decode  == {<<P1, "decode">>}
First   == {P1}
Second  == {P2}
OneOff  == {Off}
Nobody  == {}

OneBuild == P1 :> "new" @@ P2 :> "new" @@ Off :> "new"
Leftover == [Empty EXCEPT !["prefill"] = [status |-> "tuned", config |-> "w1", id |-> "old"]]
=============================================================================
