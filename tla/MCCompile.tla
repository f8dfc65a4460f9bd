--------------------------- MODULE MCCompile ---------------------------
(* Every predecessor relation over four tasks, and programs of at most four  *)
(* tasks in which every operator occurs.  Row 0 decodes position 1, row 1     *)
(* position 0.  Storages from 10 on hold weights, tables and other inputs.    *)
EXTENDS Compile, TLC

FourTasks  == 1 .. 4
TwoWorkers == 1 .. 2
AllGraphs  == [FourTasks -> SUBSET FourTasks]
Ragged     == (0 :> 1) @@ (1 :> 0)

Part(st, off, shape) == [View(st, shape) EXCEPT !.off = off]
Norm(x, y) == RmsNorm([x |-> x, gamma |-> View(10, <<2>>), y |-> y])
Act(x, y, tile) == Gelu([x |-> x, y |-> y, tile |-> tile])

\* Column tiles, then a row; three columns of four cross a head of the grouped
\* projection; rows of two and of three dimensions; scaled weights.
Project ==
    << Linear([x |-> View(1, <<1, 2>>), w |-> View(11, <<2, 2>>), bias |-> {View(12, <<2>>)},
               y |-> View(2, <<1, 2>>), heads |-> 1, tile |-> 1]),
       Norm(View(2, <<1, 2>>), View(3, <<1, 2>>)), Act(View(3, <<1, 2>>), View(2, <<1, 2>>), 2) >>
Grouped ==
    << Act(View(1, <<1, 2>>), View(2, <<1, 2>>), 1),
       Linear([x |-> View(2, <<1, 2>>), w |-> View(11, <<2, 4>>), bias |-> {},
               y |-> View(3, <<1, 4>>), heads |-> 2, tile |-> 3]) >>
Embed ==
    << Embedding([ids |-> View(11, <<2>>), token |-> View(12, <<2, 2>>), pos |-> {View(13, <<2, 2>>)},
                  y |-> View(1, <<2, 2>>), tile |-> 2, id |-> Ragged]),
       Norm(View(1, <<2, 1, 2>>), View(2, <<2, 1, 2>>)) >>
Quantised ==
    << LinearFp8([x |-> View(1, <<1, 2>>), w |-> View(11, <<2, 2>>), scale |-> View(12, <<1, 1>>),
                  y |-> View(2, <<1, 2>>), quant_block |-> 2, tile |-> 1]),
       RmsNormGated([x |-> View(2, <<1, 2>>), gate |-> View(1, <<1, 2>>), gamma |-> View(13, <<2>>),
                     y |-> View(3, <<1, 2>>)]) >>

\* In place, then through the transposed view; two writers of one buffer, with a
\* tile of three elements that crosses a row; fan out and in.
InPlace ==
    << Add([a |-> View(1, <<2, 2>>), b |-> View(2, <<2, 2>>), y |-> View(1, <<2, 2>>), tile |-> 2]),
       Norm(Transposed(View(1, <<2, 2>>)), View(3, <<2, 2>>)) >>
Overwritten ==
    << Norm(View(1, <<2, 2>>), View(2, <<2, 2>>)), Act(View(3, <<2, 2>>), View(2, <<2, 2>>), 3) >>
Diamond ==
    << Act(View(1, <<2, 2>>), View(2, <<2, 2>>), 4),
       LayerNorm([x |-> View(2, <<2, 2>>), gamma |-> View(11, <<2>>), beta |-> View(12, <<2>>),
                  y |-> View(3, <<2, 2>>)]),
       Swiglu([gate |-> View(3, <<2, 2>>), up |-> View(2, <<2, 2>>), y |-> View(2, <<2, 2>>), tile |-> 4]) >>

\* Attention of b rows and h heads of one channel over a cache of two positions.
K(b, h) == View(1, <<b, h, 2, 1>>)
V(b, h) == View(2, <<b, h, 2, 1>>)
S(b, h) == View(3, <<b, h, 2>>)
P(b, h) == View(4, <<b, h, 2>>)
AppendTo(b, h) == CacheAppend([k_new |-> View(11, <<b, h, 1>>), v_new |-> View(12, <<b, h, 1>>),
                               k_cache |-> K(b, h), v_cache |-> V(b, h)])
ScoresOf(b, h, kv) == Scores([q |-> View(13, <<b, h, 1>>), k_cache |-> K(b, kv), y |-> S(b, h)])
SoftmaxOf(b, h) == Softmax([x |-> S(b, h), y |-> P(b, h)])
ValuesOf(b, h, gate) == Values([probs |-> P(b, h), v_cache |-> V(b, h), gate |-> gate, y |-> View(5, <<b, h, 1>>)])

Attend    == << AppendTo(2, 1), ScoresOf(2, 1, 1) >>
Advance   == << ScoresOf(2, 1, 1), AppendTo(2, 1) >>
Shared    == << AppendTo(1, 2), ScoresOf(1, 2, 2) >>
OneKVHead == << AppendTo(1, 1), ScoresOf(1, 2, 1) >>
Weigh     == << SoftmaxOf(2, 1), ValuesOf(2, 1, {View(14, <<2, 1, 1>>)}) >>
Attention == << AppendTo(1, 1), ScoresOf(1, 1, 1), SoftmaxOf(1, 1), ValuesOf(1, 1, {}) >>

\* The same through slot tables: row 0 owns slots 2 and 0, row 1 slot 1.
SlotsOf == (0 :> <<2, 0>>) @@ (1 :> <<1, 1>>)
Pool(st) == View(st, <<3, 1, 1>>)
AppendPaged(b) == CacheAppendPaged([k_new |-> View(11, <<b, 1, 1>>), v_new |-> View(12, <<b, 1, 1>>),
                                    table |-> View(15, <<2, 2>>), slot |-> SlotsOf,
                                    k_pool |-> Pool(1), v_pool |-> Pool(2)])
PagedScores(b) == ScoresPaged([q |-> View(13, <<b, 1, 1>>), k_pool |-> Pool(1), y |-> S(b, 1),
                               table |-> View(15, <<2, 2>>), slot |-> SlotsOf])
PagedValues(b) == ValuesPaged([probs |-> P(b, 1), v_pool |-> Pool(2), y |-> View(5, <<b, 1, 1>>),
                               table |-> View(15, <<2, 2>>), slot |-> SlotsOf])

PagedRows    == << AppendPaged(2), PagedScores(2) >>
PagedAdvance == << PagedValues(2), AppendPaged(2) >>
PagedChain   == << AppendPaged(1), PagedScores(1), SoftmaxOf(1, 1), PagedValues(1) >>

\* Candidates are scored and chosen, and a latent query attends to the chosen.
Sparse ==
    LET mla == [q |-> View(16, <<1, 1, 1>>), latent |-> View(17, <<1, 2, 1>>), table |-> View(18, <<1, 2>>),
                comp |-> View(1, <<1, 2, 1>>), comp_idx |-> View(3, <<1, 2>>), sink |-> View(19, <<1>>),
                bias |-> {View(4, <<1, 2>>)}, probs |-> View(5, <<1, 1, 4>>), ctx |-> View(6, <<1, 1, 1>>),
                window |-> 1, slot |-> (0 :> <<1, 0>>), entry |-> (0 :> <<1, -1>>)]
    IN  << IndexerScores([q |-> View(11, <<1, 1, 1>>), c |-> View(1, <<1, 2, 1>>), w |-> View(12, <<1, 1>>),
                          s |-> View(2, <<1, 2>>), tile |-> 2]),
           IndexTopk([s |-> View(2, <<1, 2>>), valid |-> View(13, <<1>>), idx |-> View(3, <<1, 2>>),
                      bias |-> View(4, <<1, 2>>), count |-> (0 :> 1)]),
           MlaScores(mla), MlaValues(mla) >>

Experts ==
    << MoeRoute([x |-> View(1, <<1, 1>>), router |-> View(11, <<2, 1>>), extra |-> {View(12, <<2>>)},
                 ids |-> View(2, <<1, 2>>), weights |-> View(3, <<1, 2>>)]),
       MoeExpert([x |-> View(1, <<1, 1>>), gate_up |-> View(13, <<2, 1, 2>>), down |-> View(14, <<2, 1, 1>>),
                  ids |-> View(2, <<1, 2>>), partials |-> View(4, <<1, 2, 1>>),
                  id |-> (<<0, 0>> :> 1) @@ (<<0, 1>> :> 0)]),
       MoeCombine([partials |-> View(4, <<1, 2, 1>>), weights |-> View(3, <<1, 2>>), shared |-> {View(1, <<1, 1>>)},
                   y |-> View(5, <<1, 1>>)]) >>

\* The convolution's channels are the query, the key and two value heads.
Recurrent ==
    << GdnConv([state |-> View(1, <<1, 2, 4>>), x |-> View(11, <<1, 4>>), w |-> View(12, <<4, 3>>),
                out |-> View(2, <<1, 4>>), tile |-> 2]),
       GdnDelta([state |-> View(3, <<1, 2, 1, 1>>), q |-> Part(2, 0, <<1, 1, 1>>), k |-> Part(2, 1, <<1, 1, 1>>),
                 v |-> Part(2, 2, <<1, 2, 1>>), z |-> View(13, <<1, 2, 1>>), a |-> View(14, <<1, 2>>),
                 b |-> View(15, <<1, 2>>), a_log |-> View(16, <<2>>), dt_bias |-> View(17, <<2>>),
                 norm_w |-> View(18, <<1>>), out |-> View(4, <<1, 2, 1>>)]) >>
Delta(v, out) ==
    KdaDelta([state |-> View(1, <<1, 2, 1, 1>>), q |-> View(11, <<1, 2, 1>>), k |-> View(12, <<1, 2, 1>>),
              v |-> v, f |-> View(13, <<1, 2, 1>>), b |-> View(14, <<1, 2>>), dt_bias |-> View(15, <<2, 1>>),
              a_log |-> View(16, <<2>>), out |-> out])
TwoDeltas == << Delta(View(17, <<1, 2, 1>>), View(2, <<1, 2, 1>>)), Delta(View(2, <<1, 2, 1>>), View(3, <<1, 2, 1>>)) >>

\* Two rows of a pool of two slots; row 0 is padding in the first step.
Fused(slot, out) ==
    KdaFused([conv |-> View(1, <<2, 1, 3>>), ssm |-> View(2, <<2, 1, 1, 1>>), slot_ids |-> View(11, <<2>>),
              qkv |-> View(12, <<2, 3>>), f |-> View(13, <<2, 1, 1>>), b |-> View(14, <<2, 1>>),
              g |-> View(15, <<2, 1, 1>>), taps |-> View(16, <<2, 3>>), dt_bias |-> View(17, <<1, 1>>),
              a_log |-> View(18, <<1>>), o_norm |-> View(19, <<1>>), out |-> View(out, <<2, 1, 1>>), slot |-> slot])
TwoFused == << Fused((0 :> -1) @@ (1 :> 0), 3), Fused((0 :> 0) @@ (1 :> 1), 4) >>

Streams(st, post, comb, h) ==
    MhcPre([streams |-> View(st, <<1, 2, 1>>), fn |-> View(11, <<8, 2>>), base |-> View(12, <<8>>),
            scale |-> View(13, <<3>>), h_in |-> View(h, <<1, 1>>), post |-> View(post, <<1, 2>>),
            comb |-> View(comb, <<1, 2, 2>>)])
HyperConnect ==
    << Streams(1, 2, 3, 4),
       MhcPost([streams |-> View(1, <<1, 2, 1>>), body |-> View(4, <<1, 1>>), post |-> View(2, <<1, 2>>),
                comb |-> View(3, <<1, 2, 2>>), streams_post |-> View(5, <<1, 2, 1>>)]),
       Streams(5, 6, 7, 8) >>

\* Row 0 completes a window of two and is appended; the scorer reads the row's entries.
Compress ==
    << CompressorAppend([window |-> View(11, <<2, 2, 2>>), gates |-> View(12, <<2, 2>>), rms_w |-> View(13, <<2>>),
                         cos |-> View(14, <<2, 1>>), sin |-> View(15, <<2, 1>>), state |-> View(1, <<2, 1, 2>>),
                         pool |-> View(2, <<2, 1, 2, 2, 2>>), m |-> 2, r |-> 4,
                         series |-> (<<0, 0>> :> <<0, 1>>) @@ (<<1, 0>> :> <<0, 0>>)]),
       IndexerScores([q |-> View(16, <<2, 1, 2>>), w |-> View(17, <<2, 1>>), s |-> View(3, <<2, 4>>), tile |-> 4,
                      c |-> View(2, <<2, 4, 2>>)]) >>

Rotate ==
    LET tables == [cos |-> View(11, <<2, 1>>), sin |-> View(12, <<2, 1>>)]
    IN  << Rope(tables @@ [x |-> View(1, <<1, 2, 2>>), y |-> View(2, <<1, 2, 2>>)]),
           ConjugateRope(tables @@ [x |-> View(2, <<1, 2, 2>>), y |-> View(3, <<1, 2, 2>>)]) >>

SomePrograms ==
    << Project, Grouped, Embed, Quantised, InPlace, Overwritten, Diamond,
       Attend, Advance, Shared, OneKVHead, Weigh, Attention, PagedRows, PagedAdvance, PagedChain,
       Sparse, Experts, Recurrent, TwoDeltas, TwoFused, HyperConnect, Compress, Rotate >>

\* No rule refuses one of these programs.
ASSUME ProgramsAssumption ==
    /\ \A i \in DOMAIN SomePrograms : \A k \in DOMAIN SomePrograms[i] : DOMAIN SomePrograms[i][k].tasks # {}
    /\ ProgramsDeclare
=============================================================================
