-------------------------- MODULE ReferenceBodies --------------------------
(***************************************************************************)
(* The task bodies of the reference executor (reference_dense.py,          *)
(* reference_attention.py, reference_recurrent.py): the elements whose     *)
(* values enter the result of task c of operator o, and the elements it    *)
(* stores.  The arithmetic is left out.                                    *)
(***************************************************************************)
EXTENDS Lowerings

(* Dense *)

body_gemm(o, c) ==
    LET kg == o.x.shape[2] \div o.heads
        ng == o.w.shape[2] \div o.heads
        m == Clip(c[1], o.tile, o.y.shape[1])
        n == Clip(c[2], o.tile, o.y.shape[2])
        column(j) == LET k == <<(j \div ng) * kg, ((j \div ng) + 1) * kg>>
                     IN  {Tile(o.x, <<m, k>>), Tile(o.w, <<k, <<j, j + 1>>>>)}
    IN  Touched(UNION {column(j) : j \in n[1] .. n[2] - 1} \union {Tile(v, <<n>>) : v \in o.bias},
                {Tile(o.y, <<m, n>>)})
body_gemv_fp8(o, c) ==
    LET m == Clip(c[1], o.tile, o.y.shape[1])
        n == Clip(c[2], o.tile, o.y.shape[2])
    IN  Touched({Tile(o.x, <<m, Extent(o.x, 2)>>), Tile(o.w, <<n, Extent(o.w, 2)>>),
                 Row(o.scale, <<n[1] \div o.quant_block>>)},
                {Tile(o.y, <<m, n>>)})
body_layernorm(o, c) == Touched({Row(o.x, <<c[1]>>), Whole(o.gamma), Whole(o.beta)}, {Row(o.y, <<c[1]>>)})
body_rms_norm(o, c) == Touched({RowOf(o.x, c), Whole(o.gamma)}, {RowOf(o.y, c)})
body_rms_norm_gated(o, c) ==
    Touched({RowOf(o.x, c), RowOf(o.gate, c), Whole(o.gamma)}, {RowOf(o.y, c)})

\* Row p of the tables.
body_rope(o, c) ==
    Touched({Row(o.x, c), Row(o.cos, <<Position[c[1]]>>), Row(o.sin, <<Position[c[1]]>>)}, {Row(o.y, c)})

\* A flat range of contiguous views.
body_elementwise(ins, y, tile, c) ==
    LET r == Clip(c[1], tile, Product(y.shape))
        flat(v) == Tile(Reshaped(v, <<Product(v.shape)>>), <<r>>)
    IN  Touched({flat(v) : v \in ins}, {flat(y)})

body_embedding(o, c) ==
    LET cols == Clip(c[2], o.tile, o.y.shape[2])
        part(v, r) == Tile(v, <<<<r, r + 1>>, cols>>)
    IN  Touched({Row(o.ids, <<c[1]>>), part(o.token, o.id[c[1]])}
                    \union {part(v, Position[c[1]]) : v \in o.pos},
                {part(o.y, c[1])})

\* The hash table is taken as read whole.
body_moe_route(o, c) ==
    Touched({Row(o.x, <<c[1]>>), Whole(o.router)} \union {Whole(v) : v \in o.extra},
            {Row(o.ids, <<c[1]>>), Row(o.weights, <<c[1]>>)})
body_moe_expert(o, c) ==
    Touched({Row(o.x, <<c[1]>>), Row(o.ids, c), Row(o.gate_up, <<o.id[c]>>), Row(o.down, <<o.id[c]>>)},
            {Row(o.partials, c)})
body_moe_combine(o, c) ==
    Touched({Row(v, <<c[1]>>) : v \in {o.partials, o.weights} \union o.shared}, {Row(o.y, <<c[1]>>)})

(* Attention *)

body_conjugate_rope(o, c) ==
    Touched({Row(o.x, c), Row(o.cos, <<Position[c[1]]>>), Row(o.sin, <<Position[c[1]]>>)}, {Row(o.y, c)})

\* The window of the last o.window positions, and the entries that are not -1.
Window(o, c) == {t \in 0 .. Position[c[1]] : t > Position[c[1]] - o.window}
Latents(o, c) ==
    UNION {{Row(o.table, <<c[1], t>>), Row(o.latent, <<c[1], o.slot[c[1]][t + 1]>>)} : t \in Window(o, c)}
Entries(o, c) == {Row(o.comp, <<c[1], e>>) : e \in Range(o.entry[c[1]]) \ {-1}} \union {Row(o.comp_idx, <<c[1]>>)}
body_mla_scores(o, c) ==
    Touched({Row(o.q, c), SinkOf(o, c)} \union Latents(o, c) \union Entries(o, c)
                \union UNION {{Row(v, <<c[1], j - 1>>) : j \in {i \in DOMAIN o.entry[c[1]] : o.entry[c[1]][i] # -1}} :
                                 v \in o.bias},
            {Row(o.probs, c)})
body_mla_values(o, c) ==
    Touched({Row(o.probs, c)} \union Latents(o, c) \union Entries(o, c), {Row(o.ctx, c)})

body_indexer_scores(o, c) ==
    LET row == <<c[1], c[1] + 1>>
        m == Clip(c[2], o.tile, o.c.shape[2])
    IN  Touched({Row(o.q, <<c[1]>>), Tile(o.c, <<row, m, Extent(o.c, 3)>>), Row(o.w, <<c[1]>>)},
                {Tile(o.s, <<row, m>>)})

\* Candidates beyond the row's valid count are never observed.
body_index_topk(o, c) ==
    Touched({Tile(o.s, <<<<c[1], c[1] + 1>>, <<0, o.count[c[1]]>>>>), Row(o.valid, <<c[1]>>)},
            {Row(o.idx, <<c[1]>>), Row(o.bias, <<c[1]>>)})

body_cache_append(o, c) ==
    LET x == c \o <<Position[c[1]]>>
    IN  Touched({Row(o.k_new, c), Row(o.v_new, c)}, {Row(o.k_cache, x), Row(o.v_cache, x)})

\* The slot table is an external tensor that no operator writes.
Slots(o, c) == {o.slot[c[1]][t + 1] : t \in 0 .. Position[c[1]]}
body_cache_append_paged(o, c) ==
    LET x == <<o.slot[c[1]][Position[c[1]] + 1], c[2]>>
    IN  Touched({Row(o.table, <<c[1], Position[c[1]]>>), Row(o.k_new, c), Row(o.v_new, c)},
                {Row(o.k_pool, x), Row(o.v_pool, x)})
Gathered(o, c, pool, heads) ==
    {Prefix(o.table, <<c[1]>>, 2)} \union {Row(pool, <<s, KVHead(c, heads, pool.shape[2])[2]>>) : s \in Slots(o, c)}
body_attention_scores_paged(o, c) ==
    Touched({Row(o.q, c)} \union Gathered(o, c, o.k_pool, o.q.shape[2]), {Prefix(o.y, c, 3)})
body_attention_values_paged(o, c) ==
    Touched({Prefix(o.probs, c, 3)} \union Gathered(o, c, o.v_pool, o.probs.shape[2]), {Row(o.y, c)})

body_attention_scores(o, c) ==
    Touched({Row(o.q, c), Prefix(o.k_cache, KVHead(c, o.q.shape[2], o.k_cache.shape[2]), 3)},
            {Prefix(o.y, c, 3)})
\* The tail beyond the valid length is set to zero.
body_softmax(o, c) == Touched({Prefix(o.x, c, 3)}, {Row(o.y, c)})
body_attention_values(o, c) ==
    Touched({Prefix(o.probs, c, 3), Prefix(o.v_cache, KVHead(c, o.probs.shape[2], o.v_cache.shape[2]), 3)}
                \union {Row(g, c) : g \in o.gate},
            {Row(o.y, c)})

(* Recurrent *)

\* A row that is not at the last of m tokens is left alone.  o.series is the slot
\* and length in state[b, l]; a full series flips the slot.
body_compressor_append(o, c) ==
    LET slot == o.series[c][1]
        len  == o.series[c][2]
        full == len + 1 = o.r \div o.m
    IN  IF Position[c[1]] % o.m # o.m - 1 THEN Touched({}, {})
        ELSE Touched({Row(o.state, c), Whole(o.rms_w)}
                        \union {Row(v, <<c[1]>>) : v \in {o.window, o.gates, o.cos, o.sin}},
                     {Row(o.pool, c \o <<slot, len>>), Row(o.state, c \o <<1>>)}
                        \union (IF full THEN {Row(o.state, c \o <<0>>)} ELSE {}))

body_gdn_conv(o, c) ==
    LET row == <<c[1], c[1] + 1>>
        ch == Clip(c[2], o.tile, o.state.shape[3])
        state == Tile(o.state, <<row, Extent(o.state, 2), ch>>)
    IN  Touched({state, Tile(o.x, <<row, ch>>), Tile(o.w, <<ch, Extent(o.w, 2)>>)},
                {state, Tile(o.out, <<row, ch>>)})
body_mhc_pre(o, c) ==
    Touched({Row(o.streams, <<c[1]>>), Whole(o.fn), Whole(o.base), Whole(o.scale)},
            {Row(v, <<c[1]>>) : v \in {o.h_in, o.post, o.comb}})
body_mhc_post(o, c) ==
    Touched({Row(o.streams, <<c[1]>>), Row(o.body, <<c[1]>>), Row(o.post, c),
             Tile(o.comb, <<<<c[1], c[1] + 1>>, Extent(o.comb, 2), <<c[2], c[2] + 1>>>>)},
            {Row(o.streams_post, c)})
body_gdn_delta(o, c) ==
    LET kh == <<c[1], c[2] \div (o.state.shape[2] \div o.q.shape[2])>>
    IN  Touched({Row(v, c) : v \in {o.state, o.v, o.z, o.a, o.b}} \union {Row(o.q, kh), Row(o.k, kh)}
                    \union {Row(o.dt_bias, <<c[2]>>), Row(o.a_log, <<c[2]>>), Whole(o.norm_w)},
                {Row(o.state, c), Row(o.out, c)})
body_kda_delta(o, c) ==
    Touched({Row(v, c) : v \in {o.state, o.q, o.k, o.v, o.f, o.b}}
                \union {Row(o.dt_bias, <<c[2]>>), Row(o.a_log, <<c[2]>>)},
            {Row(o.state, c), Row(o.out, c)})

\* A padded row has no slot: its output is zero and the pools are left alone.
body_kda_fused_decode(o, c) ==
    LET slot == o.slot[c[1]]
        conv == {Tile(o.conv, <<<<slot, slot + 1>>, Extent(o.conv, 2), s>>) : s \in Stripes(o, c[2])}
        ssm  == Row(o.ssm, <<slot, c[2]>>)
    IN  IF slot = -1 THEN Touched({Row(o.slot_ids, <<c[1]>>)}, {Row(o.out, c)})
        ELSE Touched(conv \union {ssm, Row(o.slot_ids, <<c[1]>>), Whole(o.o_norm)}
                        \union {Tile(o.qkv, <<<<c[1], c[1] + 1>>, s>>) : s \in Stripes(o, c[2])}
                        \union {Tile(o.taps, <<Extent(o.taps, 1), s>>) : s \in Stripes(o, c[2])}
                        \union {Row(v, c) : v \in {o.f, o.b, o.g}}
                        \union {Row(o.dt_bias, <<c[2]>>), Row(o.a_log, <<c[2]>>)},
                     conv \union {ssm, Row(o.out, c)})
=============================================================================
