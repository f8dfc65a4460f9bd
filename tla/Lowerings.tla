----------------------------- MODULE Lowerings -----------------------------
(***************************************************************************)
(* The lowering rules (compiler/lowerings): for every operator its tile    *)
(* grid and the regions each task declares.  Hazards between tasks are     *)
(* computed from these.                                                    *)
(***************************************************************************)
EXTENDS Capture

Extent(v, i) == <<0, v.shape[i]>>

\* The tiles of a rule that takes these views row-major only.  It raises on any
\* other view, and there are no tasks.
RowMajorOnly(views, grid) == {c \in grid : \A v \in views : Contiguous(v)}

(* Dense *)

\* A tile of y reads, for every head its columns meet, the head's block of x
\* and w; without grouped heads the one block is everything.
lower_linear(o) ==
    LET kg == o.x.shape[2] \div o.heads
        ng == o.w.shape[2] \div o.heads
        block(h) == <<h * kg, (h + 1) * kg>>
        of(m, n) ==
            LET heads == (n[1] \div ng) .. Min({o.heads, Count(n[2], ng)}) - 1
                cut(h) == <<Max({n[1], h * ng}), Min({n[2], (h + 1) * ng})>>
            IN  Declared(UNION {{Tile(o.x, <<m, block(h)>>), Tile(o.w, <<block(h), cut(h)>>)} : h \in heads}
                            \union {Tile(v, <<n>>) : v \in o.bias},
                         {Tile(o.y, <<m, n>>)})
    IN  [c \in Grid(Count(o.y.shape[1], o.tile), Count(o.y.shape[2], o.tile)) |->
            of(Clip(c[1], o.tile, o.y.shape[1]), Clip(c[2], o.tile, o.y.shape[2]))]

lower_linear_fp8(o) ==
    [c \in RowMajorOnly({o.w}, Grid(Count(o.y.shape[1], o.tile), Count(o.y.shape[2], o.tile))) |->
        LET m == Clip(c[1], o.tile, o.y.shape[1])
            n == Clip(c[2], o.tile, o.y.shape[2])
        IN  Declared({Tile(o.x, <<m, Extent(o.x, 2)>>), Tile(o.w, <<n, Extent(o.w, 2)>>),
                      Row(o.scale, <<n[1] \div o.quant_block>>)},
                     {Tile(o.y, <<m, n>>)})]

\* One task per row of [B, C], or per head row of [B, H, D].
RowGrid(v) == Grid(v.shape[1], IF Len(v.shape) = 3 THEN v.shape[2] ELSE 1)
RowOf(v, c) == Row(v, IF Len(v.shape) = 3 THEN c ELSE <<c[1]>>)

lower_layer_norm(o) ==
    [c \in RowGrid(o.x) |->
        Declared({RowOf(o.x, c), Whole(o.gamma), Whole(o.beta)}, {RowOf(o.y, c)})]
lower_rms_norm(o) ==
    [c \in RowGrid(o.x) |-> Declared({RowOf(o.x, c), Whole(o.gamma)}, {RowOf(o.y, c)})]
lower_rms_norm_gated(o) ==
    [c \in RowGrid(o.x) |->
        Declared({RowOf(o.x, c), RowOf(o.gate, c), Whole(o.gamma)}, {RowOf(o.y, c)})]
lower_rope(o) ==
    [c \in RowGrid(o.x) |-> Declared({RowOf(o.x, c), Whole(o.cos), Whole(o.sin)}, {RowOf(o.y, c)})]

\* _flat_box: the rows of a flat range, and its columns where it is in one row.
FlatBox(v, lo, hi) ==
    LET cols == v.shape[2]
        r0 == lo \div cols
        r1 == (hi - 1) \div cols
    IN  IF Len(v.shape) = 1 THEN <<<<lo, hi>>>>
        ELSE <<<<r0, r1 + 1>>, IF r0 = r1 THEN <<lo % cols, ((hi - 1) % cols) + 1>> ELSE <<0, cols>>>>

\* Tiles of the flattened views.
Flat(ins, y, tile) ==
    [c \in RowMajorOnly(ins \union {y}, Grid(Count(Product(y.shape), tile), 1)) |->
        LET r == Clip(c[1], tile, Product(y.shape))
        IN  Declared({Tile(v, FlatBox(v, r[1], r[2])) : v \in ins}, {Tile(y, FlatBox(y, r[1], r[2]))})]
lower_gelu(o)   == Flat({o.x}, o.y, o.tile)
lower_swiglu(o) == Flat({o.gate, o.up}, o.y, o.tile)
lower_add(o)    == Flat({o.a, o.b}, o.y, o.tile)

lower_embedding(o) ==
    [c \in Grid(o.y.shape[1], Count(o.y.shape[2], o.tile)) |->
        Declared({Row(o.ids, <<c[1]>>), Whole(o.token)} \union {Whole(v) : v \in o.pos},
                 {Tile(o.y, <<<<c[1], c[1] + 1>>, Clip(c[2], o.tile, o.y.shape[2])>>)})]

lower_moe_route(o) ==
    [c \in Grid(o.x.shape[1], 1) |->
        Declared({Row(o.x, <<c[1]>>), Whole(o.router)} \union {Whole(v) : v \in o.extra},
                 {Row(o.ids, <<c[1]>>), Row(o.weights, <<c[1]>>)})]
lower_moe_expert(o) ==
    [c \in Grid(o.x.shape[1], o.ids.shape[2]) |->
        Declared({Row(o.x, <<c[1]>>), Whole(o.gate_up), Whole(o.down), Whole(o.ids)},
                 {Row(o.partials, c)})]
lower_moe_combine(o) ==
    [c \in Grid(o.partials.shape[1], 1) |->
        Declared({Whole(v) : v \in {o.partials, o.weights} \union o.shared}, {Row(o.y, <<c[1]>>)})]

(* Attention *)

lower_indexer_scores(o) ==
    [c \in RowMajorOnly({o.c}, Grid(o.q.shape[1], Count(o.c.shape[2], o.tile))) |->
        LET row == <<c[1], c[1] + 1>>
            m == Clip(c[2], o.tile, o.c.shape[2])
        IN  Declared({Row(o.q, <<c[1]>>), Tile(o.c, <<row, m, Extent(o.c, 3)>>), Row(o.w, <<c[1]>>)},
                     {Tile(o.s, <<row, m>>)})]
lower_index_topk(o) ==
    [c \in Grid(o.s.shape[1], 1) |->
        Declared({Row(o.s, <<c[1]>>), Row(o.valid, <<c[1]>>)},
                 {Row(o.idx, <<c[1]>>), Row(o.bias, <<c[1]>>)})]

\* Only position p is written; the declared region is the valid prefix.
lower_cache_append(o) ==
    [c \in Grid(o.k_cache.shape[1], o.k_cache.shape[2]) |->
        Declared({Row(o.k_new, c), Row(o.v_new, c)}, {Prefix(o.k_cache, c, 3), Prefix(o.v_cache, c, 3)})]
lower_cache_append_paged(o) ==
    [c \in Grid(o.k_new.shape[1], o.k_new.shape[2]) |->
        Declared({Row(o.k_new, c), Row(o.v_new, c)}, {Whole(o.k_pool), Whole(o.v_pool)})]

\* Query head h reads the cache head h // group.
KVHead(c, heads, kv) == <<c[1], c[2] \div (heads \div kv)>>
lower_attention_scores(o) ==
    [c \in Grid(o.q.shape[1], o.q.shape[2]) |->
        Declared({Row(o.q, c), Prefix(o.k_cache, KVHead(c, o.q.shape[2], o.k_cache.shape[2]), 3)},
                 {Prefix(o.y, c, 3)})]
lower_attention_scores_paged(o) ==
    [c \in Grid(o.q.shape[1], o.q.shape[2]) |->
        Declared({Row(o.q, c), Whole(o.k_pool)}, {Prefix(o.y, c, 3)})]
lower_softmax(o) ==
    [c \in Grid(o.x.shape[1], o.x.shape[2]) |-> Declared({Prefix(o.x, c, 3)}, {Row(o.y, c)})]
lower_attention_values(o) ==
    [c \in Grid(o.probs.shape[1], o.probs.shape[2]) |->
        Declared({Prefix(o.probs, c, 3),
                  Prefix(o.v_cache, KVHead(c, o.probs.shape[2], o.v_cache.shape[2]), 3)}
                    \union {Row(g, c) : g \in o.gate},
                 {Row(o.y, c)})]
lower_attention_values_paged(o) ==
    [c \in Grid(o.probs.shape[1], o.probs.shape[2]) |->
        Declared({Prefix(o.probs, c, 3), Whole(o.v_pool)}, {Row(o.y, c)})]

lower_conjugate_rope(o) ==
    [c \in RowGrid(o.x) |-> Declared({Row(o.x, c), Whole(o.cos), Whole(o.sin)}, {Row(o.y, c)})]

\* The sink is per head, with or without a row.
SinkOf(o, c) == Row(o.sink, IF Len(o.sink.shape) = 2 THEN c ELSE <<c[2]>>)
lower_mla_scores(o) ==
    [c \in Grid(o.q.shape[1], o.q.shape[2]) |->
        Declared({Row(o.q, c), SinkOf(o, c)}
                    \union {Row(v, <<c[1]>>) : v \in {o.latent, o.table, o.comp, o.comp_idx} \union o.bias},
                 {Row(o.probs, c)})]
lower_mla_values(o) ==
    [c \in Grid(o.probs.shape[1], o.probs.shape[2]) |->
        Declared({Row(o.probs, c)} \union {Row(v, <<c[1]>>) : v \in {o.latent, o.table, o.comp, o.comp_idx}},
                 {Row(o.ctx, c)})]

(* Recurrent *)

\* A task shifts its own tile of the state in place.
lower_gdn_conv(o) ==
    [c \in Grid(o.state.shape[1], Count(o.state.shape[3], o.tile)) |->
        LET row == <<c[1], c[1] + 1>>
            ch == Clip(c[2], o.tile, o.state.shape[3])
            state == Tile(o.state, <<row, Extent(o.state, 2), ch>>)
        IN  Declared({state, Tile(o.x, <<row, ch>>), Tile(o.w, <<ch, Extent(o.w, 2)>>)},
                     {state, Tile(o.out, <<row, ch>>)})]

\* A task owns the state slice of its value head; q and k are per key head.
lower_gdn_delta(o) ==
    [c \in Grid(o.state.shape[1], o.state.shape[2]) |->
        Declared({Row(v, c) : v \in {o.state, o.v, o.z, o.a, o.b}}
                    \union {Row(v, KVHead(c, o.state.shape[2], o.q.shape[2])) : v \in {o.q, o.k}}
                    \union {Whole(v) : v \in {o.a_log, o.dt_bias, o.norm_w}},
                 {Row(o.state, c), Row(o.out, c)})]
lower_kda_delta(o) ==
    [c \in Grid(o.state.shape[1], o.state.shape[2]) |->
        Declared({Row(v, c) : v \in {o.state, o.q, o.k, o.v, o.f, o.b}}
                    \union {Whole(o.dt_bias), Whole(o.a_log)},
                 {Row(o.state, c), Row(o.out, c)})]

\* The channels of head h in the q, k and v thirds of a row.
Stripes(o, h) ==
    LET d == o.ssm.shape[4]
        third == o.conv.shape[3] \div 3
    IN  {<<(i * third) + (h * d), (i * third) + ((h + 1) * d)>> : i \in 0 .. 2}
lower_kda_fused_decode(o) ==
    LET pools == {Indirect(o.conv), Indirect(o.ssm)}
    IN  [c \in Grid(o.out.shape[1], o.ssm.shape[2]) |->
            Declared(pools \union {Row(o.slot_ids, <<c[1]>>)}
                        \union {Tile(o.qkv, <<<<c[1], c[1] + 1>>, s>>) : s \in Stripes(o, c[2])}
                        \union {Row(v, c) : v \in {o.f, o.b, o.g}}
                        \union {Whole(v) : v \in {o.taps, o.dt_bias, o.a_log, o.o_norm}},
                     pools \union {Row(o.out, c)})]

lower_mhc_pre(o) ==
    [c \in Grid(o.streams.shape[1], 1) |->
        Declared({Row(o.streams, <<c[1]>>), Whole(o.fn), Whole(o.base), Whole(o.scale)},
                 {Row(v, <<c[1]>>) : v \in {o.h_in, o.post, o.comb}})]
lower_mhc_post(o) ==
    [c \in Grid(o.streams.shape[1], o.streams.shape[2]) |->
        Declared({Row(o.streams, <<c[1]>>), Row(o.body, <<c[1]>>), Row(o.post, c),
                  Tile(o.comb, <<<<c[1], c[1] + 1>>, Extent(o.comb, 2), <<c[2], c[2] + 1>>>>)},
                 {Row(o.streams_post, c)})]

\* One task per row and layer, which declares the row's whole slab and state.
lower_compressor_append(o) ==
    [c \in Grid(o.window.shape[1], o.pool.shape[2]) |->
        Declared({Row(v, <<c[1]>>) : v \in {o.window, o.gates, o.cos, o.sin, o.state}} \union {Whole(o.rms_w)},
                 {Row(o.pool, <<c[1]>>), Row(o.state, <<c[1]>>)})]
=============================================================================
