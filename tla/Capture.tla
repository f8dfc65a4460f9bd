------------------------------ MODULE Capture ------------------------------
(***************************************************************************)
(* The operators of the captured graph and the regions recorded for each   *)
(* of them (capture_dense.py, capture_attention.py, capture_recurrent.py). *)
(* Hazards between whole operators are computed from these.                *)
(*                                                                         *)
(* An operator is a record: its operands under their names in the code,    *)
(* and its attributes.  An optional operand is a set of at most one view.  *)
(* The integer contents that bodies index with (ids, slots, entries) are   *)
(* attributes too.  Shapes and data types are ones that the recording      *)
(* accepts.                                                                *)
(***************************************************************************)
EXTENDS Regions

Recorded(ins, outs) ==
    Declared({Whole(v) : v \in ins}, {Whole(v) : v \in outs})

(* Dense *)

embedding(o)      == Recorded({o.ids, o.token} \union o.pos, {o.y})
layer_norm(o)     == Recorded({o.x, o.gamma, o.beta}, {o.y})
linear(o)         == Recorded({o.x, o.w} \union o.bias, {o.y})
linear_fp8(o)     == Recorded({o.x, o.w, o.scale}, {o.y})
gelu(o)           == Recorded({o.x}, {o.y})
add(o)            == Recorded({o.a, o.b}, {o.y})
rms_norm(o)       == Recorded({o.x, o.gamma}, {o.y})
rms_norm_gated(o) == Recorded({o.x, o.gate, o.gamma}, {o.y})
rope(o)           == Recorded({o.x, o.cos, o.sin}, {o.y})
swiglu(o)         == Recorded({o.gate, o.up}, {o.y})

\* extra: the hash table and token ids, or the correction bias.
moe_route(o)   == Recorded({o.x, o.router} \union o.extra, {o.ids, o.weights})
moe_expert(o)  == Recorded({o.x, o.gate_up, o.down, o.ids}, {o.partials})
moe_combine(o) == Recorded({o.partials, o.weights} \union o.shared, {o.y})

(* Attention *)

indexer_scores(o) == Recorded({o.q, o.c, o.w}, {o.s})
index_topk(o)     == Recorded({o.s, o.valid}, {o.idx, o.bias})

cache_append(o) ==
    Declared({Whole(o.k_new), Whole(o.v_new)},
             {Prefix(o.k_cache, <<>>, 3), Prefix(o.v_cache, <<>>, 3)})

\* The cache, head group by head group: with fewer heads than the query has, the
\* groups are counted in query heads and clipped to the cache.
CacheRegions(cache, heads) ==
    LET group == heads \div cache.shape[2]
    IN  {[Prefix(cache, <<>>, 3) EXCEPT !.box[2] = <<g * group, (g + 1) * group>>] :
            g \in 0 .. cache.shape[2] - 1}

attention_scores(o) ==
    Declared({Whole(o.q)} \union CacheRegions(o.k_cache, o.q.shape[2]), {Whole(o.y)})
softmax(o) == Declared({Prefix(o.x, <<>>, 3)}, {Whole(o.y)})
attention_values(o) ==
    Declared({Prefix(o.probs, <<>>, 3)} \union CacheRegions(o.v_cache, o.probs.shape[2])
                \union {Whole(g) : g \in o.gate},
             {Whole(o.y)})

cache_append_paged(o) ==
    Declared({Whole(o.k_new), Whole(o.v_new)}, {Indirect(o.k_pool), Indirect(o.v_pool)})
attention_scores_paged(o) == Declared({Whole(o.q), Indirect(o.k_pool)}, {Whole(o.y)})
attention_values_paged(o) ==
    Declared({Prefix(o.probs, <<>>, 3), Indirect(o.v_pool)}, {Whole(o.y)})

conjugate_rope(o) == Recorded({o.x, o.cos, o.sin}, {o.y})
mla_scores(o) ==
    Declared({Indirect(o.latent)} \union {Whole(v) : v \in {o.q, o.table, o.comp, o.comp_idx, o.sink} \union o.bias},
             {Whole(o.probs)})
mla_values(o) ==
    Declared({Indirect(o.latent)} \union {Whole(v) : v \in {o.probs, o.table, o.comp, o.comp_idx}},
             {Whole(o.ctx)})

(* Recurrent *)

compressor_append(o) ==
    Recorded({o.window, o.gates, o.rms_w, o.cos, o.sin, o.state}, {o.pool, o.state})
gdn_conv(o)  == Recorded({o.state, o.x, o.w}, {o.state, o.out})
mhc_pre(o)   == Recorded({o.streams, o.fn, o.base, o.scale}, {o.h_in, o.post, o.comb})
mhc_post(o)  == Recorded({o.streams, o.body, o.post, o.comb}, {o.streams_post})
gdn_delta(o) ==
    Recorded({o.state, o.q, o.k, o.v, o.z, o.a, o.b, o.a_log, o.dt_bias, o.norm_w}, {o.state, o.out})
kda_delta(o) ==
    Recorded({o.state, o.q, o.k, o.v, o.f, o.b, o.dt_bias, o.a_log}, {o.state, o.out})
kda_fused_decode(o) ==
    LET pools == {Indirect(o.conv), Indirect(o.ssm)}
        rows  == {o.slot_ids, o.qkv, o.f, o.b, o.g, o.taps, o.dt_bias, o.a_log, o.o_norm}
    IN  Declared(pools \union {Whole(v) : v \in rows}, pools \union {Whole(o.out)})
=============================================================================
