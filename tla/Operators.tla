----------------------------- MODULE Operators -----------------------------
(***************************************************************************)
(* The contract registry (contracts.py): an operator of the graph is what  *)
(* capture records for it, the tasks its lowering makes and the body that  *)
(* executes a task.                                                        *)
(***************************************************************************)
EXTENDS ReferenceBodies

\* The regions a task declares and the elements its body touches.
Contracted(declared, body) ==
    [reads |-> declared.reads, writes |-> declared.writes,
     uses |-> body.uses, sets |-> body.sets]

Operator(o, captured, lowered, Body(_, _)) ==
    [reads |-> captured.reads, writes |-> captured.writes,
     tasks |-> [c \in DOMAIN lowered |-> Contracted(lowered[c], Body(o, c))]]

Embedding(o) == Operator(o, embedding(o), lower_embedding(o), body_embedding)
LayerNorm(o) == Operator(o, layer_norm(o), lower_layer_norm(o), body_layernorm)
Linear(o) == Operator(o, linear(o), lower_linear(o), body_gemm)
LinearFp8(o) == Operator(o, linear_fp8(o), lower_linear_fp8(o), body_gemv_fp8)
RmsNorm(o) == Operator(o, rms_norm(o), lower_rms_norm(o), body_rms_norm)
RmsNormGated(o) == Operator(o, rms_norm_gated(o), lower_rms_norm_gated(o), body_rms_norm_gated)
Rope(o) == Operator(o, rope(o), lower_rope(o), body_rope)
MoeRoute(o) == Operator(o, moe_route(o), lower_moe_route(o), body_moe_route)
MoeExpert(o) == Operator(o, moe_expert(o), lower_moe_expert(o), body_moe_expert)
MoeCombine(o) == Operator(o, moe_combine(o), lower_moe_combine(o), body_moe_combine)
IndexerScores(o) == Operator(o, indexer_scores(o), lower_indexer_scores(o), body_indexer_scores)
IndexTopk(o) == Operator(o, index_topk(o), lower_index_topk(o), body_index_topk)
CacheAppend(o) == Operator(o, cache_append(o), lower_cache_append(o), body_cache_append)
CacheAppendPaged(o) == Operator(o, cache_append_paged(o), lower_cache_append_paged(o), body_cache_append_paged)
Scores(o) == Operator(o, attention_scores(o), lower_attention_scores(o), body_attention_scores)
ScoresPaged(o) == Operator(o, attention_scores_paged(o), lower_attention_scores_paged(o), body_attention_scores_paged)
Softmax(o) == Operator(o, softmax(o), lower_softmax(o), body_softmax)
Values(o) == Operator(o, attention_values(o), lower_attention_values(o), body_attention_values)
ValuesPaged(o) == Operator(o, attention_values_paged(o), lower_attention_values_paged(o), body_attention_values_paged)
ConjugateRope(o) == Operator(o, conjugate_rope(o), lower_conjugate_rope(o), body_conjugate_rope)
MlaScores(o) == Operator(o, mla_scores(o), lower_mla_scores(o), body_mla_scores)
MlaValues(o) == Operator(o, mla_values(o), lower_mla_values(o), body_mla_values)
GdnConv(o) == Operator(o, gdn_conv(o), lower_gdn_conv(o), body_gdn_conv)
GdnDelta(o) == Operator(o, gdn_delta(o), lower_gdn_delta(o), body_gdn_delta)
KdaDelta(o) == Operator(o, kda_delta(o), lower_kda_delta(o), body_kda_delta)
KdaFused(o) == Operator(o, kda_fused_decode(o), lower_kda_fused_decode(o), body_kda_fused_decode)
MhcPre(o) == Operator(o, mhc_pre(o), lower_mhc_pre(o), body_mhc_pre)
MhcPost(o) == Operator(o, mhc_post(o), lower_mhc_post(o), body_mhc_post)
CompressorAppend(o) == Operator(o, compressor_append(o), lower_compressor_append(o), body_compressor_append)

Gelu(o)   == Operator(o, gelu(o), lower_gelu(o), LAMBDA p, c : body_elementwise({p.x}, p.y, p.tile, c))
Swiglu(o) == Operator(o, swiglu(o), lower_swiglu(o), LAMBDA p, c : body_elementwise({p.gate, p.up}, p.y, p.tile, c))
Add(o)    == Operator(o, add(o), lower_add(o), LAMBDA p, c : body_elementwise({p.a, p.b}, p.y, p.tile, c))
=============================================================================
