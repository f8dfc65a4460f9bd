------------------------------- MODULE KPool -------------------------------
(***************************************************************************)
(* The pooled indexer cache of the sparse attention                        *)
(* (torch_ops/dsa_kpool_compress.py) and the metadata of a decode or       *)
(* verify step over it (torch_ops/dsa_kpool_metadata.py).                  *)
(*                                                                         *)
(* Every POOL consecutive tokens of a request are compressed into one row  *)
(* of the cache.  A prefill batch writes its full pools and seeds each     *)
(* request's tail ring with its last tokens; a decode step stashes its     *)
(* tokens in the ring and writes a pool when its last token arrives.       *)
(* Under speculative decoding some of a step's tokens are rejected, and    *)
(* their positions are decoded again later.                                *)
(*                                                                         *)
(* The kernels never look at a value: a token's key and gate are the       *)
(* <<request, epoch, position, accepted>> they came from, a pool row the   *)
(* sequence of tokens it was compressed from.  The scheduler that forms    *)
(* the batches is outside the repository.                                  *)
(***************************************************************************)
EXTENDS Integers, Sequences, FiniteSetsExt, SequencesExt

CONSTANTS Requests,   \* rows of the batch, 0 .. n; request r owns tail block r
          POOL,       \* index_kpool
          RING,       \* tokens of a tail block
          NextN,      \* tokens of a verify row
          TopK,       \* index_topk
          PageSize,   \* real_page_size
          BLOCK_N,    \* column tile of the metadata kernels
          Programs,   \* _TILE_PROGRAM_TARGET
          MaxPrompt,  \* bound: tokens of a prompt
          MaxLen,     \* bound: tokens of a request, and max_len of the tables
          MaxEpoch    \* bound: times a block is handed to another request

ASSUME KPoolAssumption ==
    /\ Requests \subseteq Nat /\ IsFiniteSet(Requests)
    /\ POOL \in Nat \ {0} /\ RING \in Nat /\ RING >= POOL /\ RING % POOL = 0
    /\ NextN \in Nat \ {0} /\ NextN - 1 <= RING - POOL + 1
    /\ TopK \in Nat /\ TopK % POOL = 0
    /\ PageSize \in Nat \ {0} /\ BLOCK_N \in Nat \ {0} /\ Programs \in Nat
    /\ MaxLen \in Nat /\ MaxPrompt \in 0 .. MaxLen /\ MaxEpoch \in Nat

VARIABLES len,    \* accepted tokens of a request; 0 before its prefill
          epoch,  \* which of the requests the block has served
          step,   \* the decode program over a request's row, or Idle
          tail,   \* tail[block][i]
          pools   \* pools[request][i]: row of the request's i-th pool

vars == <<len, epoch, step, tail, pools>>

\* real tokens, how many will be accepted, leading padding entries, next entry
Idle     == [n |-> 0, keep |-> 0, pads |-> 0, t |-> 0]
Empty    == <<-1, -1, -1, FALSE>>
Unwritten == <<>>
PoolIds  == 0 .. (MaxLen \div POOL) - 1

Token(r, p) == <<r, epoch[r], p, p < len[r] + step[r].keep>>
PoolOf(r, i) == [k \in 1 .. POOL |-> Token(r, (i * POOL) + (k - 1))]

Init ==
    /\ len = [r \in Requests |-> 0]
    /\ epoch = [r \in Requests |-> 0]
    /\ step = [r \in Requests |-> Idle]
    /\ tail = [b \in Requests |-> [i \in 0 .. RING - 1 |-> Empty]]
    /\ pools = [r \in Requests |-> [i \in PoolIds |-> Unwritten]]

-----------------------------------------------------------------------------
\* Prefill.  A batch is a sequence of <<request, position>>; padding is <<>>.
\* The scheduler puts the requests one after another, in any order.
Prompt(r, n) == [p \in 1 .. n |-> <<r, p - 1>>]
Batch(rows, lens, padding) ==
    FlattenSeq([i \in 1 .. Len(rows) |-> Prompt(rows[i], lens[rows[i]])]) \o [i \in 1 .. padding |-> <<>>]

\* The entry POOL ahead is in another block, padding, or past the batch.
Seeds(batch, i) ==
    /\ batch[i] # <<>>
    /\ ~ (i + POOL <= Len(batch) /\ batch[i + POOL] # <<>> /\ batch[i + POOL][1] = batch[i][1])

\* kpool_compress_and_write_cache over the full pools of the batch, then
\* kpool_seed_tail_cache over its tokens.
Prefill(rows, lens, padding) ==
    LET batch == Batch(rows, lens, padding)
        src(r, i) == {p \in 0 .. MaxPrompt - 1 : p % RING = i /\
                        \E j \in 1 .. Len(batch) : batch[j] = <<r, p>> /\ Seeds(batch, j)}
    IN  /\ \A r \in Requests : step[r] = Idle
        /\ \A r \in DOMAIN lens : len[r] = 0
        /\ pools' = [r \in Requests |-> [i \in PoolIds |->
                        IF r \in DOMAIN lens /\ i < lens[r] \div POOL
                        THEN [k \in 1 .. POOL |-> <<r, epoch[r], (i * POOL) + (k - 1), TRUE>>]
                        ELSE pools[r][i]]]
        /\ tail' = [r \in Requests |-> [i \in 0 .. RING - 1 |->
                        IF src(r, i) # {} THEN <<r, epoch[r], Max(src(r, i)), TRUE>>
                        ELSE tail[r][i]]]
        /\ len' = [r \in Requests |-> IF r \in DOMAIN lens THEN lens[r] ELSE len[r]]
        /\ UNCHANGED <<epoch, step>>

-----------------------------------------------------------------------------
\* Decode.  A launch hands request r a row of NextN entries: padding first, then
\* its next n tokens, of which the verifier will keep the first few.  The programs
\* of one launch are taken one after another.
Launch(r, n, keep, pads) ==
    /\ \A q \in Requests : step[q] = Idle
    /\ len[r] > 0 /\ len[r] + n <= MaxLen
    /\ keep \in 1 .. n /\ n + pads <= NextN
    /\ step' = [step EXCEPT ![r] = [n |-> n, keep |-> keep, pads |-> pads, t |-> 0]]
    /\ UNCHANGED <<len, epoch, tail, pools>>

\* Entry t of the row: position, pool row (given for a pool's last token only)
\* and tail slot; -1 where the entry is padding.
Entry(r) ==
    LET p == len[r] + step[r].t - step[r].pads
    IN  IF step[r].t < step[r].pads
        THEN [pos |-> -1, loc |-> -1, slot |-> -1]
        ELSE [pos |-> p, loc |-> IF p % POOL = POOL - 1 THEN p \div POOL ELSE -1,
              slot |-> (r * RING) + (p % RING)]

Larger(a, b) == IF a > b THEN a ELSE b

\* Fault model: the stash waits for the pool's own row.
StashesAtPoolEnd(e) == e.pos >= 0 /\ e.loc >= 0

\* The stash is gated on the token's tail slot.
Stashes(e) == e.pos >= 0 /\ e.slot >= 0

\* One iteration of the decode program: a pool that ends here is read from the
\* ring and the current token, and only then the token is stashed.
UpdateToken(r) ==
    LET e == Entry(r)
        pos == Larger(e.pos, 0)
        at == pos % POOL
        block == Larger(e.slot, 0) \div RING
        now == Token(r, pos)
        row == [k \in 1 .. POOL |-> IF k - 1 = at THEN now
                                    ELSE tail[block][(pos - at + k - 1) % RING]]
    IN  /\ step[r] # Idle /\ step[r].t < step[r].n + step[r].pads
        /\ pools' = IF e.loc >= 0 /\ e.pos >= 0 /\ at = POOL - 1
                    THEN [pools EXCEPT ![r][e.loc] = row] ELSE pools
        /\ tail' = IF Stashes(e) THEN [tail EXCEPT ![block][pos % RING] = now] ELSE tail
        /\ step' = [step EXCEPT ![r].t = @ + 1]
        /\ UNCHANGED <<len, epoch>>

\* The verifier keeps a prefix of the step's tokens.
Accept(r) ==
    /\ step[r] # Idle /\ step[r].t = step[r].n + step[r].pads
    /\ len' = [len EXCEPT ![r] = @ + step[r].keep]
    /\ step' = [step EXCEPT ![r] = Idle]
    /\ UNCHANGED <<epoch, tail, pools>>

\* The request ends; its block and rows go to another one as they are.
Release(r) ==
    /\ step[r] = Idle /\ len[r] > 0 /\ \A q \in Requests : epoch[q] < MaxEpoch
    /\ len' = [len EXCEPT ![r] = 0] /\ epoch' = [epoch EXCEPT ![r] = @ + 1]
    /\ UNCHANGED <<step, tail, pools>>

Next ==
    \/ \E S \in SUBSET Requests : S # {} /\
          \E rows \in SetToSeqs(S), lens \in [S -> 1 .. MaxPrompt], padding \in 0 .. 1 :
             Prefill(rows, lens, padding)
    \/ \E r \in Requests :
          \/ UpdateToken(r) \/ Accept(r) \/ Release(r)
          \/ \E n, keep \in 1 .. NextN, pads \in 0 .. NextN - 1 : Launch(r, n, keep, pads)

Spec == Init /\ [][Next]_vars

-----------------------------------------------------------------------------
\* Top-k: what a query that sees the first seq tokens is told to attend to.
Groups == TopK \div POOL

\* The top-k hands over as many pool ids as it may, in any order, -1 for the rest.
TopKChoices(seq) ==
    LET full == seq \div POOL
        most == IF full < Groups THEN full ELSE Groups
    IN  UNION {{ids \o [i \in 1 .. Groups - most |-> -1] : ids \in SetToSeqs(S)} :
                  S \in kSubset(most, 0 .. full - 1)}

\* expand_pools_and_append_tail, column by column.
ExpandFused(ids, seq) ==
    LET start == (seq \div POOL) * POOL
    IN  [c \in 1 .. TopK + POOL - 1 |->
            LET id == ids[((c - 1) \div POOL) + 1]
                off == c - 1 - TopK
            IN  IF c <= TopK THEN IF id >= 0 THEN (id * POOL) + ((c - 1) % POOL) ELSE -1
                ELSE IF off < seq - start THEN start + off ELSE -1]

\* The torch twins: expand_pools_to_tokens, then append_tail_to_topk.
ExpandPools(ids) ==
    FlattenSeq([g \in 1 .. Groups |->
        [o \in 1 .. POOL |-> IF ids[g] >= 0 THEN (ids[g] * POOL) + (o - 1) ELSE -1]])
AppendTail(history, seq) ==
    LET start == (seq \div POOL) * POOL
    IN  history \o [o \in 1 .. POOL - 1 |-> IF o - 1 < seq - start THEN start + (o - 1) ELSE -1]

-----------------------------------------------------------------------------
\* Metadata.  cdiv, and the split scan over the column tiles of a row.
Cdiv(a, b) == (a + b - 1) \div b
Smaller(a, b) == IF a < b THEN a ELSE b
Splits(rows) == Larger(1, Smaller(Cdiv(MaxLen, BLOCK_N), Programs \div rows))

\* Fault model: the trailing partial pool is not counted.
VisibleHistory(seq) == Smaller((seq \div POOL) * POOL, TopK)

\* dsa_seq of both kernels: whole pools up to index_topk, and the partial one.
Visible(seq) ==
    LET full == (seq \div POOL) * POOL
    IN  Smaller(full, TopK) + (seq - full)

\* Fault model: a partial column tile is left out.
TilesFloor(kv) == Smaller(kv \div BLOCK_N, Cdiv(MaxLen, BLOCK_N))

Tiles(kv) == Smaller(Cdiv(kv, BLOCK_N), Cdiv(MaxLen, BLOCK_N))

\* Columns that the programs of a row write, out of rows rows.
Written(kv, rows) ==
    {c \in 0 .. MaxLen - 1 : \E s \in 0 .. Splits(rows) - 1 :
        LET tile == c \div BLOCK_N
        IN  tile < Tiles(kv) /\ tile >= s /\ (tile - s) % Splits(rows) = 0}

\* The slot the pool gave a token; a request's pages depend on its epoch.
ReqToToken(r, c) ==
    LET page == ((r * (MaxEpoch + 1)) + epoch[r]) * Cdiv(MaxLen, PageSize) + (c \div PageSize)
    IN  (page * PageSize) + (c % PageSize)

Stale == -1

\* page_table_1 and real_page_table of a row whose buffers held anything before.
PageTable(r, kv, rows) ==
    [c \in 0 .. MaxLen - 1 |-> IF c \in Written(kv, rows) THEN ReqToToken(r, c) ELSE Stale]
RealTable(r, kv, rows) ==
    [c \in 0 .. Cdiv(MaxLen, PageSize) - 1 |->
        IF c * PageSize \in Written(kv, rows) THEN ReqToToken(r, c * PageSize) \div PageSize
        ELSE Stale]

\* Rows of the metadata over the live batch: <<request, tokens the row's query
\* sees, kv length its tables cover, rows of the launch>>.
Live == {r \in Requests : len[r] > 0 /\ \A q \in Requests : step[q] = Idle}
DecodeRows == {<<r, len[r], len[r], Cardinality(Live)>> : r \in Live}
VerifyRows == {<<x[1], len[x[1]] + x[2] + 1, len[x[1]] + NextN, Cardinality(Live) * NextN>> :
                  x \in {y \in Live \X (0 .. NextN - 1) : len[y[1]] + y[2] < MaxLen}}

-----------------------------------------------------------------------------
\* Every pool whose tokens the request has, those of the running step included,
\* is compressed from exactly these tokens in order: neither a rejected draft,
\* a token of another request nor one a released request left in the ring is
\* mixed in.
PoolsExact ==
    \A r \in Requests :
        LET done == len[r] + Larger(step[r].t - step[r].pads, 0)
        IN  \A i \in PoolIds : i < done \div POOL => pools[r][i] = PoolOf(r, i)

\* What the metadata counts as visible is what the indexer hands out: the fused
\* expansion and its torch twins give the same row, which names each token at
\* most once, none beyond the sequence, every token of the trailing partial pool,
\* and exactly dsa_cache_seqlens tokens.
VisibleAgrees ==
    \A x \in DecodeRows \union VerifyRows : \A ids \in TopKChoices(x[2]) :
        LET row == ExpandFused(ids, x[2])
            named == {c \in DOMAIN row : row[c] # -1}
            tokens == {row[c] : c \in named}
        IN  /\ row = AppendTail(ExpandPools(ids), x[2])
            /\ Cardinality(named) = Visible(x[2]) /\ Cardinality(tokens) = Visible(x[2])
            /\ (x[2] \div POOL) * POOL .. x[2] - 1 \subseteq tokens
            /\ tokens \subseteq 0 .. x[2] - 1

\* "Consumers must bound reads by cache_seqlens": a query that reads the page
\* tables for the tokens it sees meets the current slot of each of them, whatever
\* an earlier replay left in the buffers and however the row's tiles are split
\* over programs.
TablesFresh ==
    \A x \in DecodeRows \union VerifyRows : \A c \in 0 .. x[2] - 1 :
        /\ PageTable(x[1], x[3], x[4])[c] = ReqToToken(x[1], c)
        /\ RealTable(x[1], x[3], x[4])[c \div PageSize] = ReqToToken(x[1], c) \div PageSize
=============================================================================
