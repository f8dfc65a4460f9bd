---------------------------- MODULE ResolveRows ----------------------------
(***************************************************************************)
(* The sparse-attention row resolver (torch_ops/dsa_resolve_rows.py): a    *)
(* layer's selected token positions become rows of the paged KV cache.  A  *)
(* position on a resident page has its row; any other one is looked up in  *)
(* the layer's hot tier, a small set of rows tagged with the token and the *)
(* generation they hold, and on a miss the least recently used unprotected *)
(* row is refilled from the host copy.                                     *)
(*                                                                         *)
(* One request is modelled (the kernel's programs of different requests    *)
(* share nothing).  A row's content is the <<layer, token, generation>> it *)
(* holds.  The page tables, the host tier and the fence belong to the KV   *)
(* service the resolver is called by, which is outside the repository.     *)
(***************************************************************************)
EXTENDS Integers, Sequences, FiniteSetsExt, SequencesExt

CONSTANTS Layers,     \* layers of the stacked state: 1 .. n
          PAGE,       \* tokens of a page
          PAGES,      \* pages of the request's table
          K,          \* positions a selection holds
          H,          \* rows of a layer's hot tier
          HotSlots,   \* hot_slots: the GPU page of each hot page, a sequence
          GpuPages,   \* pages of the GPU cache, the hot ones included
          HostPages,  \* pages of the host tier
          Picks,      \* selections a call may be given
          Stacks,     \* stacked selections a batched call may be given
          MaxGen,     \* bound: generations of a page
          MaxClock    \* bound: launches over one layer's state

ASSUME ResolveAssumption ==
    /\ PAGE \in Nat \ {0} /\ PAGES \in Nat /\ GpuPages \in Nat /\ HostPages \in Nat
    /\ PAGE < PAGES * PAGE /\ PAGES <= HostPages
    /\ K \in Nat \ {0} /\ H \in Nat
    /\ HotSlots \in Seq(0 .. GpuPages - 1) /\ H <= Len(HotSlots) * PAGE
    /\ \A m, n \in 1 .. Len(HotSlots) : HotSlots[m] = HotSlots[n] => m = n
    /\ Picks \subseteq [1 .. K -> Int]
    /\ 1 \in Layers /\ Stacks \subseteq [Layers -> [1 .. K -> Int]]

None    == -1
Tokens  == 0 .. PAGES * PAGE - 1
Pages   == 0 .. PAGES - 1
Lanes   == 0 .. H - 1
GpuRows == 0 .. GpuPages * PAGE - 1
HotGpu  == Range(HotSlots)

PageOf(tok) == tok \div PAGE

VARIABLES length,    \* lengths[request]
          resident,  \* GPU page of a page, or None
          backing,   \* host page of a page
          gens,      \* generation of a page
          host,      \* host[p]: the <<page, generation>> whose copy host page p holds
          lost,      \* GPU pages whose fence value is not the expected one
          kv,        \* kv[layer][row]: <<layer, token, generation>>, or Foreign
          hot,       \* hot[layer]: tags, tagGens, ages, clock
          scratch,   \* buffers the caller keeps between calls: bitmap, out, fills
          answer     \* answer[layer]: last call while its tables stand, or NoCall

tables == <<length, resident, backing, gens, host, lost>>
vars   == <<tables, kv, hot, scratch, answer>>

Foreign == <<0, -1, -1>>
NoCall  == [sel |-> <<>>]
Cold    == [tags |-> [h \in Lanes |-> -1], tagGens |-> [h \in Lanes |-> -1],
            ages |-> [h \in Lanes |-> 0], clock |-> 0]
Fresh   == [bitmap |-> {}, out |-> [j \in 1 .. K |-> 0], fills |-> [j \in 1 .. K |-> <<0, 0>>]]

Init ==
    /\ length = PAGE + 1
    /\ resident = [p \in Pages |-> None]
    /\ backing = [p \in Pages |-> p]
    /\ gens = [p \in Pages |-> 0]
    /\ host = [p \in 0 .. HostPages - 1 |-> <<p, 0>>]
    /\ lost = {}
    /\ kv = [l \in Layers |-> [r \in GpuRows |-> Foreign]]
    /\ hot = [l \in Layers |-> Cold]
    /\ scratch = Fresh
    /\ answer = [l \in Layers |-> NoCall]

-----------------------------------------------------------------------------
\* Addresses and tests that the kernel and the oracle have in common.
Valid(tok)       == 0 <= tok /\ tok < length
OnPage(tok)      == Valid(tok) /\ resident[PageOf(tok)] # None
ResidentRow(tok) == (resident[PageOf(tok)] * PAGE) + (tok % PAGE)
HostRow(tok)     == (backing[PageOf(tok)] * PAGE) + (tok % PAGE)
HotPage(slot)    == HotSlots[(slot \div PAGE) + 1]
HotRow(slot)     == (HotPage(slot) * PAGE) + (slot % PAGE)
Fenced(slot)     == HotPage(slot) \notin lost
Padding(tok, allow) == allow /\ tok = -1

\* Lowest element, or H where there is none.
Lowest(S) == IF S = {} THEN H ELSE Min(S)

\* Fault model: a tag hits whatever generation it was filled from.
HitSlotAnyGeneration(w, tok) == Lowest({h \in Lanes : w.tags[h] = tok})

HitSlot(w, tok) ==
    Lowest({h \in Lanes : w.tags[h] = tok /\ w.tagGens[h] = gens[PageOf(tok)]})

\* Lowest lane of the least age among the unprotected ones.
VictimSlot(w) ==
    LET open == {h \in Lanes : ~ w.prot[h]}
    IN  Lowest({h \in open : \A g \in open : w.ages[h] <= w.ages[g]})

\* A launch works on the layer's hot state and the buffers it was handed.
Work(st, buf) ==
    [tags |-> st.tags, tagGens |-> st.tagGens, ages |-> st.ages, clock |-> st.clock + 1,
     prot |-> [h \in Lanes |-> FALSE], out |-> buf.out, fills |-> buf.fills,
     misses |-> 0, hits |-> 0, errors |-> 0]

\* What a call returns and leaves in its state.
Result(w, residents) ==
    [out |-> w.out, fills |-> w.fills, errors |-> w.errors,
     counters |-> <<residents, w.hits, w.misses>>,
     hot |-> [tags |-> w.tags, tagGens |-> w.tagGens, ages |-> w.ages, clock |-> w.clock]]

-----------------------------------------------------------------------------
\* The kernel.

\* Fault model: bits of an earlier launch stay in the reused bitmap.
BitmapKept(sel, buf) == buf.bitmap \union {tok \in Range(sel) : Valid(tok)}

\* Phases 0 and 1 clear the bitmap and mark the valid selected tokens.
Bitmap(sel, buf) == {tok \in Range(sel) : Valid(tok)}

\* Fault model: a stale tag of a selected token is protected as well.
ProtectedStale(st, bits) == [h \in Lanes |-> st.tags[h] >= 0 /\ st.tags[h] \in bits]

\* Phase 2: hot rows that hold a selected token at its current generation.
Protected(st, bits) ==
    [h \in Lanes |-> /\ st.tags[h] >= 0 /\ st.tags[h] \in bits
                     /\ gens[PageOf(st.tags[h])] = st.tagGens[h]]

\* Phase 1: resident rows and masked entries are answered at once.
Classified(sel, buf) ==
    [j \in 1 .. K |-> IF OnPage(sel[j]) THEN ResidentRow(sel[j])
                      ELSE IF Valid(sel[j]) THEN buf.out[j] ELSE -1]

\* The misses are compacted in selection order: each is stored at its prefix
\* count of the misses.
Misses(sel)   == {j \in 1 .. K : Valid(sel[j]) /\ ~ OnPage(sel[j])}
Rank(sel, j)  == Cardinality({k \in Misses(sel) : k <= j})
Worklist(sel) == [i \in 1 .. Cardinality(Misses(sel)) |->
                     CHOOSE j \in Misses(sel) : Rank(sel, j) = i]

\* One iteration of phase 3: hit, or victim; the fence gates every claim.
MissItem(w, j, tok) ==
    LET found == HitSlot(w, tok)
        slot == IF found < H THEN found ELSE VictimSlot(w)
        claim == slot < H
        ok == claim /\ Fenced(slot)
        evict == ok /\ found = H
        at == w.misses + 1
    IN  [w EXCEPT !.tags = IF evict THEN [@ EXCEPT ![slot] = tok] ELSE @,
                  !.tagGens = IF evict THEN [@ EXCEPT ![slot] = gens[PageOf(tok)]] ELSE @,
                  !.ages = IF ok THEN [@ EXCEPT ![slot] = w.clock] ELSE @,
                  !.prot = IF ok THEN [@ EXCEPT ![slot] = TRUE] ELSE @,
                  !.fills = IF evict THEN [@ EXCEPT ![at] = <<HostRow(tok), HotRow(slot)>>] ELSE @,
                  !.misses = IF evict THEN @ + 1 ELSE @,
                  !.hits = IF ok /\ found < H THEN @ + 1 ELSE @,
                  !.errors = IF claim /\ ~ ok THEN @ + 1 ELSE @,
                  !.out[j] = IF ok THEN HotRow(slot) ELSE -1]

\* Phase 3: the walk over the worklist.
MissWalk(start, sel) ==
    LET work == Worklist(sel)
        walk[i \in 0 .. Cardinality(Misses(sel))] ==
            IF i = 0 THEN start ELSE MissItem(walk[i - 1], work[i], sel[work[i]])
    IN  walk[Cardinality(Misses(sel))]

\* Phase 5 clears the fill list behind the entries of this launch.
Drain(w) == [w EXCEPT !.fills = [j \in 1 .. K |-> IF j <= w.misses THEN @[j] ELSE <<0, 0>>]]

\* What phases 1 and 2 hand to the walk.
KernelStart(st, sel, allow, buf) ==
    [Work(st, buf) EXCEPT
        !.prot = Protected(st, Bitmap(sel, buf)),
        !.out = Classified(sel, buf),
        !.errors = Cardinality({j \in 1 .. K : ~ Valid(sel[j]) /\ ~ Padding(sel[j], allow)})]

Residents(sel) == Cardinality({j \in 1 .. K : OnPage(sel[j])})

\* One program of the grid.
Kernel(st, sel, allow, buf) ==
    Result(Drain(MissWalk(KernelStart(st, sel, allow, buf), sel)), Residents(sel))

\* The copy pass of one layer.
Copied(l, res) ==
    LET n == res.counters[3]
        from(r) == host[r \div PAGE]
    IN  [r \in GpuRows |->
            IF \E i \in 1 .. n : res.fills[i][2] = r
            THEN LET f == res.fills[CHOOSE i \in 1 .. n : res.fills[i][2] = r][1]
                 IN  <<l, (from(f)[1] * PAGE) + (f % PAGE), from(f)[2]>>
            ELSE kv[l][r]]

-----------------------------------------------------------------------------
\* The oracle: one scalar walk over the whole selection, with its own search for
\* the first lane that holds the token and for the first of the oldest open lanes.
ReferenceHit(w, tok) ==
    Lowest({h \in Lanes : w.tags[h] = tok /\ w.tagGens[h] = gens[PageOf(tok)]})

ReferenceVictim(w) ==
    LET open == {h \in Lanes : ~ w.prot[h]}
    IN  Lowest({h \in open : \A g \in open : w.ages[h] <= w.ages[g]})

ReferenceItem(w, j, tok, allow) ==
    IF ~ Valid(tok)
    THEN IF Padding(tok, allow) THEN w ELSE [w EXCEPT !.errors = @ + 1]
    ELSE IF OnPage(tok) THEN [w EXCEPT !.out[j] = ResidentRow(tok)]
    ELSE LET found == ReferenceHit(w, tok)
             slot == IF found < H THEN found ELSE ReferenceVictim(w)
             used == [w EXCEPT !.out[j] = HotRow(slot), !.prot[slot] = TRUE, !.ages[slot] = w.clock]
         IN  IF slot = H THEN w
             ELSE IF ~ Fenced(slot) THEN [w EXCEPT !.errors = @ + 1]
             ELSE IF found < H THEN [used EXCEPT !.hits = @ + 1]
             ELSE [used EXCEPT !.fills[w.misses + 1] = <<HostRow(tok), HotRow(slot)>>,
                               !.misses = @ + 1,
                               !.tags[slot] = tok, !.tagGens[slot] = gens[PageOf(tok)]]

ReferenceStart(st, sel) ==
    LET blank == [out |-> [j \in 1 .. K |-> -1], fills |-> [j \in 1 .. K |-> <<0, 0>>]]
        current(h) == st.tags[h] >= 0 /\ gens[PageOf(st.tags[h])] = st.tagGens[h]
        chosen == {tok \in Range(sel) : Valid(tok)}
    IN  [Work(st, blank) EXCEPT !.prot = [h \in Lanes |-> current(h) /\ st.tags[h] \in chosen]]

ReferenceWalk(start, sel, allow) ==
    LET walk[j \in 0 .. K] ==
            IF j = 0 THEN start ELSE ReferenceItem(walk[j - 1], j, sel[j], allow)
    IN  walk[K]

Reference(st, sel, allow) ==
    Result(ReferenceWalk(ReferenceStart(st, sel), sel, allow), Residents(sel))

-----------------------------------------------------------------------------
\* dsa_resolve_rows: a launch over one layer's slice of the state, with the
\* caller's scratch.
Resolve(l, sel, allow) ==
    LET res == Kernel(hot[l], sel, allow, scratch)
    IN  /\ hot[l].clock < MaxClock
        /\ hot' = [hot EXCEPT ![l] = res.hot]
        /\ kv' = [kv EXCEPT ![l] = Copied(l, res)]
        /\ scratch' = [bitmap |-> Bitmap(sel, scratch), out |-> res.out, fills |-> res.fills]
        /\ answer' = [answer EXCEPT ![l] = [sel |-> sel, allow |-> allow, out |-> res.out,
                                            errors |-> res.errors]]
        /\ UNCHANGED tables

\* Every program loads SELECTED + request * K: the layer is no part of the
\* address, so each one reads the first layer's selection.
SelectionOf(stack, l) == stack[1]

\* dsa_resolve_rows_batched: one launch over every layer, with buffers of its
\* own that start with whatever memory they get.
ResolveBatched(stack, allow) ==
    LET res == [l \in Layers |-> Kernel(hot[l], SelectionOf(stack, l), allow, scratch)]
    IN  /\ \A l \in Layers : hot[l].clock < MaxClock
        /\ hot' = [l \in Layers |-> res[l].hot]
        /\ kv' = [l \in Layers |-> Copied(l, res[l])]
        /\ answer' = [l \in Layers |-> [sel |-> stack[l], allow |-> allow, out |-> res[l].out,
                                        errors |-> res[l].errors]]
        /\ UNCHANGED <<tables, scratch>>

\* Batched calls that hand every layer one and the same selection, so that what
\* the kernel resolves is what each layer asked for.
SharedSelections == \A stack \in Stacks, l \in Layers : stack[l] = stack[1]

\* The KV service.  A change of its tables ends the calls made under them.
Service == answer' = [l \in Layers |-> NoCall] /\ UNCHANGED <<hot, scratch>>

\* A decode step appends a token.
Grow ==
    /\ length < PAGES * PAGE /\ length' = length + 1
    /\ Service /\ UNCHANGED <<resident, backing, gens, host, lost, kv>>

\* A page becomes resident: its rows are copied from the host tier.
Promote(p, g) ==
    /\ resident[p] = None /\ g \notin HotGpu /\ g \notin Range(resident)
    /\ resident' = [resident EXCEPT ![p] = g]
    /\ kv' = [l \in Layers |-> [r \in GpuRows |->
                 IF r \div PAGE = g THEN <<l, (p * PAGE) + (r % PAGE), gens[p]>> ELSE kv[l][r]]]
    /\ Service /\ UNCHANGED <<length, backing, gens, host, lost>>

\* A page leaves the GPU.
Demote(p) ==
    /\ resident[p] # None /\ resident' = [resident EXCEPT ![p] = None]
    /\ Service /\ UNCHANGED <<length, backing, gens, host, lost, kv>>

\* A page gets new content on another host page and with it a new generation.
Rewrite(p, b) ==
    /\ resident[p] = None /\ gens[p] < MaxGen /\ b \notin Range(backing)
    /\ gens' = [gens EXCEPT ![p] = @ + 1]
    /\ backing' = [backing EXCEPT ![p] = b]
    /\ host' = [host EXCEPT ![b] = <<p, gens[p] + 1>>]
    /\ Service /\ UNCHANGED <<length, resident, lost, kv>>

\* The lease of a hot page ends: its fence moves and another owner writes it.
Revoke(g) ==
    /\ g \in HotGpu \ lost /\ lost' = lost \union {g}
    /\ kv' = [l \in Layers |-> [r \in GpuRows |->
                 IF r \div PAGE = g THEN Foreign ELSE kv[l][r]]]
    /\ Service /\ UNCHANGED <<length, resident, backing, gens, host>>

\* allow_padding matters to selections with padding only.
Flags(sels) == IF \E sel \in sels : -1 \in Range(sel) THEN BOOLEAN ELSE {FALSE}

Next ==
    \/ \E l \in Layers, sel \in Picks : \E allow \in Flags({sel}) : Resolve(l, sel, allow)
    \/ \E stack \in Stacks : \E allow \in Flags(Range(stack)) : ResolveBatched(stack, allow)
    \/ Grow
    \/ \E p \in Pages : \/ Demote(p)
                        \/ \E g \in 0 .. GpuPages - 1 : Promote(p, g)
                        \/ \E b \in 0 .. HostPages - 1 : Rewrite(p, b)
    \/ \E g \in HotGpu : Revoke(g)

Spec == Init /\ [][Next]_vars

-----------------------------------------------------------------------------
\* A row the attention is handed holds the selected token's key and value at
\* its page's current generation, and a hot page whose lease ended is neither
\* handed out nor written: the fence and the generation tags together keep a
\* revoked, demoted or rewritten page from being read.
RowsHold ==
    /\ \A l \in Layers : answer[l] # NoCall =>
          \A j \in 1 .. K : answer[l].out[j] # -1 =>
             kv[l][answer[l].out[j]] =
                <<l, answer[l].sel[j], gens[PageOf(answer[l].sel[j])]>>
    /\ \A l \in Layers, r \in GpuRows : r \div PAGE \in lost => kv[l][r] = Foreign

\* "Every output row, counter, error, fill pair, and the resulting tags,
\* tag_generations, ages and clock state are required EQUAL": in every state,
\* whatever earlier launches left in the reused buffers and however small the
\* hot tier is, the phased kernel returns for every selection what the oracle's
\* scalar walk returns.
MatchesReference ==
    \A l \in Layers, sel \in Picks : \A allow \in Flags({sel}) :
        Kernel(hot[l], sel, allow, scratch) = Reference(hot[l], sel, allow)

\* The tier has a row for each distinct valid token of the selection.  Nothing
\* in the code asks for it: H >= K would give it, but neither the contract checks
\* nor the tests keep to H >= K.
Fits(sel) == Cardinality({tok \in Range(sel) : Valid(tok)}) <= H

\* "H >= K guarantees a victim after protecting selected hits", made sharp for
\* the tiers the code accepts: a valid token is masked without an error only by
\* a selection of more distinct tokens than the tier has rows.  Whatever stale
\* rows, duplicates and lost leases crowd the tier, every masked answer of any
\* other selection that is not padding is counted as an error.
NothingDropped ==
    \A l \in Layers : answer[l] # NoCall /\ Fits(answer[l].sel) =>
        answer[l].errors = Cardinality({j \in 1 .. K :
            answer[l].out[j] = -1 /\ ~ Padding(answer[l].sel[j], answer[l].allow)})

\* "Bit-exactness is per-state identical to the per-layer path": a batched
\* launch gives every layer what a launch of its own over its own selection
\* would give it.
BatchedPerState ==
    \A stack \in Stacks, l \in Layers :
        Kernel(hot[l], SelectionOf(stack, l), FALSE, scratch)
            = Kernel(hot[l], stack[l], FALSE, scratch)
=============================================================================
