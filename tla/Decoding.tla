------------------------------ MODULE Decoding ------------------------------
(***************************************************************************)
(* How token ids are produced: SWLPRunner.run() and _generate_remaining()  *)
(* (runner/swlp.py), SpeculativeRunner with its three drafters             *)
(* (runner/speculative.py, core/speculative.py, runner/draft.py,           *)
(* runner/mtp.py, runner/hybrid_rollback.py), the prefix KV cache          *)
(* (core/prefix_cache.py) and the token buffer (core/decode_cache.py).     *)
(*                                                                         *)
(* The layers of the KV cache move together and are one sequence of        *)
(* [id, pos]: the token fed and the rotary position it was fed at; `lin`   *)
(* is what the recurrent layers of a hybrid model have absorbed.  The      *)
(* target is a function of the last two ids.  Its greedy pick is that of   *)
(* the function when the cache holds the context at its positions, and any *)
(* id when it does not.  What a draft model proposes is arbitrary.         *)
(***************************************************************************)
EXTENDS Integers, SequencesExt

CONSTANTS
    Vocab, Eos,     \* token ids; the end-of-sequence id
    Models,         \* greedy targets: a set of functions [Vocab \X Vocab -> Vocab]
    Prompts,        \* tokenized prompts of a first turn
    Configs,        \* runners, as below
    MinHit,         \* min_length of a prefix lookup
    Margin,         \* what the token buffer holds beyond max_new_tokens
    Every,          \* snapshot_every
    MaxEntries, MaxBytes,   \* the prefix cache's bounds, bytes in tokens
    MaxNew,         \* bound: max_new_tokens of a run
    MaxTurns,       \* bound: runs of one runner
    MaxFaults       \* bound: failures of a sweep, a crop or a store

ASSUME DecodingAssumption ==
    /\ Models \subseteq [Vocab \X Vocab -> Vocab]
    /\ Prompts \subseteq Seq(Vocab) \ {<<>>}
    \* _generate_remaining's drafter, "none" for the plain loop; recurrent
    \* layers; swlp_strict; a prefix cache attached; swlp_prealloc_buffer;
    \* swlp_prefill_chunk, 0 for none; swlp_spec_ngram, swlp_spec_max_draft
    /\ Configs \subseteq [drafter : {"none", "ngram", "model", "mtp"}, hybrid : BOOLEAN,
                           strict : BOOLEAN, prefix : BOOLEAN, prealloc : BOOLEAN,
                           chunk : Nat, ngram : Nat \ {0}, maxDraft : Nat]
    \* chat.py attaches the cache to the plain runner; swlp.py asks for a
    \* Llama-like adapter and an exact DynamicCache.
    /\ \A c \in Configs : c.prefix => c.drafter = "none" /\ ~c.hybrid
    /\ {Every, MaxEntries, MaxBytes} \subseteq Nat \ {0}
    /\ {MinHit, Margin, MaxNew, MaxTurns, MaxFaults} \subseteq Nat

VARIABLES
    config, model,      \* the runner's configuration and target
    store,              \* prefix cache: its _bytes and its entries [ids, kv],
                        \* least recently created first
    buffer,             \* capacity of the token buffer, 0 before there is one
    turn, faults,
    phase,              \* "idle", "prefill", "first", "decode", "store"
    prompt, maxNew,     \* this run's prompt ids and max_new_tokens
    hit,                \* length of the prefix the cache was seeded with
    gen,                \* `generated`: the ids after that prefix
    left,               \* how many of them prefill has still to feed
    past,               \* the KV cache: [att, lin]
    emitted,            \* ids streamed to the client
    drafter,            \* [k, ids, kv, pending, committed] of the drafter
    degraded            \* a degradation was recorded

runner == <<config, model>>
cache == <<store, buffer>>
run == <<prompt, maxNew, hit>>
vars == <<runner, cache, run, turn, faults, phase, gen, left, past, emitted, drafter, degraded>>

EmptyPast == [att |-> <<>>, lin |-> <<>>]
NewDrafter == [k |-> config.maxDraft, ids |-> <<>>, kv |-> <<>>,
               pending |-> <<>>, committed |-> <<>>]

Init ==
    /\ config \in Configs /\ model \in Models
    /\ store = [entries |-> <<>>, bytes |-> 0] /\ buffer = 0
    /\ turn = 0 /\ faults = 0 /\ phase = "idle"
    /\ prompt = <<>> /\ maxNew = 0 /\ hit = 0
    /\ gen = <<>> /\ left = 0 /\ past = EmptyPast /\ emitted = <<>>
    /\ drafter = NewDrafter /\ degraded = FALSE

Take(s, n) == SubSeq(s, 1, n)
Drop(s, n) == SubSeq(s, n + 1, Len(s))
Least(a, b) == IF a < b THEN a ELSE b

\* The ids the cache should stand for: the seeded prefix, then `generated`.
Context == Take(prompt, hit) \o gen

-----------------------------------------------------------------------------
(* The target.                                                             *)

\* A sweep over `ids` from rotary position `offset` on.
Feed(p, ids, offset) ==
    [att |-> p.att \o [i \in DOMAIN ids |-> [id |-> ids[i], pos |-> offset + i - 1]],
     lin |-> IF config.hybrid THEN p.lin \o ids ELSE p.lin]

Labelled(ids) == [i \in DOMAIN ids |-> [id |-> ids[i], pos |-> i - 1]]
Truthful(p, ids) == p.att = Labelled(ids) /\ (config.hybrid => p.lin = ids)

Greedy(ids) == model[<<IF Len(ids) = 1 THEN ids[1] ELSE ids[Len(ids) - 1], Last(ids)>>]

\* The greedy pick after `ids`, from a sweep that leaves the cache as p.
Picks(p, ids) == IF Truthful(p, ids) THEN {Greedy(ids)} ELSE Vocab

-----------------------------------------------------------------------------
(* The prefix cache.                                                       *)

\* An entry lookup() may return: a proper prefix, long enough.
Usable(e, ids) ==
    Len(e.ids) < Len(ids) /\ Len(e.ids) >= MinHit /\ e.ids = Take(ids, Len(e.ids))

\* The longest of them.
Lookup(ids) ==
    {e \in Range(store.entries) : /\ Usable(e, ids)
                            /\ \A f \in Range(store.entries) : Usable(f, ids) => Len(f.ids) <= Len(e.ids)}

Bytes(es) == FoldLeft(LAMBDA n, e : n + Len(e.kv), 0, es)

\* while too many or too large: drop the least recently created.
Evicted(c) ==
    LET Enough(n) == /\ Len(c.entries) - n <= MaxEntries
                     /\ c.bytes - Bytes(Take(c.entries, n)) <= MaxBytes
        n == CHOOSE n \in 0..Len(c.entries) : Enough(n) /\ \A m \in 0..(n - 1) : ~Enough(m)
    IN  [entries |-> Drop(c.entries, n), bytes |-> c.bytes - Bytes(Take(c.entries, n))]

\* The entries of these ids, and the others.
Split(es, ids) ==
    FoldLeft(LAMBDA s, e : IF e.ids = ids THEN [s EXCEPT !.same = Append(@, e)]
                           ELSE [s EXCEPT !.other = Append(@, e)],
             [same |-> <<>>, other |-> <<>>], es)

\* _insert(): an entry over the budget is refused, one of the same ids replaced.
Insert(c, e) ==
    IF Len(e.kv) > MaxBytes THEN c
    ELSE LET s == Split(c.entries, e.ids)
         IN  Evicted([entries |-> Append(s.other, e),
                      bytes |-> c.bytes - Bytes(s.same) + Len(e.kv)])

\* Mutant of SnapshotLengths: a cache longer than its ids is stored, too.
SnapshotLengthsAny(ids, kv) ==
    [i \in 1..((Len(kv) - 1) \div Every + 1) |-> Least(i * Every, Len(kv))]

\* store() refuses a cache longer than its ids; its snapshots are the multiples
\* of snapshot_every and the whole, shortest first.
SnapshotLengths(ids, kv) ==
    IF ids = <<>> \/ Len(kv) > Len(ids) THEN <<>>
    ELSE [i \in 1..((Len(kv) - 1) \div Every + 1) |-> Least(i * Every, Len(kv))]

Store(ids, kv, lengths) ==
    FoldLeft(LAMBDA c, n : Insert(c, [ids |-> Take(ids, Least(n, Len(ids))), kv |-> Take(kv, n)]),
             store, lengths)

-----------------------------------------------------------------------------
(* run(): set up, prefill, the first token.                                *)

Fault == faults < MaxFaults /\ faults' = faults + 1

\* seed_dynamic_cache(), and the prompt loses what the cache now covers.
Seeded(e, p) ==
    hit' = Len(e.ids) /\ past' = [EmptyPast EXCEPT !.att = e.kv] /\ gen' = Drop(p, Len(e.ids))

\* A new conversation, or the last one and another token.
Start ==
    /\ phase = "idle" /\ turn < MaxTurns
    /\ \E p \in Prompts \cup (IF turn = 0 THEN {}
                              ELSE {Append(prompt \o emitted, t) : t \in Vocab}) :
        /\ prompt' = p
        /\ IF config.prefix /\ Lookup(p) # {}
           THEN LET e == CHOOSE e \in Lookup(p) : TRUE
                IN  /\ store' = [store EXCEPT !.entries = Append(Split(@, e.ids).other, e)]
                    /\ Seeded(e, p)
           ELSE store' = store /\ hit' = 0 /\ past' = EmptyPast /\ gen' = p
    /\ left' = Len(gen')
    /\ maxNew' \in 0..MaxNew
    /\ buffer' = IF config.prealloc /\ buffer = 0 THEN maxNew' + Margin ELSE buffer
    /\ turn' = turn + 1 /\ phase' = "prefill"
    /\ emitted' = <<>> /\ drafter' = NewDrafter /\ degraded' = FALSE
    /\ UNCHANGED <<runner, faults>>

\* Mutant of Chunk: only whole slices are fed.
ChunkWhole(n) == IF config.chunk = 0 THEN n ELSE IF n < config.chunk THEN 0 ELSE config.chunk

\* The next slice of the prompt: all of it, or swlp_prefill_chunk ids.
Chunk(n) == IF config.chunk = 0 THEN n ELSE Least(config.chunk, n)

Offset == hit + Len(gen) - left

Prefill ==
    /\ phase = "prefill"
    /\ LET n == Chunk(left)
       IN  /\ past' = Feed(past, SubSeq(gen, Len(gen) - left + 1, Len(gen) - left + n), Offset)
           /\ left' = left - n
           /\ phase' = IF left' = 0 THEN "first" ELSE "prefill"
    /\ UNCHANGED <<runner, cache, run, turn, faults, gen, emitted, drafter, degraded>>

\* Positions the last prefill sweep computed: what MTP's first extend() gets.
LastChunk(n) == IF config.chunk = 0 THEN n ELSE ((n - 1) % config.chunk) + 1

\* extend(): hidden states of the positions from `at` on, each with the next id.
Extend(d, at, ids) ==
    [d EXCEPT !.pending = @ \o [i \in DOMAIN ids |-> [at |-> at + i - 1, next |-> ids[i]]]]

\* The first token is not compared with EOS, and on the plain path everything
\* is copied into the token buffer, which raises when it does not fit.
FirstToken ==
    /\ phase = "first"
    /\ IF maxNew = 0
       THEN phase' = "store" /\ UNCHANGED <<gen, emitted, drafter>>
       ELSE \E t \in Picks(past, Context) :
                /\ gen' = Append(gen, t) /\ emitted' = <<t>>
                /\ phase' = IF config.drafter = "none" /\ config.prealloc /\ Len(gen') > buffer
                            THEN "idle" ELSE IF maxNew = 1 THEN "store" ELSE "decode"
                /\ drafter' = IF config.drafter # "mtp" THEN drafter
                              ELSE LET n == LastChunk(Len(gen))
                                   IN  Extend(drafter, Len(gen) - n, Drop(gen', Len(gen') - n))
    /\ UNCHANGED <<runner, cache, run, turn, faults, left, past, degraded>>

-----------------------------------------------------------------------------
(* _generate_remaining() of SWLPRunner: one sweep per token.               *)

\* append() of a full buffer silently returns what it holds.
Appended(t) == IF config.prealloc /\ Len(gen) >= buffer THEN gen ELSE Append(gen, t)

PlainStep ==
    /\ phase = "decode" /\ config.drafter = "none"
    \* position_offset is the length of `generated`, not of the context.
    /\ past' = Feed(past, <<Last(gen)>>, Len(gen) - 1)
    /\ \E t \in Picks(past', Context) :
        /\ gen' = Appended(t) /\ emitted' = Append(emitted, t)
        /\ phase' = IF Len(emitted') = maxNew \/ t = Eos THEN "store" ELSE "decode"
    /\ UNCHANGED <<runner, cache, run, turn, faults, left, drafter, degraded>>

-----------------------------------------------------------------------------
(* Drafters.                                                               *)

\* NgramDrafter.propose(): the longest context first, its latest occurrence.
NgramDraft(ids) ==
    LET Occurs(n, i) == /\ n < Len(ids) /\ i <= Len(ids) - n
                        /\ SubSeq(ids, i, i + n - 1) = Drop(ids, Len(ids) - n)
        found == {m \in (1..config.ngram) \X (1..Len(ids)) : Occurs(m[1], m[2])}
        best == CHOOSE m \in found : \A o \in found :
                    o[1] < m[1] \/ (o[1] = m[1] /\ o[2] <= m[2])
    IN  IF found = {} \/ config.maxDraft = 0 THEN <<>>
        ELSE SubSeq(ids, best[1] + best[2], Least(best[1] + best[2] + config.maxDraft - 1, Len(ids)))

\* _sync_cache(): the longest common prefix, short of the last confirmed token.
Agreement(ids, cached) == Least(Len(ids) - 1, Len(LongestCommonPrefix({ids, cached})))

\* Mutant of DraftModel: the last draft is taken to be in the cache, too.
DraftModelAll(d, drafted, cropFails) ==
    LET keep == IF cropFails THEN 0 ELSE Agreement(gen, d.ids)
    IN  [d EXCEPT !.kv = Take(@, keep) \o Drop(gen, keep) \o Front(drafted), !.ids = gen \o drafted]

\* DraftModelDrafter.propose(): crop, or start over when that raises; feed the
\* confirmed ids the cache lacks, and every draft but the last.
DraftModel(d, drafted, cropFails) ==
    LET keep == IF cropFails THEN 0 ELSE Agreement(gen, d.ids)
        fed == Front(drafted)
    IN  [d EXCEPT !.kv = Take(@, keep) \o Drop(gen, keep) \o fed, !.ids = gen \o fed]

\* MtpDrafter.propose(): the pending pairs join its cache, the drafts are cropped.
MtpDraft(d) == [d EXCEPT !.committed = @ \o d.pending, !.pending = <<>>]

\* What propose() may return, and the drafter after it.
Proposals ==
    IF config.drafter = "ngram" THEN {[draft |-> NgramDraft(gen), after |-> drafter]}
    ELSE IF drafter.k = 0 \/ (config.drafter = "mtp" /\ drafter.pending = <<>>)
         THEN {[draft |-> <<>>, after |-> drafter]}
    ELSE IF config.drafter = "model"
         THEN {[draft |-> d, after |-> DraftModel(drafter, d, f)] :
                  d \in [1..drafter.k -> Vocab],
                  f \in IF Agreement(gen, drafter.ids) \in {0, Len(drafter.ids)}
                        THEN {FALSE} ELSE BOOLEAN}
    ELSE {[draft |-> d, after |-> MtpDraft(drafter)] : d \in [1..drafter.k -> Vocab]}

\* AdaptiveDraftLength.observe()
Observed(d, proposed, accepted) ==
    IF config.drafter = "ngram" \/ proposed = 0 THEN d
    ELSE [d EXCEPT !.k = IF accepted >= proposed THEN Least(@ * 2, config.maxDraft)
                         ELSE IF accepted * 2 >= proposed THEN Least(@ + 1, config.maxDraft)
                         ELSE IF @ \div 2 > 1 THEN @ \div 2 ELSE 1]

-----------------------------------------------------------------------------
(* _generate_remaining() of SpeculativeRunner: one sweep per draft.        *)

\* verify_greedy(): how many draft tokens the target's picks confirm.
Accepted(draft, picks) ==
    CHOOSE n \in 0..Len(draft) :
        /\ \A i \in 1..n : picks[i] = draft[i]
        /\ n = Len(draft) \/ picks[n + 1] # draft[n + 1]

\* ...and what is appended: those and one token of the target.
NewTokens(draft, picks) ==
    LET n == Accepted(draft, picks) IN Append(Take(draft, n), picks[n + 1])

\* Mutant of Rollback: keeps one position too few.
RollbackShort(fed, keep, n) == [fed EXCEPT !.att = Take(@, Len(past.att) + keep - 1)]

\* The cache after `keep` of n fed positions are kept.  A hybrid cache drops
\* the rest of its attention positions and recomputes the recurrent state; a
\* plain one is cropped to an absolute length.
Rollback(fed, keep, n) ==
    IF keep = n THEN fed
    ELSE IF config.hybrid
         THEN [att |-> Take(fed.att, Len(fed.att) - (n - keep)), lin |-> Take(fed.lin, Len(past.lin) + keep)]
         ELSE [fed EXCEPT !.att = Take(@, Least(Len(@), Len(gen) - 1 + keep))]

\* A rollback that raises has changed nothing, or not the recurrent state.
FailedRollbacks(fed, keep, n) ==
    IF keep = n THEN {}
    ELSE {fed} \cup (IF config.hybrid THEN {[fed EXCEPT !.att = Rollback(fed, keep, n).att]} ELSE {})

\* The greedy picks at every position of a verification sweep.
TargetPicks(draft) ==
    IF Truthful(past, Front(gen))
    THEN {[i \in 1..(Len(draft) + 1) |-> Greedy(gen \o Take(draft, i - 1))]}
    ELSE [1..(Len(draft) + 1) -> Vocab]

\* new_tokens up to EOS.
UpToEos(ids) ==
    IF Eos \in Range(ids) THEN Take(ids, CHOOSE i \in DOMAIN ids :
                                   ids[i] = Eos /\ Eos \notin Range(Take(ids, i - 1)))
    ELSE ids

\* A step adds one token of the target: the draft is cut to remaining - 1.
Capped(draft) == Take(draft, Least(Len(draft), maxNew - Len(emitted) - 1))

\* _verify_step() up to the rollback: what each proposal and the target can give.
Verifications ==
    UNION {LET draft == Capped(p.draft)
           IN  {[n |-> Len(draft) + 1, kept |-> Accepted(draft, picks) + 1,
                 new |-> NewTokens(draft, picks), after |-> p.after,
                 fed |-> Feed(past, <<Last(gen)>> \o draft, Len(gen) - 1)] :
                picks \in TargetPicks(draft)} :
           p \in Proposals}

SpecStep ==
    /\ phase = "decode" /\ config.drafter # "none"
    /\ \E v \in Verifications :
        /\ \/ /\ past' = Rollback(v.fed, v.kept, v.n)
              /\ UNCHANGED <<degraded, faults>>
           \/ /\ Fault /\ degraded' = TRUE
              /\ past' \in FailedRollbacks(v.fed, v.kept, v.n)
        /\ IF degraded' # degraded /\ config.strict
           THEN phase' = "idle" /\ UNCHANGED <<gen, emitted, drafter>>
           ELSE /\ gen' = gen \o UpToEos(v.new) /\ emitted' = emitted \o UpToEos(v.new)
                /\ drafter' = IF config.drafter = "mtp"
                              THEN Extend(Observed(v.after, v.n - 1, v.kept - 1), Len(gen) - 1, v.new)
                              ELSE Observed(v.after, v.n - 1, v.kept - 1)
                /\ phase' = IF Len(emitted') >= maxNew \/ Eos \in Range(v.new)
                            THEN "store" ELSE "decode"
    /\ UNCHANGED <<runner, cache, run, turn, left>>

-----------------------------------------------------------------------------
(* The end of a run.                                                       *)

\* A snapshot of what was fed, labelled with the ids of the whole sequence; an
\* exception in between is logged, and the run ends as if there were none.
Finish ==
    /\ phase = "store" /\ phase' = "idle"
    /\ IF ~config.prefix \/ past.att = <<>> THEN UNCHANGED <<store, faults>>
       ELSE LET ids == Take(Context, Least(Len(past.att), Len(Context)))
                lengths == SnapshotLengths(ids, past.att)
            IN  \E n \in 0..Len(lengths) :
                    /\ IF n = Len(lengths) THEN UNCHANGED faults ELSE Fault
                    /\ store' = Store(ids, past.att, Take(lengths, n))
    /\ UNCHANGED <<runner, buffer, run, turn, gen, left, past, emitted, drafter, degraded>>

\* A sweep raises: run() cleans up and gives up (or asks the baseline runner).
SweepRaises ==
    /\ phase \in {"prefill", "decode"} /\ Fault
    /\ phase' = "idle"
    /\ UNCHANGED <<runner, cache, run, turn, gen, left, past, emitted, drafter, degraded>>

Next == Start \/ Prefill \/ FirstToken \/ PlainStep \/ SpecStep \/ Finish \/ SweepRaises

\* run() is one thread that keeps going once called.
Spec == Init /\ [][Next]_vars
        /\ WF_vars(Prefill \/ FirstToken \/ PlainStep \/ SpecStep)

-----------------------------------------------------------------------------
(* Properties.                                                             *)

Ids == Seq(Vocab)
KV == Seq([id : Vocab, pos : Nat])

TypeOK ==
    /\ config \in Configs /\ model \in Models
    /\ store \in [entries : Seq([ids : Ids, kv : KV]), bytes : Int] /\ buffer \in Nat
    /\ turn \in 0..MaxTurns /\ faults \in 0..MaxFaults
    /\ phase \in {"idle", "prefill", "first", "decode", "store"}
    /\ prompt \in Ids /\ maxNew \in 0..MaxNew /\ hit \in 0..Len(prompt)
    /\ gen \in Ids /\ left \in 0..Len(gen) /\ emitted \in Ids
    /\ past \in [att : KV, lin : Ids] /\ degraded \in BOOLEAN
    /\ drafter \in [k : 0..config.maxDraft, ids : Ids, kv : Ids,
                    pending : Seq([at : Nat, next : Vocab]),
                    committed : Seq([at : Nat, next : Vocab])]

\* The first n ids greedy decoding of the target alone gives after `ids`.
GreedyRun(ids, n) ==
    LET g[i \in 0..n] == IF i = 0 THEN <<>> ELSE Append(g[i - 1], Greedy(ids \o g[i - 1]))
    IN  g[n]

\* No append() met a full token buffer.
BufferSufficed == Len(Context) = Len(prompt) + Len(emitted)

\* Nothing after an EOS but when it is the first token; all there is at the end.
Complete ==
    /\ \A i \in 2..(Len(emitted) - 1) : emitted[i] # Eos
    /\ phase = "store" => \/ Len(emitted) = maxNew
                          \/ Len(emitted) \in 2..maxNew /\ Last(emitted) = Eos

\* core/speculative.py: "identical to what greedy decoding of the target model
\* alone would produce"; runner/mtp.py, runner/hybrid_rollback.py and
\* core/prefix_cache.py rest on the same.  Whatever is drafted, rolled back,
\* chunked or seeded, the ids streamed are those, unless a degradation was
\* recorded, the buffer was full, or the ids follow the first one of a run that
\* began with a prefix hit.
Lossless ==
    LET seed == Take(past.att, hit)
    IN  /\ ~degraded /\ BufferSufficed
        /\ hit = 0 \/ (Len(emitted) <= 1 /\ seed = Labelled(Take(prompt, hit)))
        => emitted = GreedyRun(prompt, Len(emitted)) /\ Complete

\* runner/swlp.py at the lookup: "Lossless: identical prefixes produce
\* bitwise-identical KV under greedy decode."
PrefixReuseLossless == ~degraded /\ BufferSufficed => emitted = GreedyRun(prompt, Len(emitted))

\* core/prefix_cache.py: a snapshot's ids cover exactly its KV, also when the run
\* that stored it began with a hit or overran its buffer; no ids are stored twice;
\* and the cache is "bounded in BOTH entry count and bytes", the bytes counted
\* being those held.
SnapshotsLabelled ==
    /\ \A e \in Range(store.entries) : e.ids = [i \in DOMAIN e.kv |-> e.kv[i].id]
    /\ Cardinality({e.ids : e \in Range(store.entries)}) = Len(store.entries)
    /\ store.bytes = Bytes(store.entries) /\ store.bytes <= MaxBytes
    /\ Len(store.entries) <= MaxEntries

\* A draft model's cache covers the ids it is believed to, however drafts were
\* cut; and each hidden state queued for or fed to the MTP head is paired with
\* the confirmed id after it, up to the last one, none twice.
DrafterHonest ==
    /\ drafter.kv = drafter.ids
    /\ phase = "decode" /\ config.drafter = "mtp" =>
           LET pairs == drafter.committed \o drafter.pending
           IN  \A i \in DOMAIN pairs :
                   /\ pairs[i].at = Len(gen) - 1 - (Len(pairs) - i + 1)
                   /\ pairs[i].next = gen[pairs[i].at + 2]

\* Every generation ends: each slice of the prompt, and each sweep whether or not
\* a draft is confirmed, gets it further.
GenerationEnds == phase = "prefill" ~> phase \in {"store", "idle"}
=============================================================================
