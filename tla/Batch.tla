-------------------------------- MODULE Batch --------------------------------
(***************************************************************************)
(* Batched generation (runner/batch.py): N left-padded prompts in lockstep *)
(* through one sweep per token, and the single-sequence loop it must agree *)
(* with.                                                                   *)
(*                                                                         *)
(* A row of the KV cache is the sequence of [id, pos] fed; a sweep attends *)
(* to those the mask has a one for, and its pick is a function of a hash   *)
(* of them, so that a hidden, additional or displaced one shows.  The      *)
(* repetition penalty is off and decoding greedy, as by default; metrics,  *)
(* loading and the residency of layers are left out.                       *)
(***************************************************************************)
EXTENDS Integers, FiniteSets, FiniteSetsExt, SequencesExt

CONSTANTS
    EosId,              \* the end-of-sequence id
    HashTargets,        \* greedy targets: functions from a hash to an id
    Batches,            \* the lists of tokenized prompts a caller may pass
    Pads,               \* the pad id of a tokenizer; EosId when it has none
    Limit               \* bound: max_new_tokens

ASSUME BatchAssumption ==
    /\ EosId \in Nat /\ Pads \subseteq Nat /\ Limit \in Nat
    /\ HashTargets \subseteq [0..6 -> Nat]
    /\ \A b \in Batches : b \in Seq(Seq(Nat))

VARIABLES
    batch,              \* "idle", "prefill", "decode", "returned", "raised"
    target, prompts, pad, batchNew,   \* of this call
    generated,          \* row -> ids, the padding included
    mask,               \* row -> a one for each position that may be attended to
    kv,                 \* row -> what was fed
    finished,           \* rows that have produced an EOS
    results             \* row -> the ids of its completion

call == <<target, prompts, pad, batchNew>>
tensors == <<generated, mask, kv, finished>>
batchVars == <<batch, call, tensors, results>>

RowsOf == DOMAIN prompts
\* prompt_len: all rows are as long as the longest prompt.
Width == Max({Len(prompts[r]) : r \in RowsOf})
Fill(n, x) == [i \in 1..n |-> x]
Padding(r) == Width - Len(prompts[r])

-----------------------------------------------------------------------------
(* The target.                                                             *)

\* position_ids: cumsum(mask) - 1, at least 0.
Position(m, i) == LET n == Cardinality({j \in 1..i : m[j] = 1}) - 1
                  IN  IF n < 0 THEN 0 ELSE n

\* The cache of a row after feeding the ids from column `from` on.
FeedRow(row, ids, m, from) ==
    row \o [i \in 1..(Len(ids) - from + 1) |-> [id |-> ids[from + i - 1], pos |-> Position(m, from + i - 1)]]

\* A hash of the cells of a row that it attends to.
Mixed(h, cell) == (3 * h + cell.id * (cell.pos + 1) + 1) % 7
Hash(row, m) ==
    FoldLeft(LAMBDA h, i : IF m[i] = 1 THEN Mixed(h, row[i]) ELSE h, 0, [i \in DOMAIN row |-> i])

\* The pick of a row.
Pick(row, m) == target[Hash(row, m)]

-----------------------------------------------------------------------------
(* run_batch()                                                             *)

BatchInit ==
    /\ batch = "idle" /\ target \in HashTargets /\ pad \in Pads /\ batchNew \in 0..Limit
    /\ prompts = <<>> /\ generated = <<>> /\ mask = <<>> /\ kv = <<>>
    /\ finished = {} /\ results = <<>>

\* The tokenizer pads on the left.
Encoded ==
    [ids |-> [r \in RowsOf |-> Fill(Padding(r), pad) \o prompts[r]],
     mask |-> [r \in RowsOf |-> Fill(Padding(r), 0) \o Fill(Len(prompts[r]), 1)]]

\* No prompt, no result.
Call ==
    /\ batch = "idle" /\ prompts' \in Batches
    /\ batch' = IF prompts' = <<>> THEN "returned" ELSE "prefill"
    /\ UNCHANGED <<target, pad, batchNew, tensors, results>>

\* Mutant of ExtendMask: the column of a row that is still going is a zero.
ExtendMaskByFinished(m, rows) == [r \in RowsOf |-> Append(m[r], IF r \in rows THEN 1 ELSE 0)]

\* _extend_mask(): what a row gets is attended to, also the padding of a finished one.
ExtendMask(m, rows) == [r \in RowsOf |-> Append(m[r], 1)]

\* A token for each row, the pad id for a finished one; an EOS finishes its row.
Chosen(row, m, done) == [r \in RowsOf |-> IF r \in done THEN pad ELSE Pick(row[r], m[r])]

AppendColumn(ids, m, row) ==
    LET next == Chosen(row, m, finished)
    IN  /\ generated' = [r \in RowsOf |-> Append(ids[r], next[r])]
        /\ mask' = ExtendMask(m, finished)
        /\ finished' = finished \cup {r \in RowsOf : next[r] = EosId}

\* The prompts in one sweep, and a first token unless none is asked for.
BatchPrefill ==
    /\ batch = "prefill"
    /\ LET e == Encoded
           row == [r \in RowsOf |-> FeedRow(<<>>, e.ids[r], e.mask[r], 1)]
       IN  /\ kv' = row
           /\ IF batchNew = 0 THEN generated' = e.ids /\ mask' = e.mask /\ finished' = finished
              ELSE AppendColumn(e.ids, e.mask, row)
    /\ batch' = "decode"
    /\ UNCHANGED <<call, results>>

More == Len(generated[1]) - Width < batchNew /\ batchNew > 0 /\ finished # RowsOf

\* One sweep: the newest column of every row.
Step ==
    /\ batch = "decode" /\ More
    /\ LET row == [r \in RowsOf |-> FeedRow(kv[r], generated[r], mask[r], Len(generated[r]))]
       IN  kv' = row /\ AppendColumn(generated, mask, row)
    /\ UNCHANGED <<batch, call, results>>

Before(ids, id) == CHOOSE n \in 1..Len(ids) : ids[n] = id /\ \A m \in 1..(n - 1) : ids[m] # id

\* _decode_completion(): what comes after the prompt, to the first EOS.
Completion(r) ==
    LET ids == SubSeq(generated[r], Width + 1, Len(generated[r]))
    IN  IF EosId \in Range(ids) THEN SubSeq(ids, 1, Before(ids, EosId)) ELSE ids

Return ==
    /\ batch = "decode" /\ ~More
    /\ results' = [r \in RowsOf |-> Completion(r)] /\ batch' = "returned"
    /\ UNCHANGED <<call, tensors>>

\* A sweep raises: resources are cleaned up and the call has no results.
BatchRaises ==
    /\ batch = "prefill" \/ (batch = "decode" /\ More)
    /\ batch' = "raised"
    /\ UNCHANGED <<call, tensors, results>>

BatchNext == Call \/ BatchPrefill \/ Step \/ Return \/ BatchRaises

BatchSpec == BatchInit /\ [][BatchNext]_batchVars

-----------------------------------------------------------------------------
(* Properties.                                                             *)

Numbered(ids) == [i \in DOMAIN ids |-> [id |-> ids[i], pos |-> i - 1]]

\* SWLPRunner.run() of one prompt: it stops after batchNew ids, or at an EOS that
\* is not the first of them.
Single(prompt) ==
    FoldLeft(LAMBDA ids, n :
                 IF n > 2 /\ Last(ids) = EosId THEN ids
                 ELSE LET fed == prompt \o ids
                      IN  Append(ids, Pick(Numbered(fed), Fill(Len(fed), 1))),
             <<>>, [n \in 1..batchNew |-> n])

\* "every sequence's output stays bit-identical to a batch-1 run": whatever the
\* other rows hold, how far a row is padded and how long it is frozen, its
\* completion is the single run's, but for a first token that is EOS, after which
\* only run() goes on.
RowsIndependent ==
    batch = "returned" => \A r \in RowsOf :
        \/ results[r] = Single(prompts[r])
        \/ results[r] = <<EosId>> /\ Head(Single(prompts[r])) = EosId
=============================================================================
