------------------------------ MODULE MCDecoding ------------------------------
(* Small runners for TLC: the plain loop with and without a prefix cache and *)
(* a token buffer, each drafter on an attention-only and a hybrid model.     *)
EXTENDS Decoding

Ids3 == {0, 1, 2}

\* Targets that repeat, alternate, depend on the id before last, and end early.
Targets == {
    [x \in Ids3 \X Ids3 |-> 1],
    [x \in Ids3 \X Ids3 |-> IF x[1] = 1 THEN 2 ELSE 1],
    [x \in Ids3 \X Ids3 |-> (x[1] + x[2]) % 3]}

TwoPrompts == {<<1, 2>>, <<1, 2, 2, 1, 2>>}

Plain == [drafter |-> "none", hybrid |-> FALSE, strict |-> FALSE, prefix |-> FALSE,
          prealloc |-> TRUE, chunk |-> 2, ngram |-> 2, maxDraft |-> 2]
Chat == [Plain EXCEPT !.prefix = TRUE]
Unbuffered == [Chat EXCEPT !.prealloc = FALSE, !.chunk = 0]
Ngram == [Plain EXCEPT !.drafter = "ngram"]
HybridNgram == [Ngram EXCEPT !.hybrid = TRUE, !.chunk = 0]
DraftModelled == [Plain EXCEPT !.drafter = "model"]
Mtp == [Plain EXCEPT !.drafter = "mtp", !.hybrid = TRUE]
StrictMtp == [Mtp EXCEPT !.strict = TRUE, !.chunk = 0]

Runners == {Plain, Chat, Unbuffered, Ngram, HybridNgram, DraftModelled, Mtp, StrictMtp}
ChatRunner == {Unbuffered}
=============================================================================
