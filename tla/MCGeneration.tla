----------------------------- MODULE MCGeneration -----------------------------
(* Generation for TLC: the decode loops of a few runners, the tiers of the KV *)
(* cache, a batch, and a conversation over the MLX prompt cache.  Each is     *)
(* checked by itself: in a behaviour only the one in focus moves.             *)
EXTENDS MCDecoding, KVCache, Batch, Conversation

VARIABLE focus

-----------------------------------------------------------------------------
(* Small KV caches: room for one unpacked layer only; INT4 entries over their *)
(* budget; a budget too small for anything; no disk.                          *)

Roomy == [budget |-> 32, window |-> 0, int4 |-> FALSE, tiering |-> TRUE, disk |-> TRUE]
Tiered == {
    Roomy,
    [Roomy EXCEPT !.budget = 10, !.int4 = TRUE],
    [Roomy EXCEPT !.budget = 8, !.window = 2, !.tiering = FALSE],
    [Roomy EXCEPT !.budget = 20, !.disk = FALSE]}

-----------------------------------------------------------------------------
(* No, one, two and three prompts of several lengths; targets that end early, *)
(* late and never.                                                            *)

BatchTargets == {
    [h \in 0..6 |-> h % 3],
    [h \in 0..6 |-> IF h = 4 THEN 0 ELSE 1 + (h % 2)],
    [h \in 0..6 |-> 1 + (h % 2)]}

PromptLists ==
    UNION {[1..n -> {<<1>>, <<2, 1>>, <<1, 0, 2, 2>>}] : n \in 0..2}
    \cup {<<<<2>>, <<1, 1, 1>>, <<2, 2>>>>}

(* Two questions, answers of up to two ids, three lines typed.                *)

Questions == {<<1>>, <<2, 1>>}

-----------------------------------------------------------------------------
\* The components out of focus stay at one of their initial states.
GenerationInit ==
    /\ focus \in {"decoding", "kv", "batch", "chat"}
    /\ Init /\ (focus # "decoding" => config = Plain /\ model[<<1, 1>>] = 1 /\ model[<<0, 0>>] = 1)
    /\ KVInit /\ (focus # "kv" => settings = Roomy /\ new = 1)
    /\ BatchInit /\ (focus # "batch" => target[3] = 0 /\ pad = 0 /\ batchNew = 0)
    /\ ChatInit /\ (focus # "chat" => ~template /\ ~promptCache.on)

GenerationNext ==
    \/ focus = "decoding" /\ Next /\ UNCHANGED <<focus, kvVars, batchVars, chatVars>>
    \/ focus = "kv" /\ KVNext /\ UNCHANGED <<focus, vars, batchVars, chatVars>>
    \/ focus = "batch" /\ BatchNext /\ UNCHANGED <<focus, vars, kvVars, chatVars>>
    \/ focus = "chat" /\ ChatNext /\ UNCHANGED <<focus, vars, kvVars, batchVars>>

GenerationSpec ==
    /\ GenerationInit
    /\ [][GenerationNext]_<<focus, vars, kvVars, batchVars, chatVars>>
    /\ WF_vars(focus = "decoding" /\ (Prefill \/ FirstToken \/ PlainStep \/ SpecStep))
=============================================================================
