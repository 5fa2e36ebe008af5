-------------------------------- MODULE Lists --------------------------------
(***************************************************************************)
(* What Python's sorted(), filters and list.remove() do, in a form that    *)
(* says what each element of the result is.                                *)
(***************************************************************************)
EXTENDS Integers, SequencesExt

\* The elements of a finite set, those that R puts before others first.
InOrder(S, R) ==
    CHOOSE s \in [1..Cardinality(S) -> S] :
        \A i, j \in 1..Cardinality(S) : i < j => <<s[i], s[j]>> \in R
Ascending(S) == InOrder(S, {p \in S \X S : p[1] < p[2]})

\* The elements of a sequence that are in T, in its order.
Kept(s, T) ==
    LET at == Ascending({i \in DOMAIN s : s[i] \in T})
    IN  [k \in DOMAIN at |-> s[at[k]]]

\* The first position of an element of T.
FirstAt(s, T) ==
    CHOOSE i \in DOMAIN s : s[i] \in T /\ \A j \in 1..(i - 1) : s[j] \notin T
RemoveOne(s, x) == IF x \in Range(s) THEN RemoveAt(s, FirstAt(s, {x})) ELSE s
=============================================================================
