----------------------------- MODULE ForwardPass -----------------------------
(***************************************************************************)
(* What the layer loop of SWLPRunner promises the model, whatever streams  *)
(* the weights: every token's forward pass applies each layer once, in     *)
(* order, with that layer's own weights; it may give up, between layers,   *)
(* and then computes nothing more.                                         *)
(***************************************************************************)
EXTENDS Integers, Sequences

CONSTANTS NumLayers, Tokens

VARIABLES
    token,      \* tokens whose forward pass is complete
    hidden,     \* the weights this token's hidden state went through, in order
    status      \* "running", "finished" or "failed"

vars == <<token, hidden, status>>

Init == token = 0 /\ hidden = <<>> /\ status = "running"

ApplyLayer ==
    /\ status = "running" /\ token < Tokens /\ Len(hidden) < NumLayers
    /\ hidden' = Append(hidden, Len(hidden))
    /\ UNCHANGED <<token, status>>

FinishToken ==
    /\ status = "running" /\ token < Tokens /\ Len(hidden) = NumLayers
    /\ token' = token + 1
    /\ hidden' = <<>>
    /\ UNCHANGED status

\* The run ends between tokens, or fails anywhere.
Stop ==
    /\ status = "running"
    /\ \/ status' = "finished" /\ hidden = <<>> /\ token > 0
       \/ status' = "failed"
    /\ UNCHANGED <<token, hidden>>

Next == ApplyLayer \/ FinishToken \/ Stop

Spec == Init /\ [][Next]_vars
=============================================================================
