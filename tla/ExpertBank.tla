------------------------------ MODULE ExpertBank ------------------------------
(***************************************************************************)
(* Byte ranges of experts inside files: the banks a pull splits off        *)
(* (model/expert_bank.py), fused v1 layer files, and MLX checkpoints       *)
(* (model/mlx_expert_index.py); and reading one expert by preads that may  *)
(* come back short.                                                        *)
(*                                                                         *)
(* A file is its header length, its tensors in file order and its length;  *)
(* a tensor is [stem, expert, item, shape]: `expert` is -1 for one that    *)
(* stacks all experts, `item` the bytes of an element, 0 for a dtype that  *)
(* is not supported.  A byte read is its position.  Key patterns, the JSON *)
(* of the index and conversions to tensors are left out.                   *)
(***************************************************************************)
EXTENDS Lists, FiniteSetsExt, Functions

CONSTANTS
    BankLayers,         \* the layers of a shard directory
    States,             \* what a layer's state dict may hold: sequences of tensors
    MlxCheckpoints,     \* of a layer of an MLX checkpoint: [file name -> its tensors]
    HeaderLengths,      \* data_start of a file
    Lost, Unreadable,   \* of a file: not there, its header cannot be parsed
    Unbuilt, Error      \* of an index: not built yet, it raised

VARIABLES
    shards,         \* layer -> its files: "bank" and "fused", or those of a checkpoint
    index,          \* ExpertIndex: layer -> slices of each expert; Unbuilt, Error
    read            \* the read_expert() under way, or the last one: [pc, layer, expert, ...]

bankVars == <<shards, index, read>>

StackedStems == {"gate_up_proj", "down_proj", "w1", "w2", "w3"}
SlotOf == [gate_proj |-> "gate", up_proj |-> "up", down_proj |-> "down",
           w1 |-> "gate", w2 |-> "down", w3 |-> "up"]
MlxSlots == {"gate.weight", "gate.scales", "up.weight", "down.weight"}

IsExpert(t) ==
    \/ t.expert >= 0 /\ t.stem \in DOMAIN SlotOf
    \/ t.expert < 0 /\ t.stem \in StackedStems \cup MlxSlots

\* The rows and columns of a matrix, and how many of them there are.
NumRows(t) == t.shape[Len(t.shape) - 1]
NumCols(t) == t.shape[Len(t.shape)]
Matrices(t) == IF Len(t.shape) = 3 THEN t.shape[1] ELSE 1
NBytes(t) == t.item * (IF Len(t.shape) = 1 THEN NumCols(t) ELSE Matrices(t) * NumRows(t) * NumCols(t))

\* data_offsets: tensors follow each other after the header.
Start(f, k) == f.header + SumFunction([i \in DOMAIN f.tensors |-> IF i < k THEN NBytes(f.tensors[i]) ELSE 0])
End(f) == Start(f, Len(f.tensors) + 1)

File(header, tensors) ==
    LET f == [header |-> header, tensors |-> tensors, quant |-> FALSE, length |-> 0]
    IN  [f EXCEPT !.length = End(f)]

\* split_expert_tensors()
ExpertsOf(state) == Kept(state, {t \in Range(state) : IsExpert(t)})
DenseOf(state) == Kept(state, {t \in Range(state) : ~IsExpert(t)})

\* What a projection of an expert is called.
SlotName(t) == IF t.stem \in DOMAIN SlotOf THEN SlotOf[t.stem] ELSE t.stem
ExpertStems == StackedStems \cup MlxSlots \cup DOMAIN SlotOf

\* A dense tensor may have any shape; only its bytes count.  Its key is none of an
\* expert, so its stem here is none of theirs.
IsTensor(t) ==
    /\ t.expert \in Int /\ t.expert >= -1 /\ t.item \in Nat
    /\ t.shape \in Seq(Nat \ {0}) /\ Len(t.shape) \in 1..3
    /\ IsExpert(t) => Len(t.shape) = IF t.expert < 0 THEN 3 ELSE 2
    /\ ~IsExpert(t) => t.expert < 0 /\ t.stem \notin ExpertStems

\* A tensor is in a file once, and so is a projection of an expert.
TensorsOnce(ts) ==
    /\ ts \in Seq(Range(ts)) /\ IsInjective(ts) /\ \A t \in Range(ts) : IsTensor(t)
    /\ \A t, u \in Range(ts) : /\ IsExpert(t) /\ IsExpert(u)
                             /\ t.expert = u.expert /\ SlotName(t) = SlotName(u) => t = u

\* The experts of a layer have one layout: the pair [E, 2I, H] and [E, H, I], three
\* of one size, or a tensor for each expert and projection.
OneLayout(ts) ==
    LET experts == {t \in Range(ts) : IsExpert(t)}
    IN  \/ /\ \A t \in experts : t.expert < 0 /\ t.stem \in {"gate_up_proj", "down_proj"}
           /\ \A g, d \in experts :
                  g.stem = "gate_up_proj" /\ d.stem = "down_proj" =>
                      /\ g.shape[2] % 2 = 0 /\ d.item = g.item
                      /\ d.shape = <<g.shape[1], g.shape[3], g.shape[2] \div 2>>
        \/ /\ \A t \in experts : t.expert < 0 /\ t.stem \in {"w1", "w2", "w3"}
           /\ \A t, u \in experts :
                  /\ t.item = u.item
                  /\ t.shape \in {u.shape, <<u.shape[1], u.shape[3], u.shape[2]>>}
        \/ \A t \in experts : t.expert >= 0

ASSUME BankAssumption ==
    /\ HeaderLengths \subseteq Nat
    /\ \A state \in States : TensorsOnce(state) /\ OneLayout(state)
    /\ \A checkpoint \in MlxCheckpoints :
          /\ IsFiniteSet(DOMAIN checkpoint) /\ "bank" \notin DOMAIN checkpoint
          /\ \A name \in DOMAIN checkpoint :
                /\ TensorsOnce(checkpoint[name])
                /\ \A t \in Range(checkpoint[name]) :
                      IsExpert(t) => t.stem \in MlxSlots /\ t.expert < 0 /\ t.item > 0
          /\ \A n, m \in DOMAIN checkpoint : n # m =>
                \A t \in Range(checkpoint[n]), u \in Range(checkpoint[m]) :
                    IsExpert(t) /\ IsExpert(u) => t.stem # u.stem

-----------------------------------------------------------------------------
(* Indexing.                                                               *)

Slice(file, slot, offset, nbytes, rows, cols) ==
    [file |-> file, slot |-> slot, offset |-> offset, nbytes |-> nbytes, rows |-> rows, cols |-> cols]

\* The tensor of a stem; each stem is in a layer once.
At(f, stem) == CHOOSE k \in DOMAIN f.tensors : f.tensors[k].stem = stem
Has(f, stem) == \E k \in DOMAIN f.tensors : f.tensors[k].stem = stem

\* _stacked_slices() of gate_up_proj [E, 2I, H] and down_proj [E, H, I].
FusedPair(f, name) ==
    LET gu == f.tensors[At(f, "gate_up_proj")]
        inter == gu.shape[2] \div 2
        step == gu.shape[2] * gu.shape[3] * gu.item
        down == gu.shape[3] * inter * gu.item
        base(j) == Start(f, At(f, "gate_up_proj")) + (j - 1) * step
    IN  [j \in 1..gu.shape[1] |->
            <<Slice(name, "gate", base(j), step \div 2, inter, gu.shape[3]),
              Slice(name, "up", base(j) + step \div 2, step \div 2, inter, gu.shape[3]),
              Slice(name, "down", Start(f, At(f, "down_proj")) + (j - 1) * down, down, gu.shape[3], inter)>>]

\* _stacked_slices() of w1, w2, w3.
FusedTriple(f, name) ==
    LET w1 == f.tensors[At(f, "w1")]
        step == w1.shape[2] * w1.shape[3] * w1.item
        slice(j, stem) == Slice(name, SlotOf[stem], Start(f, At(f, stem)) + (j - 1) * step, step,
                                w1.shape[2], w1.shape[3])
    IN  [j \in 1..w1.shape[1] |-> <<slice(j, "w1"), slice(j, "w3"), slice(j, "w2")>>]

\* Of one tensor per expert and projection, in the order of the header.
PerExpert(f, name) ==
    LET of(j) == Ascending({k \in DOMAIN f.tensors : f.tensors[k].expert = j})
        slice(k) == Slice(name, SlotOf[f.tensors[k].stem], Start(f, k), NBytes(f.tensors[k]),
                          NumRows(f.tensors[k]), NumCols(f.tensors[k]))
        count == Max({f.tensors[k].expert : k \in DOMAIN f.tensors}) + 1
    IN  IF \E j \in 0..(count - 1) : Len(of(j)) < 3 THEN Error
        ELSE [j \in 1..count |-> [i \in DOMAIN of(j - 1) |-> slice(of(j - 1)[i])]]

\* _index_safetensors(): <<>> when there is no expert in the file.
IndexFile(f, name) ==
    LET stacked == {k \in DOMAIN f.tensors : IsExpert(f.tensors[k]) /\ f.tensors[k].expert < 0}
        single == {k \in DOMAIN f.tensors : IsExpert(f.tensors[k]) /\ f.tensors[k].expert >= 0}
    IN  IF f.quant THEN Error
        ELSE IF stacked \cup single = {} THEN <<>>
        ELSE IF \E k \in stacked \cup single : f.tensors[k].item = 0 THEN Error
        ELSE IF stacked = {} THEN PerExpert(f, name)
        ELSE IF Has(f, "gate_up_proj") THEN IF Has(f, "down_proj") THEN FusedPair(f, name) ELSE Error
        ELSE IF \A stem \in {"w1", "w2", "w3"} : Has(f, stem) THEN FusedTriple(f, name) ELSE Error

\* ExpertIndex.build(): the bank if there is one, else the layer file; a file whose
\* header cannot be read counts as one without experts.
IndexShards(files) ==
    LET name == IF files["bank"] # Lost THEN "bank" ELSE "fused"
    IN  IF files[name] \in {Lost, Unreadable} THEN <<>> ELSE IndexFile(files[name], name)

\* index_mlx_checkpoint(): every file there is; expert j is block j of each tensor.
IndexMlx(files) ==
    LET there == {name \in DOMAIN files : files[name] # Lost}
        found == {p \in UNION {{<<name, k>> : k \in DOMAIN files[name].tensors} : name \in there} :
                      files[p[1]].tensors[p[2]].stem \in MlxSlots}
        tensor(p) == files[p[1]].tensors[p[2]]
        counts == {tensor(p).shape[1] : p \in found}
        slice(p, n, j) == Slice(p[1], tensor(p).stem, Start(files[p[1]], p[2]) + (j - 1) * (NBytes(tensor(p)) \div n),
                                NBytes(tensor(p)) \div n, NumRows(tensor(p)), NumCols(tensor(p)))
    IN  IF \E name \in there : files[name] = Unreadable THEN Error
        ELSE IF found = {} THEN <<>>
        ELSE IF Cardinality(counts) # 1 \/ ~\E p \in found : tensor(p).stem = "gate.weight" THEN Error
        ELSE LET n == CHOOSE c \in counts : TRUE
             IN  [j \in 1..n |-> [i \in 1..Cardinality(found) |-> slice(SetToSeq(found)[i], n, j)]]

Index(files) == IF "bank" \in DOMAIN files THEN IndexShards(files) ELSE IndexMlx(files)

-----------------------------------------------------------------------------
(* A directory is made, indexed and read.                                  *)

NoRead == [pc |-> "none"]

\* A pull splits each layer; a directory of the v1 format keeps it in one file.
BankInit ==
    /\ \E header \in HeaderLengths :
          \/ \E state \in [BankLayers -> States], split \in BOOLEAN :
                shards = [l \in BankLayers |->
                    IF split /\ ExpertsOf(state[l]) # <<>>
                    THEN [bank |-> File(header, ExpertsOf(state[l])), fused |-> File(header, DenseOf(state[l]))]
                    ELSE [bank |-> Lost, fused |-> File(header, state[l])]]
          \/ \E checkpoint \in [BankLayers -> MlxCheckpoints] :
                shards = [l \in BankLayers |->
                    [name \in DOMAIN checkpoint[l] |-> File(header, checkpoint[l][name])]]
    /\ index = Unbuilt /\ read = NoRead

\* A bank that is not understood raises, and there is no index.
Build ==
    /\ index = Unbuilt
    /\ index' = IF \E l \in BankLayers : Index(shards[l]) = Error THEN Error ELSE [l \in BankLayers |-> Index(shards[l])]
    /\ UNCHANGED <<shards, read>>

Whole(f) == f \notin {Lost, Unreadable} /\ f.length = End(f)

\* A file that is lost, cut short by a byte, or has a broken header: one of a layer,
\* or its bank before that.
DamageBank(l, name) ==
    /\ read = NoRead /\ Whole(shards[l][name])
    /\ \A n \in DOMAIN shards[l] \ {"bank"} : Whole(shards[l][n])
    /\ \E bad \in {Lost, Unreadable, [shards[l][name] EXCEPT !.length = @ - 1]} :
          shards' = [shards EXCEPT ![l][name] = bad]
    /\ UNCHANGED <<index, read>>

\* A file is opened when its first slice is read.
Opened(l, j, slices, out) ==
    [pc |-> IF shards[l][slices[1].file] = Lost THEN "raised" ELSE "reading",
     layer |-> l, expert |-> j, slices |-> slices, out |-> out,
     offset |-> slices[1].offset, buf |-> <<>>]

\* read_expert()
OpenExpert(l, j) ==
    /\ index \notin {Unbuilt, Error} /\ read = NoRead /\ j \in DOMAIN index[l]
    /\ read' = Opened(l, j, index[l][j], <<>>)
    /\ UNCHANGED <<shards, index>>

Slot == Head(read.slices)
\* A file whose header is damaged still has its other bytes.
Available == LET f == shards[read.layer][Slot.file]
             IN  IF f = Unreadable THEN Slot.nbytes ELSE f.length - read.offset
Wanted == Slot.nbytes - Len(read.buf)

\* Mutant of Pread: a short read leaves the rest of the buffer as it is.
PreadOnce ==
    /\ read.pc = "reading" /\ Wanted > 0
    /\ \E n \in {m \in {1, Wanted} : m <= Available} :
          read' = [read EXCEPT !.offset = @ + n,
                               !.buf = [i \in 1..Slot.nbytes |-> IF i <= n THEN read.offset + i - 1 ELSE 0]]
    /\ UNCHANGED <<shards, index>>

\* pread() returns what is asked for, or less.
Pread ==
    /\ read.pc = "reading" /\ Wanted > 0
    /\ \E n \in {m \in {1, Wanted} : m <= Available} :
          read' = [read EXCEPT !.offset = @ + n, !.buf = @ \o [i \in 1..n |-> read.offset + i - 1]]
    /\ UNCHANGED <<shards, index>>

ShortPread ==
    /\ read.pc = "reading" /\ Wanted > 0 /\ Available <= 0
    /\ read' = [read EXCEPT !.pc = "raised"]
    /\ UNCHANGED <<shards, index>>

SlotRead ==
    /\ read.pc = "reading" /\ Wanted = 0
    /\ LET matrix == [rows |-> Slot.rows, cols |-> Slot.cols, bytes |-> read.buf]
           out == [slot \in DOMAIN read.out \cup {Slot.slot} |->
                       IF slot = Slot.slot THEN matrix ELSE read.out[slot]]
           rest == Tail(read.slices)
       IN  read' = IF rest = <<>> THEN [read EXCEPT !.pc = "returned", !.out = out, !.slices = rest]
                   ELSE Opened(read.layer, read.expert, rest, out)
    /\ UNCHANGED <<shards, index>>

CloseExpert == read.pc \in {"raised", "returned"} /\ read' = NoRead /\ UNCHANGED <<shards, index>>

BankNext ==
    \/ Build
    \/ \E l \in BankLayers : \/ \E name \in DOMAIN shards[l] : DamageBank(l, name)
                         \/ \E j \in 1..8 : OpenExpert(l, j)
    \/ Pread \/ ShortPread \/ SlotRead \/ CloseExpert

BankSpec == BankInit /\ [][BankNext]_bankVars

-----------------------------------------------------------------------------
(* Properties.                                                             *)

\* Row-major: the positions of rows `first` to `last` of expert j in a tensor.
Rows(f, k, j, first, last) ==
    LET t == f.tensors[k]
        row == NumCols(t) * t.item
        before == (IF t.expert < 0 THEN (j - 1) * NumRows(t) ELSE 0) + first
    IN  [i \in 1..((last - first + 1) * row) |-> Start(f, k) + before * row + i - 1]

\* What the tensors of a file say a projection of expert j is.
Reference(f, j, slot) ==
    IF Has(f, "gate_up_proj")
    THEN LET gu == At(f, "gate_up_proj")  inter == f.tensors[gu].shape[2] \div 2
         IN  CASE slot = "gate" -> Rows(f, gu, j, 0, inter - 1)
               [] slot = "up" -> Rows(f, gu, j, inter, 2 * inter - 1)
               [] slot = "down" -> Rows(f, At(f, "down_proj"), j, 0, f.tensors[gu].shape[3] - 1)
    ELSE LET k == CHOOSE m \in DOMAIN f.tensors :
                      /\ IsExpert(f.tensors[m]) /\ f.tensors[m].expert \in {-1, j - 1}
                      /\ slot = SlotName(f.tensors[m])
         IN  Rows(f, k, j, 0, NumRows(f.tensors[k]) - 1)

\* An expert that is returned has in each slot the bytes of its own matrix, in
\* their order, whatever the layout, the header and the preads; or the read
\* raises (read_expert(), _read_range()).
OwnMatrices ==
    read.pc = "returned" =>
        LET slices == index[read.layer][read.expert]
        IN  \A i \in DOMAIN slices :
                LET f == shards[read.layer][slices[i].file]  got == read.out[slices[i].slot]
                IN  f # Unreadable =>
                        /\ got.bytes = Reference(f, read.expert, slices[i].slot)
                        /\ Len(got.bytes) % (got.rows * got.cols) = 0

SliceBytes(s) == {s.file} \X (s.offset .. (s.offset + s.nbytes - 1))
TensorBytes(files, n, k) == {n} \X (Start(files[n], k) .. (Start(files[n], k + 1) - 1))

Places(slices) == UNION {{<<j, i>> : i \in DOMAIN slices[j]} : j \in DOMAIN slices}
FilesOf(slices) == {slices[p[1]][p[2]].file : p \in Places(slices)}

\* The slices of a layer share no byte, and no byte of an expert tensor is in none.
Partitioned(files, slices) ==
    /\ \A p, q \in Places(slices) :
          p # q => SliceBytes(slices[p[1]][p[2]]) \cap SliceBytes(slices[q[1]][q[2]]) = {}
    /\ UNION {SliceBytes(slices[p[1]][p[2]]) : p \in Places(slices)} =
       UNION {UNION {TensorBytes(files, n, k) :
                         k \in {m \in DOMAIN files[n].tensors : IsExpert(files[n].tensors[m])}} :
              n \in FilesOf(slices)}

\* So it is with every index: the steps of _stacked_slices() and
\* index_mlx_checkpoint() add up to the tensors.
BankPartitioned ==
    index \notin {Unbuilt, Error} =>
        \A l \in BankLayers :
            (\A n \in FilesOf(index[l]) : Whole(shards[l][n])) => Partitioned(shards[l], index[l])

\* Both: a read returns the bytes of its expert and an index leaves none out.
OwnBytes == OwnMatrices /\ BankPartitioned
=============================================================================
