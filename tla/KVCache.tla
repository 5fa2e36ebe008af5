------------------------------- MODULE KVCache -------------------------------
(***************************************************************************)
(* core/kv_cache.py: KVCacheManager, and core/compressed_cache.py:         *)
(* CompressedDynamicCache, the KV cache whose layers are packed away       *)
(* between two sweeps.  The runner's sweep updates layer after layer and   *)
(* has each one compressed right after its block (runner/swlp.py).         *)
(*                                                                         *)
(* A tensor pair is the set of token positions it holds.  The cache exists *)
(* only with kv_compression, so `compression` is TRUE; device_budget_bytes *)
(* is never passed, so it is the budget.  INT4 rounding is not modelled.   *)
(***************************************************************************)
EXTENDS Integers, Lists

CONSTANTS
    NumLayers,
    Accelerator,    \* the KV tensors live on a device other than the CPU
    CacheConfigs,   \* the manager's other arguments, as below
    RawBytes, PackedBytes, QuantBytes,  \* bytes per token in each form
    MaxFed,         \* bound: new tokens in one sweep
    MaxPos,         \* bound: length of the sequence
    Faults,         \* kinds of disk failure: "spill", "load"
    MaxDiskFaults   \* bound: how many of them

ASSUME KVAssumption ==
    /\ NumLayers \in Nat \ {0}
    /\ {RawBytes, PackedBytes, QuantBytes, MaxFed, MaxPos} \subseteq Nat \ {0}
    /\ Accelerator \in BOOLEAN
    \* budget_bytes; kv_window, 0 for unbounded; kv_quant = "int4"; tiering;
    \* whether a disk_dir is set
    /\ CacheConfigs \subseteq [budget : Nat \ {0}, window : Nat, int4 : BOOLEAN,
                                tiering : BOOLEAN, disk : BOOLEAN]
    /\ Faults \subseteq {"spill", "load"} /\ MaxDiskFaults \in Nat
    /\ MaxFed <= MaxPos

Layers == 0..(NumLayers - 1)
Positions == 1..MaxPos
Tiers == {"device", "host", "compressed", "disk"}

VARIABLES
    settings,   \* the arguments this cache was built with
    manager,    \* KVCacheManager: _entries, its four byte counters, kv_<layer>.pt files
    order,      \* layers by last_access, oldest first
    keys,       \* [Layers -> SUBSET Positions] tensors the cache layer holds
    cold,       \* _cold
    coldLen,    \* _cold_seq_len
    layer,      \* the layer the sweep is at
    stage,      \* what comes next: "update" or "compress" it, or "cleared"
    pos, new,   \* tokens of earlier sweeps, and of this one
    diskFaults  \* how many there were

sweepVars == <<layer, stage, pos, new>>
kvVars == <<settings, manager, order, keys, cold, coldLen, sweepVars, diskFaults>>

\* A layer's spill file: a "torn" one is what a write that raised has left, cut
\* short wherever the disk was full, or nothing when it could not be opened.
FileStates == {"none", "whole", "torn"}

NoEntry == [loc |-> "none", kv |-> {}]
EmptyStore ==
    [entries |-> [l \in Layers |-> NoEntry],
     bytes |-> [t \in Tiers |-> 0],
     files |-> [l \in Layers |-> "none"]]

KVInit ==
    /\ settings \in CacheConfigs
    /\ manager = EmptyStore /\ order = <<>>
    /\ keys = [l \in Layers |-> {}]
    /\ cold = [l \in Layers |-> FALSE] /\ coldLen = [l \in Layers |-> 0]
    /\ layer = 0 /\ stage = "update"
    /\ pos = 0 /\ new \in 1..MaxFed
    /\ diskFaults = 0

-----------------------------------------------------------------------------
(* Entries and counters.                                                   *)

BytesPerToken(loc) ==
    IF loc \in {"compressed", "disk"} THEN PackedBytes
    ELSE IF settings.int4 THEN QuantBytes ELSE RawBytes

Size(e) == Cardinality(e.kv) * BytesPerToken(e.loc)

\* _update_usage_for_entry
Charge(bytes, e, factor) ==
    [t \in Tiers |-> IF t = e.loc THEN bytes[t] + factor * Size(e) ELSE bytes[t]]

Usage(s) == s.bytes["device"] + s.bytes["host"] + s.bytes["compressed"] + s.bytes["disk"]

\* Mutant of Relocate: the entry is not taken out of its old tier's counter.
RelocateOnlyAdds(s, l, loc) ==
    LET e == [s.entries[l] EXCEPT !.loc = loc]
    IN  [s EXCEPT !.entries[l] = e, !.bytes = Charge(s.bytes, e, 1)]

\* An entry changes tier: taken out of one counter, added to another.
Relocate(s, l, loc) ==
    LET e == [s.entries[l] EXCEPT !.loc = loc]
    IN  [s EXCEPT !.entries[l] = e,
                  !.bytes = Charge(Charge(s.bytes, s.entries[l], -1), e, 1)]

HasTensors(s, l) == ~settings.int4 /\ s.entries[l].loc \in {"device", "host"}

Offload(s, l) == IF s.entries[l].loc = "device" THEN Relocate(s, l, "host") ELSE s

Compress(s, l) == IF HasTensors(s, l) THEN Relocate(s, l, "compressed") ELSE s

\* The usage is taken off before the write that may raise; the entry does not get
\* the path of what such a write leaves.
SpillToDisk(s, l, fails) ==
    IF fails THEN [s EXCEPT !.bytes = Charge(@, s.entries[l], -1), !.files[l] = "torn"]
    ELSE [Relocate(s, l, "disk") EXCEPT !.files[l] = "whole"]

\* Mutant of LoadFromDisk: the spill file is not unlinked.
LoadFromDiskKeepsFile(s, l) == Relocate(s, l, "compressed")

\* A spilled entry was a compressed one, and is again.
LoadFromDisk(s, l) == [Relocate(s, l, "compressed") EXCEPT !.files[l] = "none"]

\* The files once those of the entries in E are unlinked: entries on disk alone
\* have a path.
Unlinked(s, E) ==
    [l \in Layers |-> IF l \in E /\ s.entries[l].loc = "disk" THEN "none" ELSE s.files[l]]

-----------------------------------------------------------------------------
(* Budget enforcement, coldest entry first.                                *)

EnforceDeviceBudget(s, lru) ==
    IF ~settings.tiering THEN s
    ELSE FoldLeft(LAMBDA t, l : IF t.bytes["device"] <= settings.budget THEN t
                                ELSE Offload(t, l),
                  s, lru)

\* One entry, over budget: host, then compressed, then at once to disk.
Demote(s, l, bad) ==
    LET packed == Compress(IF settings.tiering THEN Offload(s, l) ELSE s, l)
    IN  IF settings.disk /\ packed.entries[l].loc = "compressed"
        THEN SpillToDisk(packed, l, l \in bad)
        ELSE packed

EnforceBudget(s, lru, bad) ==
    FoldLeft(LAMBDA t, l :
                 IF Usage(t) <= settings.budget \/ t.entries[l].loc = "disk" THEN t
                 ELSE Demote(t, l, bad),
             s, lru)

-----------------------------------------------------------------------------
(* The manager's operations.  `bad` is the set of layers whose spill fails. *)

Touch(l) == Append(Kept(order, Layers \ {l}), l)

Trim(kv) ==
    IF settings.window = 0 THEN kv
    ELSE {p \in kv : Cardinality({q \in kv : q > p}) < settings.window}

\* The store with a new entry in place of the old one and its spill file.
Stored(l, kv) ==
    LET e == [loc |-> IF Accelerator /\ ~settings.int4 THEN "device" ELSE "host", kv |-> kv]
    IN  [manager EXCEPT
            !.entries[l] = e,
            !.bytes = Charge(Charge(@, manager.entries[l], -1), e, 1),
            !.files = Unlinked(manager, {l})]

\* set(l, kv), then both budgets; an INT4 entry stays on the host.
Put(l, kv, bad) ==
    LET s == Stored(l, Trim(kv))
    IN  EnforceBudget(IF settings.int4 THEN s ELSE EnforceDeviceBudget(s, Touch(l)), Touch(l), bad)

\* maybe_evict(l)
MaybeEvict(s, l) == Compress(IF settings.tiering THEN Offload(s, l) ELSE s, l)

\* get(l): up through the tiers to the device, then enforce the budget again,
\* which may demote the very entry being returned.
Fetch(l, loadFails, bad) ==
    LET loaded == IF manager.entries[l].loc = "disk" /\ ~loadFails
                  THEN LoadFromDisk(manager, l) ELSE manager
        host == IF loaded.entries[l].loc = "compressed"
                THEN Relocate(loaded, l, "host") ELSE loaded
    IN  IF settings.int4 THEN manager
        ELSE IF host.entries[l].loc # "host" THEN host
        ELSE EnforceBudget(EnforceDeviceBudget(Relocate(host, l, "device"), Touch(l)),
                           Touch(l), bad)

\* What get() returns: the entry's tensors, if after all that it has any.
Fetched(s, l) == IF settings.int4 \/ HasTensors(s, l) THEN s.entries[l].kv ELSE {}

-----------------------------------------------------------------------------
(* The cache layers, in the order of the sweep.                            *)

\* The failures a call meets: at most one, of a write or of the read.
DiskFaults ==
    {[load |-> FALSE, bad |-> {}]} \cup
    (IF diskFaults = MaxDiskFaults THEN {}
     ELSE (IF "load" \in Faults THEN {[load |-> TRUE, bad |-> {}]} ELSE {}) \cup
          (IF "spill" \in Faults THEN {[load |-> FALSE, bad |-> {l}] : l \in Layers} ELSE {}))

Count(f) == diskFaults' = IF f.load \/ f.bad # {} THEN diskFaults + 1 ELSE diskFaults

\* Mutant of Restored: update() does not decompress a cold layer.
RestoredNever(s) == keys[layer]

\* decompress(): when get() returned None the layer keeps its empty tensors.
Restored(s) == IF cold[layer] THEN Fetched(s, layer) ELSE keys[layer]

\* cache.update(): decompress when cold, then append this sweep's tokens.
Update ==
    /\ stage = "update"
    /\ \E f \in DiskFaults :
        LET s == IF cold[layer] THEN Fetch(layer, f.load, f.bad) ELSE manager
        IN  /\ manager' = s
            /\ order' = IF cold[layer] THEN Touch(layer) ELSE order
            /\ keys' = [keys EXCEPT ![layer] = Restored(s) \cup (pos + 1)..(pos + new)]
            /\ Count(f)
    /\ cold' = [cold EXCEPT ![layer] = FALSE]
    /\ stage' = "compress"
    /\ UNCHANGED <<settings, coldLen, layer, pos, new>>

\* The next layer, or the next sweep.
Advance ==
    IF layer + 1 < NumLayers
    THEN layer' = layer + 1 /\ stage' = "update" /\ UNCHANGED <<pos, new>>
    ELSE /\ layer' = 0 /\ pos' = pos + new
         /\ \/ stage' = "update" /\ new' \in 1..MaxFed /\ pos' + new' <= MaxPos
            \/ stage' = "finished" /\ UNCHANGED new

\* What compress() records as the length of n tokens.
ColdLength(n) == IF settings.window > 0 /\ settings.window < n THEN settings.window ELSE n

\* compress_layer(): hand the tensors to the manager, pack, go cold.
CompressLayer ==
    /\ stage = "compress"
    /\ \E f \in DiskFaults :
        /\ ~f.load
        /\ manager' = MaybeEvict(Put(layer, keys[layer], f.bad), layer)
        /\ Count(f)
    /\ order' = Touch(layer)
    /\ coldLen' = [coldLen EXCEPT ![layer] = ColdLength(Cardinality(keys[layer]))]
    /\ keys' = [keys EXCEPT ![layer] = {}]
    /\ cold' = [cold EXCEPT ![layer] = TRUE]
    /\ Advance
    /\ UNCHANGED settings

\* clear(), at the end of the run or when the run raised.
Clear ==
    /\ stage # "cleared"
    /\ manager' = [EmptyStore EXCEPT !.files = Unlinked(manager, Layers)]
    /\ order' = <<>>
    /\ stage' = "cleared"
    /\ UNCHANGED <<settings, keys, cold, coldLen, layer, pos, new, diskFaults>>

KVNext == Update \/ CompressLayer \/ Clear

KVSpec == KVInit /\ [][KVNext]_kvVars

-----------------------------------------------------------------------------
(* Properties.                                                             *)

Entries == [loc : Tiers \cup {"none"}, kv : SUBSET Positions]

KVTypeOK ==
    /\ settings \in CacheConfigs
    /\ manager \in [entries : [Layers -> Entries], bytes : [Tiers -> Int],
                    files : [Layers -> FileStates]]
    /\ order \in Seq(Layers)
    /\ keys \in [Layers -> SUBSET Positions]
    /\ cold \in [Layers -> BOOLEAN] /\ coldLen \in [Layers -> 0..MaxPos]
    /\ layer \in Layers /\ stage \in {"update", "compress", "finished", "cleared"}
    /\ pos \in 0..MaxPos /\ new \in 1..MaxFed /\ diskFaults \in 0..MaxDiskFaults

\* Token positions layer l has seen, and those its cache still has.
Seen(l) ==
    1..(IF stage = "finished" THEN pos
        ELSE IF l < layer \/ (l = layer /\ stage = "compress") THEN pos + new ELSE pos)
Present(l) == IF cold[l] THEN manager.entries[l].kv ELSE keys[l]

\* core/compressed_cache.py: "decompressed KV is bit-identical".  No layer
\* ever attends over less than it has seen (an unbounded cache, a working disk).
KVBitIdentical ==
    stage # "cleared" /\ settings.window = 0 /\ diskFaults = 0 =>
        \A l \in Layers : Present(l) = Seen(l)

\* That holds as long as one layer's tensors of the earlier sweeps fit in the
\* budget beside the other layers packed, and for INT4 entries always.
Fits == RawBytes * pos + (NumLayers - 1) * PackedBytes * (pos + new) <= settings.budget
CacheLossless == settings.int4 \/ Fits => KVBitIdentical

\* get_seq_length() of a cold layer, from which the attention mask is built,
\* is the length of what the manager holds, in whatever tier and trimmed or not.
LengthTruthful ==
    stage # "cleared" =>
        \A l \in Layers : cold[l] => coldLen[l] = Cardinality(manager.entries[l].kv)

\* A compressed cache returns the keys and values it was given, while a layer's
\* tensors fit its budget; and the length that a cold layer reports is always that
\* of what is held for it (decompress(), compress()).
KVFaithful == CacheLossless /\ LengthTruthful

\* The bytes of the entries in a tier.
Held(s, t) ==
    SumFunction([l \in Layers |-> IF s.entries[l].loc = t THEN Size(s.entries[l]) ELSE 0])

\* Over budget there is nothing left to demote: no entry is left as tensors while
\* the counters exceed the budget.  And the counters can be relied on: they never
\* count a byte that is not held, and what they miss is at most one packed entry
\* for each spill whose write failed after its bytes had been given back.
BudgetEnforced ==
    /\ Usage(manager) > settings.budget => \A l \in Layers : ~HasTensors(manager, l)
    /\ \A t \in Tiers :
           Held(manager, t) - manager.bytes[t] \in 0..(diskFaults * PackedBytes * (pos + new))

\* A whole spill file is there exactly for the entries on disk, also when writes
\* and reads fail and after clear(): none is missing, and none of an entry that
\* was loaded, replaced or cleared stays.  What failed writes have left nothing
\* refers to, and it is at most a file for each of them.
Torn(s) == {l \in Layers : s.files[l] = "torn"}
SpillFilesTracked ==
    /\ \A l \in Layers : manager.files[l] = "whole" <=> manager.entries[l].loc = "disk"
    /\ Cardinality(Torn(manager)) <= diskFaults
=============================================================================
