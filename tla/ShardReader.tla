---------------------------- MODULE ShardReader ----------------------------
(***************************************************************************)
(* How the bytes of a shard file become the tensors of a layer:            *)
(* core/shard_io.py and codec.py as _read_and_deserialize and              *)
(* _upload_to_device of core/streaming.py use them.  A cell stands for a   *)
(* run of bytes: <<l, i>> is the i-th cell of layer l's safetensors image, *)
(* whose first Header cells are its length field and its JSON header.      *)
(* A worker takes a read buffer from the free-list, grows it when the file *)
(* is larger, fills it by reads that may be short, decompresses a .swz     *)
(* file, cuts the payload into views and copies those out before it gives  *)
(* the buffer back.  A buffer that is larger than the file ends with what  *)
(* the previous file left there.  The gate that lets one thread decompress *)
(* at a time orders computations that share nothing and is left out; which *)
(* worker may touch which buffer is StreamingScheduler's BufferOwnership.  *)
(***************************************************************************)
EXTENDS Integers, SequencesExt, Functions

CONSTANTS
  Shards,     \* the layers with a shard file
  Widths,     \* Widths[l]: the cells of each of l's tensors, in file order
  Header,     \* cells of a safetensors header
  MapCompressed,   \* whether a directory that is mapped may hold .swz files
  Damages,    \* what may have happened to one .swz file: "cut", "flip"
  Readers,    \* the threads of the read pool
  MaxReads,   \* bound on the reads of one behaviour
  Junk, Flipped,   \* the content of fresh memory; of a damaged cell
  Unread, Failed   \* a layer not read yet; a read that gave None

VARIABLES
  directIO, \* _direct_io: files are read into buffers, not mapped
  disk,     \* disk[l]: [swz, cells], layer l's file
  pool,     \* _buf_pool: the free buffers, oldest first
  worker,   \* worker[w]: where w is in its read
  loaded,   \* loaded[l]: the tensors of l copied to the device
  reads     \* reads begun

readerVars == <<directIO, disk, pool, worker, loaded, reads>>

Image(l) == [i \in 1..(Header + SumFunction(Widths[l])) |-> <<l, i>>]

(* What a buffer may hold: cells of any file, and what is none. *)
Cells == (Shards \X Int) \cup {Junk, Flipped}

(* compress_bytes: one cell of magic, size and CRC, one with the SHA-256   *)
(* of the payload, and the compressed payload.                             *)
Compressed(image) == LET l == image[1][1] IN <<<<l, 0>>, <<l, -1>>>> \o image

(* decompress_bytes: a blob shorter than its header, with a damaged header *)
(* or with a payload its CRC does not match raises.  The digest is only    *)
(* compared by the offline checks.                                         *)
Decompressed(blob) ==
  IF \E l \in Shards : /\ Len(blob) >= 2 /\ blob[1] = <<l, 0>>
                       /\ SubSeq(blob, 3, Len(blob)) = Image(l)
  THEN SubSeq(blob, 3, Len(blob))
  ELSE Failed

(* The first cell of a payload as the "<Q" of parse_safetensors_views: the *)
(* header's length, or for any other bytes a number beyond every file.     *)
DataStart(payload, size) ==
  IF \E l \in Shards : payload[1] = <<l, 1>> THEN Header ELSE size + 1

(* Where the k-th tensor starts, by the data_offsets of the header. *)
Offset(l, k) ==
  Header + SumFunction([j \in DOMAIN Widths[l] |-> IF j < k THEN Widths[l][j] ELSE 0])

(* parse_safetensors_views(buffer, size): no tensors when the header does  *)
(* not fit in size; a damaged header raises; the offsets of the header are *)
(* applied to the buffer, not to its first size cells, and a tensor that   *)
(* comes out short fails in reshape.                                       *)
Views(payload, size) ==
  IF size = 0 \/ DataStart(payload, size) > size THEN <<>>
  ELSE LET l == payload[1][1]
       IN IF \/ \E i \in 1..Header : payload[i] # <<l, i>>
             \/ Len(payload) < Header + SumFunction(Widths[l])
          THEN Failed
          ELSE [k \in DOMAIN Widths[l] |->
                  SubSeq(payload, Offset(l, k) + 1, Offset(l, k) + Widths[l][k])]

ASSUME ReaderAssumption ==
  /\ Header \in Nat \ {0} /\ MaxReads \in Nat
  /\ \A l \in Shards : Widths[l] \in Seq(Nat \ {0})
  /\ Damages \subseteq {"cut", "flip"}
  /\ Flipped \notin Shards \X Int /\ Unread # Failed /\ Failed \notin Seq(Cells)
  /\ \A l \in Shards : Failed # Views(Image(l), Len(Image(l)))

(* A file damaged: its tail missing, or one cell changed. *)
Damaged(cells) ==
  (IF "cut" \in Damages THEN {SubSeq(cells, 1, n) : n \in 0..Len(cells) - 1} ELSE {})
    \cup (IF "flip" \in Damages
          THEN {[cells EXCEPT ![i] = Flipped] : i \in DOMAIN cells} ELSE {})

Files(l) == {[swz |-> FALSE, cells |-> Image(l)], [swz |-> TRUE, cells |-> Compressed(Image(l))]}

DamagedFiles(l) == {[swz |-> TRUE, cells |-> c] : c \in Damaged(Compressed(Image(l)))}

Idle == [at |-> "idle"]

ReaderInit ==
  /\ directIO \in BOOLEAN
  /\ disk \in {d \in [Shards -> UNION {Files(l) \cup DamagedFiles(l) : l \in Shards}] :
                 /\ \A l \in Shards : d[l] \in Files(l) \cup DamagedFiles(l)
                 /\ Cardinality({l \in Shards : d[l] \in DamagedFiles(l)}) <= 1
                 /\ ~directIO /\ ~MapCompressed => \A l \in Shards : ~d[l].swz}
  /\ pool = <<>>
  /\ worker = [w \in Readers |-> Idle]
  /\ loaded = [l \in Shards |-> Unread]
  /\ reads = 0

(* The start of read_into_tensor: fstat, and a buffer of at least that     *)
(* size, the oldest free one or one allocated.                             *)
Reading(l, free) ==
  LET size == Len(disk[l].cells)
      taken == IF free = <<>> THEN <<>> ELSE Head(free)
  IN [at |-> "read", layer |-> l, old |-> taken, size |-> size, got |-> 0,
      grown |-> Len(taken) < size,
      buffer |-> IF Len(taken) < size THEN [i \in 1..size |-> Junk] ELSE taken]

(* _read_and_deserialize up to the first readinto. *)
OpenBuffered(w, l) ==
  /\ directIO /\ worker[w].at = "idle" /\ reads < MaxReads
  /\ reads' = reads + 1
  /\ worker' = [worker EXCEPT ![w] = Reading(l, pool)]
  /\ pool' = IF pool = <<>> THEN <<>> ELSE Tail(pool)
  /\ UNCHANGED <<directIO, disk, loaded>>

(* The page-cache mode: read_shard_mmap gives the file's own pages, of a   *)
(* compressed file as of a plain one.  An empty file cannot be mapped.     *)
OpenMapped(w, l) ==
  /\ ~directIO /\ worker[w].at = "idle" /\ reads < MaxReads
  /\ reads' = reads + 1
  /\ LET cells == disk[l].cells
     IN IF cells = <<>> \/ Views(cells, Len(cells)) = Failed
        THEN /\ loaded' = [loaded EXCEPT ![l] = Failed]
             /\ UNCHANGED worker
        ELSE /\ worker' = [worker EXCEPT ![w] =
                             [at |-> "upload", layer |-> l, recycle |-> <<>>,
                              views |-> Views(cells, Len(cells))]]
             /\ UNCHANGED loaded
  /\ UNCHANGED <<directIO, disk, pool>>

(* f.readinto(view[got:]): n more cells of the file. *)
Filled(r, n) ==
  [r EXCEPT !.got = @ + n,
            !.buffer = [i \in DOMAIN r.buffer |->
               IF i \in (r.got + 1)..(r.got + n) THEN disk[r.layer].cells[i] ELSE r.buffer[i]]]

(* One more readinto, while anything is left. *)
ReadInto(w) ==
  /\ worker[w].at = "read"
  /\ \E n \in 1..(worker[w].size - worker[w].got) :
       worker' = [worker EXCEPT ![w] = Filled(worker[w], n)]
  /\ UNCHANGED <<directIO, disk, pool, loaded, reads>>

(* A plausible bug, for a mutant: one readinto taken for the whole file. *)
CompleteOnce(r) == r.got > 0 \/ r.size = 0

(* The read loop ends when the file has been read. *)
Complete(r) == r.got = r.size

(* The payload of a completed read: the buffer and what was read of it, or *)
(* what decompression made of those cells.                                 *)
Payload(r) ==
  IF disk[r.layer].swz THEN Decompressed(SubSeq(r.buffer, 1, r.got)) ELSE r.buffer

(* The views of the payload; None when decompressing or parsing raised.    *)
Parsed(r) ==
  LET p == Payload(r)
  IN IF p = Failed THEN Failed
     ELSE Views(p, IF disk[r.layer].swz THEN Len(p) ELSE r.got)

(* The buffer the error path gives back: the one bound when the exception  *)
(* was raised, which before read_shard_payload returned is the one taken   *)
(* from the free-list, and none if there was none.                         *)
GivenBack(r) == IF Payload(r) = Failed /\ r.grown THEN r.old ELSE r.buffer

Put(free, buffer) == IF buffer = <<>> THEN free ELSE Append(free, buffer)

(* The rest of _read_and_deserialize: on to the upload, or None. *)
Deserialize(w) ==
  LET r == worker[w]
  IN /\ r.at = "read" /\ Complete(r)
     /\ IF Parsed(r) = Failed
        THEN /\ pool' = Put(pool, GivenBack(r))
             /\ worker' = [worker EXCEPT ![w] = Idle]
             /\ loaded' = [loaded EXCEPT ![r.layer] = Failed]
        ELSE /\ worker' = [worker EXCEPT ![w] = [at |-> "upload", layer |-> r.layer,
                             recycle |-> r.buffer, views |-> Parsed(r)]]
             /\ UNCHANGED <<pool, loaded>>
     /\ UNCHANGED <<directIO, disk, reads>>

(* _upload_to_device: the copies, then the buffer's return. *)
Upload(w) ==
  /\ worker[w].at = "upload"
  /\ loaded' = [loaded EXCEPT ![worker[w].layer] = worker[w].views]
  /\ pool' = Put(pool, worker[w].recycle)
  /\ worker' = [worker EXCEPT ![w] = Idle]
  /\ UNCHANGED <<directIO, disk, reads>>

ReaderNext ==
  \E w \in Readers :
    \/ \E l \in Shards : OpenBuffered(w, l) \/ OpenMapped(w, l)
    \/ ReadInto(w)
    \/ Deserialize(w)
    \/ Upload(w)

ReaderSpec == ReaderInit /\ [][ReaderNext]_readerVars

-----------------------------------------------------------------------------
(* The state a layer is loaded with is that layer's own tensors, cell by   *)
(* cell, whatever the buffer held before, in however many reads the file   *)
(* arrived and whichever format it is in; and only a damaged .swz file     *)
(* fails to load (shard_io.py:143-145, codec.py:27-32, and the format      *)
(* detection of _shard_path, streaming.py:255).                            *)
OwnTensors ==
  \A l \in Shards :
    /\ loaded[l] \in {Unread, Failed} \/ loaded[l] = Views(Image(l), Len(Image(l)))
    /\ loaded[l] = Failed => disk[l] \notin Files(l)

=============================================================================
