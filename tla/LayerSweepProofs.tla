-------------------------- MODULE LayerSweepProofs --------------------------
(***************************************************************************)
(* The safety of the two-stage prefetch pipeline, for every number of      *)
(* layers, buffers, residents and faults, and every order of API calls;    *)
(* and the layer loop over it: it inherits that safety, keeps the          *)
(* documented bound on device memory and, when no apply fails, implements  *)
(* the in-order forward pass.                                              *)
(***************************************************************************)
EXTENDS LayerSweep, FiniteSetTheorems, TLAPS

-----------------------------------------------------------------------------
(* A queue seen as the set of its elements.                                *)

\* An empty queue.
LEMMA EmptyQueue == Range(<<>>) = {} /\ NoRepeats(<<>>)
BY DEF Range, NoRepeats

\* put() and submit(): one more element, at the end.
LEMMA AppendQueue ==
    ASSUME NEW S, NEW q \in Seq(S), NEW e \in S, NoRepeats(q), e \notin Range(q)
    PROVE  /\ Append(q, e) \in Seq(S)
           /\ NoRepeats(Append(q, e))
           /\ Range(Append(q, e)) = Range(q) \cup {e}
<1> DEFINE n == Len(q)
           a == Append(q, e)
<1>1. /\ n \in Nat /\ DOMAIN q = 1..n /\ DOMAIN a = 1..(n + 1) /\ Len(a) = n + 1
      /\ a \in Seq(S) /\ a[n + 1] = e /\ \A i \in 1..n : a[i] = q[i]
  OBVIOUS
<1> HIDE DEF n, a
<1>2. \A i \in 1..(n + 1) : i = n + 1 \/ i \in 1..n
  BY <1>1
<1>3. \A i \in 1..n : i \in 1..(n + 1) /\ q[i] # e
  BY <1>1 DEF Range
<1>4. NoRepeats(a)
  BY <1>1, <1>2, <1>3 DEF NoRepeats
<1>5. Range(a) = Range(q) \cup {e}
  <2>1. n + 1 \in 1..(n + 1)
    BY <1>1
  <2> QED
    BY <1>1, <1>2, <1>3, <2>1 DEF Range
<1> QED
  BY <1>1, <1>4, <1>5 DEF a

\* get_nowait() and a worker's next job: one element less, the first.
LEMMA TailQueue ==
    ASSUME NEW S, NEW q \in Seq(S), q # <<>>, NoRepeats(q)
    PROVE  /\ Head(q) \in S /\ Tail(q) \in Seq(S)
           /\ Head(q) \in Range(q)
           /\ NoRepeats(Tail(q))
           /\ Range(Tail(q)) = Range(q) \ {Head(q)}
<1>1. /\ Head(q) = q[1] /\ Head(q) \in S /\ Tail(q) \in Seq(S)
      /\ Len(q) \in Nat \ {0} /\ DOMAIN q = 1..Len(q)
      /\ Len(Tail(q)) = Len(q) - 1 /\ DOMAIN Tail(q) = 1..Len(Tail(q))
      /\ \A i \in 1..Len(Tail(q)) : Tail(q)[i] = q[i + 1]
  OBVIOUS
<1>2. NoRepeats(Tail(q))
  BY <1>1 DEF NoRepeats
<1>3. Range(Tail(q)) = Range(q) \ {Head(q)}
  <2>1. ASSUME NEW x \in Range(Tail(q)) PROVE x \in Range(q) \ {Head(q)}
    <3>1. PICK i \in 1..Len(Tail(q)) : x = q[i + 1]
      BY <1>1, <2>1 DEF Range
    <3>2. i + 1 \in 1..Len(q) /\ i + 1 # 1 /\ 1 \in 1..Len(q)
      BY <1>1
    <3>3. QED
      BY <1>1, <3>1, <3>2 DEF Range, NoRepeats
  <2>2. ASSUME NEW x \in Range(q), x # Head(q) PROVE x \in Range(Tail(q))
    <3>1. PICK i \in 1..Len(q) : x = q[i]
      BY <1>1, <2>2 DEF Range
    <3>2. i - 1 \in 1..Len(Tail(q)) /\ q[i] = Tail(q)[i - 1]
      BY <1>1, <2>2, <3>1
    <3>3. QED
      BY <1>1, <3>1, <3>2 DEF Range
  <2>3. QED
    BY <2>1, <2>2
<1>4. Head(q) \in Range(q)
  BY <1>1 DEF Range
<1>5. QED
  BY <1>1, <1>2, <1>3, <1>4

\* Elements of a queue.
LEMMA QueueRange == ASSUME NEW S, NEW q \in Seq(S) PROVE Range(q) \subseteq S
BY DEF Range

-----------------------------------------------------------------------------

\* A read worker starts a job: what BeginRead does for any layer whose job is
\* about to read.
LEMMA BeginReadFacts ==
    ASSUME TypeOK, BufferOwnership, NEW l \in Layers, NEW s \in Stage,
           held[l] = None, BeginRead(l, s)
    PROVE  /\ BufferOwnership'
           /\ free' \in Seq(Buffers)
           /\ held'[l] \in Buffers \cup {None} /\ (held'[l] # None => DirectIO)
           /\ held' \in [Layers -> Buffers \cup {None}]
           /\ \A i \in Layers : i # l => held'[i] = held[i]
           /\ held'[l] # None => held'[l] \in Range(free)
           /\ bytes' \in [Buffers -> Layers \cup {Torn}]
           /\ \A b \in Buffers : b # held'[l] => bytes'[b] = bytes[b]
<1>1. CASE DirectIO /\ free # <<>>
  <2>1. /\ Head(free) \in Buffers /\ Tail(free) \in Seq(Buffers)
        /\ Head(free) \in Range(free) /\ NoRepeats(Tail(free))
        /\ Range(Tail(free)) = Range(free) \ {Head(free)}
    BY <1>1, TailQueue DEF TypeOK, BufferOwnership
  <2>2. /\ held' = [held EXCEPT ![l] = Head(free)] /\ held'[l] = Head(free)
        /\ free' = Tail(free)
    BY <1>1, <2>1 DEF BeginRead, TypeOK
  <2>3. \A i \in Layers : held'[i] \notin Range(free')
    BY <2>1, <2>2 DEF TypeOK, BufferOwnership
  <2>4. ASSUME NEW i \in Layers, NEW j \in Layers,
               held'[i] = held'[j], held'[i] # None
        PROVE  i = j
    BY <2>1, <2>2, <2>4 DEF TypeOK, BufferOwnership
  <2>5. BufferOwnership'
    BY <2>1, <2>2, <2>3, <2>4 DEF BufferOwnership
  <2>6. QED
    BY <1>1, <2>1, <2>2, <2>5, NoneAssumption DEF BeginRead, TypeOK
<1>2. CASE ~(DirectIO /\ free # <<>>)
  BY <1>2 DEF BeginRead, TypeOK, BufferOwnership
<1>3. QED
  BY <1>1, <1>2

\* A job's storage is filled: it alone holds it, and no other payload changes.
LEMMA FinishReadFacts ==
    ASSUME TypeOK, BufferOwnership, NEW l \in Layers, NEW s \in Stage,
           FinishRead(l, s)
    PROVE  /\ BufferOwnership'
           /\ held' \in [Layers -> Buffers \cup {None}]
           /\ bytes' \in [Buffers -> Layers \cup {Torn}]
           /\ DirectIO => held'[l] # None /\ bytes'[held'[l]] = l
           /\ ~DirectIO => held'[l] = None
           /\ \A i \in Layers : i # l => held'[i] = held[i]
           /\ \A i \in Layers : i # l /\ held[i] # None
                                  => bytes'[held[i]] = bytes[held[i]]
<1>1. PICK b \in Storage(l) :
        /\ held' = [held EXCEPT ![l] = b]
        /\ bytes' = IF b = None THEN bytes ELSE [bytes EXCEPT ![b] = l]
        /\ free' = free
  BY DEF FinishRead
<1>2. /\ b \in Buffers \cup {None} /\ (DirectIO <=> b # None)
      /\ b # None => b \notin Range(free)
      /\ \A i \in Layers : i # l /\ b # None => held[i] # b
  <2>1. \A i \in Layers : held[i] \in Held \cup {None}
    BY DEF TypeOK, Held, Range
  <2>2. CASE DirectIO /\ held[l] = None
    BY <1>1, <2>1, <2>2, NoneAssumption DEF Storage, LiveBuffers
  <2>3. CASE DirectIO /\ held[l] # None
    BY <1>1, <2>3 DEF Storage, TypeOK, BufferOwnership
  <2>4. CASE ~DirectIO
    BY <1>1, <2>4 DEF Storage
  <2>5. QED
    BY <2>2, <2>3, <2>4
<1>3. /\ held' \in [Layers -> Buffers \cup {None}]
      /\ bytes' \in [Buffers -> Layers \cup {Torn}]
      /\ held'[l] = b /\ \A i \in Layers : i # l => held'[i] = held[i]
      /\ b # None => bytes'[b] = l
  BY <1>1, <1>2 DEF TypeOK
<1>4. \A i \in Layers : i # l /\ held[i] # None
                           => bytes'[held[i]] = bytes[held[i]]
  BY <1>1, <1>2 DEF TypeOK
<1>5. BufferOwnership'
  <2>1. None \notin Range(free)
    BY QueueRange, NoneAssumption DEF TypeOK
  <2>2. \A i \in Layers : held'[i] \notin Range(free')
    BY <1>1, <1>2, <1>3, <2>1 DEF BufferOwnership
  <2>3. ASSUME NEW i \in Layers, NEW j \in Layers,
               held'[i] = held'[j], held'[i] # None
        PROVE  i = j
    BY <1>2, <1>3, <2>3 DEF BufferOwnership
  <2>4. QED
    BY <1>1, <2>2, <2>3 DEF BufferOwnership
<1>6. QED
  BY <1>2, <1>3, <1>4, <1>5

\* A job gives its buffer, or one it allocated, to the free-list.
LEMMA RecycleFacts ==
    ASSUME TypeOK, BufferOwnership, NEW l \in Layers,
           held' = [held EXCEPT ![l] = None],
           \/ free' = Recycled(l)
           \/ held[l] = None /\ \E b \in Buffers \ LiveBuffers : free' = Append(free, b)
    PROVE  /\ BufferOwnership'
           /\ free' \in Seq(Buffers)
           /\ held' \in [Layers -> Buffers \cup {None}] /\ held'[l] = None
           /\ \A i \in Layers : i # l => held'[i] = held[i]
<1>1. /\ held' \in [Layers -> Buffers \cup {None}] /\ held'[l] = None
      /\ \A i \in Layers : i # l => held'[i] = held[i]
  BY DEF TypeOK
<1>2. None \notin Range(free)
  BY QueueRange, NoneAssumption DEF TypeOK
<1>3. CASE free' = free
  BY <1>1, <1>2, <1>3 DEF TypeOK, BufferOwnership
<1>4. ASSUME NEW b \in Buffers, free' = Append(free, b), b \notin Range(free),
             \A i \in Layers : i # l => held[i] # b
      PROVE  BufferOwnership' /\ free' \in Seq(Buffers)
  <2>1. /\ free' \in Seq(Buffers) /\ NoRepeats(free')
        /\ Range(free') = Range(free) \cup {b}
    BY <1>4, AppendQueue DEF TypeOK, BufferOwnership
  <2>2. \A i \in Layers : held'[i] \notin Range(free')
    BY <1>1, <1>2, <1>4, <2>1, NoneAssumption DEF BufferOwnership
  <2>3. QED
    BY <1>1, <2>1, <2>2 DEF BufferOwnership
<1>5. CASE held[l] # None /\ free' = Append(free, held[l])
  BY <1>4, <1>5 DEF TypeOK, BufferOwnership
<1>6. ASSUME NEW b \in Buffers \ LiveBuffers, free' = Append(free, b)
      PROVE  BufferOwnership' /\ free' \in Seq(Buffers)
  <2>1. \A i \in Layers : held[i] \in Held \cup {None}
    BY DEF TypeOK, Held, Range
  <2>2. QED
    BY <1>4, <1>6, <2>1, NoneAssumption DEF LiveBuffers
<1>7. QED
  BY <1>1, <1>3, <1>5, <1>6 DEF Recycled, TypeOK

\* A read worker picks a job off the queue.
LEMMA ReadBeginKeeps == IInv /\ ReadBegin => IInv'
<1> SUFFICES ASSUME IInv, ReadBegin PROVE IInv'
  OBVIOUS
<1> DEFINE l == Head(readQ)
<1>1. /\ l \in Layers /\ stage[l] = "queued" /\ l \in Range(readQ)
      /\ readQ' \in Seq(Layers) /\ NoRepeats(readQ')
      /\ Range(readQ') = Range(readQ) \ {l}
  BY TailQueue DEF IInv, TypeOK, QueueInv, ReadBegin
<1>2. held[l] = None /\ BeginRead(l, "reading") /\ stage' = [stage EXCEPT ![l] = "reading"]
  BY <1>1 DEF IInv, PayloadInv, ReadBegin, BeginRead
<1>3. /\ BufferOwnership' /\ free' \in Seq(Buffers)
      /\ held'[l] \in Buffers \cup {None} /\ (held'[l] # None => DirectIO)
      /\ held' \in [Layers -> Buffers \cup {None}]
      /\ \A i \in Layers : i # l => held'[i] = held[i]
      /\ held'[l] # None => held'[l] \in Range(free)
      /\ bytes' \in [Buffers -> Layers \cup {Torn}]
      /\ \A b \in Buffers : b # held'[l] => bytes'[b] = bytes[b]
  BY <1>1, <1>2, BeginReadFacts DEF IInv, Stage
<1>4. UNCHANGED <<result, uploadQ, futures, loaded, residentData, block, enabled, pools, call, arg, state, outcome, faults>>
  BY DEF ReadBegin, BeginRead, callVars
<1> HIDE DEF l
<1>5. TypeOK'
  BY <1>1, <1>2, <1>3, <1>4 DEF IInv, TypeOK, Stage
<1>6. QueueInv'
  BY <1>1, <1>2, <1>4 DEF IInv, TypeOK, QueueInv
<1>7. PayloadInv'
  BY <1>1, <1>2, <1>3 DEF IInv, TypeOK, PayloadInv, BufferOwnership
<1>8. TensorInv'
  BY <1>1, <1>2, <1>4 DEF IInv, TypeOK, TensorInv
<1>9. CallInv' /\ FutureInv'
  BY <1>1, <1>2, <1>4 DEF IInv, TypeOK, CallInv, FutureInv, NoOrphanJob
<1>10. PoolInv'
  BY <1>1, <1>2, <1>4, EmptyQueue DEF IInv, TypeOK, PoolInv
<1> QED
  BY <1>3, <1>5, <1>6, <1>7, <1>8, <1>9, <1>10 DEF IInv

\* A read ends and its callback submits the upload.
LEMMA ReadEndKeeps == ASSUME NEW l \in Layers PROVE IInv /\ ReadEnd(l) => IInv'
<1> SUFFICES ASSUME IInv, ReadEnd(l) PROVE IInv'
  OBVIOUS
<1>1. /\ stage[l] = "reading" /\ stage' = [stage EXCEPT ![l] = "uploadQueued"]
      /\ UNCHANGED <<result, readQ, free, futures, loaded, residentData, block,
                     enabled, pools, call, arg, state, outcome, faults>>
  BY DEF ReadEnd, FinishRead, callVars
<1>2. /\ BufferOwnership'
      /\ held' \in [Layers -> Buffers \cup {None}]
      /\ bytes' \in [Buffers -> Layers \cup {Torn}]
      /\ DirectIO => held'[l] # None /\ bytes'[held'[l]] = l
      /\ ~DirectIO => held'[l] = None
      /\ \A i \in Layers : i # l => held'[i] = held[i]
      /\ \A i \in Layers : i # l /\ held[i] # None
                             => bytes'[held[i]] = bytes[held[i]]
  BY FinishReadFacts DEF IInv, ReadEnd, Stage
<1>3. /\ uploadQ' \in Seq(Layers) /\ NoRepeats(uploadQ')
      /\ Range(uploadQ') = Range(uploadQ) \cup {l}
  BY <1>1, AppendQueue DEF IInv, TypeOK, QueueInv, ReadEnd
<1>4. TypeOK'
  BY <1>1, <1>2, <1>3 DEF IInv, TypeOK, Stage
<1>5. QueueInv'
  BY <1>1, <1>3 DEF IInv, TypeOK, QueueInv
<1>6. PayloadInv'
  BY <1>1, <1>2 DEF IInv, TypeOK, PayloadInv
<1>7. TensorInv'
  BY <1>1 DEF IInv, TypeOK, TensorInv
<1>8. CallInv' /\ FutureInv' /\ PoolInv'
  BY <1>1 DEF IInv, TypeOK, CallInv, FutureInv, NoOrphanJob, PoolInv
<1> QED
  BY <1>2, <1>4, <1>5, <1>6, <1>7, <1>8 DEF IInv

\* A read fails: its buffer is back, its future resolved with nothing.
LEMMA ReadFailsKeeps == ASSUME NEW l \in Layers PROVE IInv /\ ReadFails(l) => IInv'
<1> SUFFICES ASSUME IInv, ReadFails(l) PROVE IInv'
  OBVIOUS
<1>1. /\ stage[l] = "reading" /\ stage' = [stage EXCEPT ![l] = "empty"]
      /\ faults' \in 0..MaxFaults
      /\ UNCHANGED <<result, readQ, uploadQ, bytes, futures, loaded,
                     residentData, block, enabled, pools, call, arg, state,
                     outcome>>
  BY SizeAssumption DEF ReadFails, FailRead, callVars, May, IInv, TypeOK
<1>2. /\ BufferOwnership' /\ free' \in Seq(Buffers)
      /\ held' \in [Layers -> Buffers \cup {None}] /\ held'[l] = None
      /\ \A i \in Layers : i # l => held'[i] = held[i]
  <2>1. Storage(l) \ {None} \subseteq IF held[l] = None THEN Buffers \ LiveBuffers ELSE {held[l]}
    BY DEF Storage
  <2>2. QED
    BY <2>1, RecycleFacts DEF IInv, ReadFails, FailRead
<1>3. TypeOK'
  BY <1>1, <1>2 DEF IInv, TypeOK, Stage
<1>4. QueueInv' /\ PayloadInv'
  BY <1>1, <1>2 DEF IInv, TypeOK, QueueInv, PayloadInv
<1>5. TensorInv' /\ CallInv'
  BY <1>1 DEF IInv, TypeOK, TensorInv, CallInv
<1>6. FutureInv' /\ PoolInv'
  BY <1>1 DEF IInv, TypeOK, FutureInv, NoOrphanJob, PoolInv
<1> QED
  BY <1>2, <1>3, <1>4, <1>5, <1>6 DEF IInv

\* An upload worker picks a payload off its queue.
LEMMA UploadBeginKeeps == IInv /\ UploadBegin => IInv'
<1> SUFFICES ASSUME IInv, UploadBegin PROVE IInv'
  OBVIOUS
<1> DEFINE l == Head(uploadQ)
<1>1. /\ l \in Layers /\ stage[l] = "uploadQueued"
      /\ uploadQ' \in Seq(Layers) /\ NoRepeats(uploadQ')
      /\ Range(uploadQ') = Range(uploadQ) \ {l}
  BY TailQueue DEF IInv, TypeOK, QueueInv, UploadBegin
<1>2. /\ stage' = [stage EXCEPT ![l] = "uploading"]
      /\ uploadQ # <<>>
      /\ UNCHANGED <<held, result, readQ, free, bytes, futures, loaded,
                     residentData, block, enabled, pools, call, arg, state,
                     outcome, faults>>
  BY DEF UploadBegin, callVars
<1> HIDE DEF l
<1>3. TypeOK'
  BY <1>1, <1>2 DEF IInv, TypeOK, Stage
<1>4. BufferOwnership' /\ QueueInv'
  BY <1>1, <1>2 DEF IInv, TypeOK, BufferOwnership, QueueInv
<1>5. PayloadInv' /\ TensorInv'
  BY <1>1, <1>2 DEF IInv, TypeOK, PayloadInv, TensorInv
<1>6. CallInv' /\ FutureInv' /\ PoolInv'
  BY <1>1, <1>2 DEF IInv, TypeOK, CallInv, FutureInv, NoOrphanJob, PoolInv
<1> QED
  BY <1>3, <1>4, <1>5, <1>6 DEF IInv

\* A copy ends: the tensors are in the future, the buffer is back.
LEMMA UploadEndKeeps == ASSUME NEW l \in Layers PROVE IInv /\ UploadEnd(l) => IInv'
<1> SUFFICES ASSUME IInv, UploadEnd(l) PROVE IInv'
  OBVIOUS
<1>1. /\ stage[l] = "uploading" /\ stage' = [stage EXCEPT ![l] = "ready"]
      /\ result' = [result EXCEPT ![l] = Payload(l)]
      /\ UNCHANGED <<readQ, uploadQ, bytes, futures, loaded, residentData,
                     block, enabled, pools, call, arg, state, outcome, faults>>
  BY DEF UploadEnd, callVars
<1>2. Payload(l) = l
  BY <1>1 DEF IInv, PayloadInv, Payload
<1>3. /\ BufferOwnership' /\ free' \in Seq(Buffers)
      /\ held' \in [Layers -> Buffers \cup {None}] /\ held'[l] = None
      /\ \A i \in Layers : i # l => held'[i] = held[i]
  BY RecycleFacts DEF IInv, UploadEnd
<1>4. TypeOK'
  BY <1>1, <1>2, <1>3 DEF IInv, TypeOK, Stage, Weights
<1>5. QueueInv' /\ PayloadInv'
  BY <1>1, <1>3 DEF IInv, TypeOK, QueueInv, PayloadInv
<1>6. TensorInv' /\ CallInv'
  BY <1>1, <1>2 DEF IInv, TypeOK, TensorInv, CallInv
<1>7. FutureInv' /\ PoolInv'
  BY <1>1 DEF IInv, TypeOK, FutureInv, NoOrphanJob, PoolInv
<1> QED
  BY <1>3, <1>4, <1>5, <1>6, <1>7 DEF IInv

\* A copy fails: no tensors, and the buffer is back all the same.
LEMMA UploadFailsKeeps == ASSUME NEW l \in Layers PROVE IInv /\ UploadFails(l) => IInv'
<1> SUFFICES ASSUME IInv, UploadFails(l) PROVE IInv'
  OBVIOUS
<1>1. /\ stage[l] = "uploading" /\ stage' = [stage EXCEPT ![l] = "empty"]
      /\ faults' \in 0..MaxFaults
      /\ UNCHANGED <<result, readQ, uploadQ, bytes, futures, loaded,
                     residentData, block, enabled, pools, call, arg, state,
                     outcome>>
  BY SizeAssumption DEF UploadFails, callVars, May, IInv, TypeOK
<1>2. /\ BufferOwnership' /\ free' \in Seq(Buffers)
      /\ held' \in [Layers -> Buffers \cup {None}] /\ held'[l] = None
      /\ \A i \in Layers : i # l => held'[i] = held[i]
  BY RecycleFacts DEF IInv, UploadFails
<1>3. TypeOK'
  BY <1>1, <1>2 DEF IInv, TypeOK, Stage
<1>4. QueueInv' /\ PayloadInv'
  BY <1>1, <1>2 DEF IInv, TypeOK, QueueInv, PayloadInv
<1>5. TensorInv' /\ CallInv'
  BY <1>1 DEF IInv, TypeOK, TensorInv, CallInv
<1>6. FutureInv' /\ PoolInv'
  BY <1>1 DEF IInv, TypeOK, FutureInv, NoOrphanJob, PoolInv
<1> QED
  BY <1>2, <1>3, <1>4, <1>5, <1>6 DEF IInv

-----------------------------------------------------------------------------
(* The calls of the compute thread.                                        *)

\* Calls that touch neither a job nor a buffer nor a queue.
LEMMA JobsUntouched ==
    ASSUME IInv, UNCHANGED jobVars
    PROVE  BufferOwnership' /\ QueueInv' /\ PayloadInv'
BY DEF IInv, jobVars, BufferOwnership, QueueInv, PayloadInv

\* Calls that set a flag or fill the resident cache.
LEMMA QuietCallsKeep ==
    ASSUME IInv, LoadResidentLayers \/ DisablePrefetch \/ \E l \in Layers : PrefetchRaises(l)
    PROVE  IInv'
<1>1. /\ UNCHANGED <<futures, loaded, block, pools, call, arg, state, outcome>>
      /\ UNCHANGED jobVars
  BY DEF LoadResidentLayers, DisablePrefetch, PrefetchRaises, callVars
<1>2. residentData' \subseteq 0..(ResidentCount - 1)
  BY DEF LoadResidentLayers, DisablePrefetch, PrefetchRaises, IInv, TypeOK
<1>3. enabled' \in BOOLEAN
  BY DEF LoadResidentLayers, DisablePrefetch, PrefetchRaises, IInv, TypeOK
<1>4. faults' \in 0..MaxFaults
  BY SizeAssumption
     DEF LoadResidentLayers, DisablePrefetch, PrefetchRaises, May, IInv, TypeOK
<1>5. TypeOK'
  BY <1>1, <1>2, <1>3, <1>4 DEF IInv, TypeOK, jobVars
<1>6. TensorInv' /\ CallInv' /\ FutureInv' /\ PoolInv'
  BY <1>1 DEF IInv, jobVars, TensorInv, CallInv, FutureInv, NoOrphanJob, PoolInv
<1> QED
  BY <1>1, <1>5, <1>6, JobsUntouched DEF IInv

\* prefetch() of one layer, ignored or submitted.
LEMMA PrefetchKeeps == ASSUME NEW l \in Layers PROVE IInv /\ Prefetch(l) => IInv'
<1> SUFFICES ASSUME IInv, Prefetch(l) PROVE IInv'
  OBVIOUS
<1>1. CASE PrefetchIgnored(l)
  BY <1>1 DEF Prefetch, callVars, jobVars, IInv, TypeOK, BufferOwnership, QueueInv,
     PayloadInv, TensorInv, CallInv, FutureInv, NoOrphanJob, PoolInv
<1>2. CASE ~PrefetchIgnored(l)
  <2>1. /\ stage' = [stage EXCEPT ![l] = "queued"]
        /\ readQ' = Append(readQ, l) /\ futures' = futures \cup {l}
        /\ l \notin loaded /\ l \notin futures /\ l >= ResidentCount
        /\ call = "out" /\ pools = "open"
        /\ UNCHANGED <<held, result, uploadQ, free, bytes, loaded,
                       residentData, block, enabled, pools, call, arg, state,
                       outcome, faults>>
    BY <1>2, SizeAssumption DEF Prefetch, PrefetchIgnored, Idle, callVars, Layers
  <2>2. stage[l] = "idle"
    BY <2>1 DEF IInv, FutureInv, NoOrphanJob
  <2>3. /\ readQ' \in Seq(Layers) /\ NoRepeats(readQ')
        /\ Range(readQ') = Range(readQ) \cup {l}
    BY <2>1, <2>2, AppendQueue DEF IInv, TypeOK, QueueInv
  <2>4. TypeOK'
    BY <2>1, <2>3 DEF IInv, TypeOK, Stage
  <2>5. BufferOwnership' /\ QueueInv'
    BY <2>1, <2>2, <2>3 DEF IInv, TypeOK, BufferOwnership, QueueInv
  <2>6. PayloadInv' /\ TensorInv'
    BY <2>1, <2>2 DEF IInv, TypeOK, PayloadInv, TensorInv
  <2>7. CallInv' /\ FutureInv' /\ PoolInv'
    BY <2>1, <2>2 DEF IInv, TypeOK, CallInv, FutureInv, NoOrphanJob, PoolInv
  <2>8. QED
    BY <2>4, <2>5, <2>6, <2>7 DEF IInv
<1> QED
  BY <1>1, <1>2

\* ensure() of a layer cached in CPU RAM.
LEMMA EnsureResidentKeeps ==
    ASSUME NEW l \in Layers PROVE IInv /\ EnsureResident(l) => IInv'
<1> SUFFICES ASSUME IInv, EnsureResident(l) PROVE IInv'
  OBVIOUS
<1>1. /\ UNCHANGED jobVars /\ call = "out" /\ pools = "open"
      /\ UNCHANGED <<futures, residentData, enabled, pools, call, arg, state>>
      /\ l < ResidentCount
  BY DEF EnsureResident, Idle, callVars, Cached
<1>2. CASE UNCHANGED <<loaded, block, faults>> /\ outcome' = "ok"
  <2>1. TypeOK'
    BY <1>1, <1>2 DEF IInv, TypeOK, jobVars, Outcomes
  <2>2. TensorInv' /\ CallInv' /\ FutureInv' /\ PoolInv'
    BY <1>1, <1>2 DEF IInv, jobVars, TensorInv, CallInv, FutureInv, NoOrphanJob, PoolInv
  <2>3. QED
    BY <1>1, <2>1, <2>2, JobsUntouched DEF IInv
<1>3. CASE /\ loaded' = loaded \cup {l}
           /\ block' \in {block, [block EXCEPT ![l] = l]}
           /\ faults' \in 0..MaxFaults /\ outcome' \in Outcomes
  <2>1. TypeOK'
    BY <1>1, <1>3 DEF IInv, TypeOK, jobVars, Weights
  <2>2. TensorInv'
    BY <1>1, <1>3 DEF IInv, TypeOK, jobVars, TensorInv
  <2>3. CallInv' /\ PoolInv'
    BY <1>1, <1>3 DEF IInv, jobVars, CallInv, PoolInv
  <2>4. FutureInv'
    BY <1>1, <1>3, SizeAssumption DEF IInv, TypeOK, jobVars, FutureInv, NoOrphanJob, Layers
  <2>5. QED
    BY <1>1, <2>1, <2>2, <2>3, <2>4, JobsUntouched DEF IInv
<1> QED
  BY <1>2, <1>3, SizeAssumption DEF EnsureResident, Apply, May, Outcomes, IInv, TypeOK

\* ensure() of a streamed layer, up to its wait or its own read.
LEMMA EnsureStreamingKeeps ==
    ASSUME NEW l \in Layers PROVE IInv /\ EnsureStreaming(l) => IInv'
<1> SUFFICES ASSUME IInv, EnsureStreaming(l) PROVE IInv'
  OBVIOUS
<1>1. /\ UNCHANGED jobVars /\ call = "out" /\ pools = "open"
      /\ UNCHANGED <<loaded, residentData, block, enabled, pools, state, faults>>
  BY DEF EnsureStreaming, Idle
<1>2. CASE l \in loaded
  <2>1. UNCHANGED <<futures, call, arg>> /\ outcome' \in Outcomes
    BY <1>2 DEF EnsureStreaming, Outcomes
  <2>2. TypeOK'
    BY <1>1, <2>1 DEF IInv, TypeOK, jobVars
  <2>3. TensorInv' /\ CallInv' /\ FutureInv' /\ PoolInv'
    BY <1>1, <2>1 DEF IInv, jobVars, TensorInv, CallInv, FutureInv, NoOrphanJob, PoolInv
  <2>4. QED
    BY <1>1, <2>2, <2>3, JobsUntouched DEF IInv
<1>3. CASE l \notin loaded
  <2>1. /\ futures' = futures \ {l} /\ arg' = l /\ outcome' = outcome
        /\ call' = IF l \in futures THEN "wait" ELSE "read"
    BY <1>3 DEF EnsureStreaming
  <2>2. /\ l \in futures => stage[l] \notin {"idle", "syncReading", "syncCopying"}
        /\ l \notin futures => stage[l] = "idle"
    BY <1>1 DEF IInv, FutureInv, NoOrphanJob, CallInv
  <2>3. TypeOK'
    BY <1>1, <2>1 DEF IInv, TypeOK, jobVars, Calls
  <2>4. TensorInv' /\ CallInv'
    BY <1>1, <2>1, <2>2 DEF IInv, jobVars, TensorInv, CallInv
  <2>5. FutureInv' /\ PoolInv'
    BY <1>1, <2>1, <2>2 DEF IInv, jobVars, FutureInv, NoOrphanJob, PoolInv
  <2>6. QED
    BY <1>1, <2>3, <2>4, <2>5, JobsUntouched DEF IInv
<1> QED
  BY <1>2, <1>3

\* ensure() takes what its final future holds.
LEMMA EnsureWaitKeeps == IInv /\ EnsureWait => IInv'
<1> SUFFICES ASSUME IInv, EnsureWait PROVE IInv'
  OBVIOUS
<1>1. /\ call = "wait" /\ stage[arg] \in {"ready", "empty"} /\ arg \in Layers
      /\ call' = IF stage[arg] = "ready" THEN "apply" ELSE "read"
      /\ state' = result[arg]
      /\ stage' = [stage EXCEPT ![arg] = "idle"]
      /\ result' = [result EXCEPT ![arg] = None]
      /\ UNCHANGED <<held, readQ, uploadQ, free, bytes, futures, loaded,
                     residentData, block, enabled, pools, arg, outcome, faults>>
  BY DEF EnsureWait, IInv, TypeOK
<1>2. TypeOK'
  BY <1>1 DEF IInv, TypeOK, Stage, Calls, Weights
<1>3. BufferOwnership' /\ QueueInv'
  BY <1>1 DEF IInv, TypeOK, BufferOwnership, QueueInv
<1>4. PayloadInv' /\ TensorInv'
  BY <1>1 DEF IInv, TypeOK, PayloadInv, TensorInv
<1>5. CallInv' /\ FutureInv' /\ PoolInv'
  BY <1>1 DEF IInv, TypeOK, CallInv, FutureInv, NoOrphanJob, PoolInv
<1> QED
  BY <1>2, <1>3, <1>4, <1>5 DEF IInv

\* The synchronous fallback starts to read.
LEMMA SyncReadKeeps == IInv /\ SyncRead => IInv'
<1> SUFFICES ASSUME IInv, SyncRead PROVE IInv'
  OBVIOUS
<1>1. /\ call = "read" /\ stage[arg] = "idle" /\ arg \in Layers
      /\ BeginRead(arg, "syncReading") /\ held[arg] = None
      /\ stage' = [stage EXCEPT ![arg] = "syncReading"]
      /\ UNCHANGED <<result, readQ, uploadQ, futures, loaded, residentData,
                     block, enabled, pools, call, arg, state, outcome, faults>>
  BY DEF SyncRead, BeginRead, callVars, IInv, TypeOK, PayloadInv
<1>2. /\ BufferOwnership' /\ free' \in Seq(Buffers)
      /\ held'[arg] \in Buffers \cup {None} /\ (held'[arg] # None => DirectIO)
      /\ held' \in [Layers -> Buffers \cup {None}]
      /\ \A i \in Layers : i # arg => held'[i] = held[i]
      /\ held'[arg] # None => held'[arg] \in Range(free)
      /\ bytes' \in [Buffers -> Layers \cup {Torn}]
      /\ \A b \in Buffers : b # held'[arg] => bytes'[b] = bytes[b]
  BY <1>1, BeginReadFacts DEF IInv, Stage
<1>3. TypeOK'
  BY <1>1, <1>2 DEF IInv, TypeOK, Stage
<1>4. QueueInv' /\ TensorInv'
  BY <1>1 DEF IInv, TypeOK, QueueInv, TensorInv
<1>5. PayloadInv'
  BY <1>1, <1>2 DEF IInv, TypeOK, PayloadInv, BufferOwnership
<1>6. CallInv' /\ FutureInv' /\ PoolInv'
  BY <1>1 DEF IInv, TypeOK, CallInv, FutureInv, NoOrphanJob, PoolInv
<1> QED
  BY <1>2, <1>3, <1>4, <1>5, <1>6 DEF IInv

\* The synchronous read ends and its copy starts.
LEMMA SyncReadEndKeeps == IInv /\ SyncReadEnd => IInv'
<1> SUFFICES ASSUME IInv, SyncReadEnd PROVE IInv'
  OBVIOUS
<1>1. /\ call = "read" /\ stage[arg] = "syncReading" /\ arg \in Layers
      /\ FinishRead(arg, "syncCopying")
      /\ stage' = [stage EXCEPT ![arg] = "syncCopying"]
      /\ UNCHANGED <<result, readQ, uploadQ, free, futures, loaded,
                     residentData, block, enabled, pools, call, arg, state,
                     outcome, faults>>
  BY DEF SyncReadEnd, FinishRead, callVars, IInv, TypeOK
<1>2. /\ BufferOwnership'
      /\ held' \in [Layers -> Buffers \cup {None}]
      /\ bytes' \in [Buffers -> Layers \cup {Torn}]
      /\ DirectIO => held'[arg] # None /\ bytes'[held'[arg]] = arg
      /\ ~DirectIO => held'[arg] = None
      /\ \A i \in Layers : i # arg => held'[i] = held[i]
      /\ \A i \in Layers : i # arg /\ held[i] # None
                             => bytes'[held[i]] = bytes[held[i]]
  BY <1>1, FinishReadFacts DEF IInv, Stage
<1>3. TypeOK'
  BY <1>1, <1>2 DEF IInv, TypeOK, Stage
<1>4. QueueInv' /\ TensorInv'
  BY <1>1 DEF IInv, TypeOK, QueueInv, TensorInv
<1>5. PayloadInv'
  BY <1>1, <1>2 DEF IInv, TypeOK, PayloadInv
<1>6. CallInv' /\ FutureInv' /\ PoolInv'
  BY <1>1 DEF IInv, TypeOK, CallInv, FutureInv, NoOrphanJob, PoolInv
<1> QED
  BY <1>2, <1>3, <1>4, <1>5, <1>6 DEF IInv

\* The synchronous read or copy is over, one way or the other: the layer has
\* no job and its buffer is back on the free-list.
LEMMA SyncEndsKeep == IInv /\ (SyncReadFails \/ SyncCopyEnd) => IInv'
<1> SUFFICES ASSUME IInv, SyncReadFails \/ SyncCopyEnd PROVE IInv'
  OBVIOUS
<1>1. /\ call = "read" /\ stage[arg] \in {"syncReading", "syncCopying"}
      /\ arg \in Layers /\ stage' = [stage EXCEPT ![arg] = "idle"]
      /\ UNCHANGED <<result, readQ, uploadQ, bytes, futures, loaded,
                     residentData, block, enabled, pools, arg>>
  BY DEF SyncReadFails, FailRead, SyncCopyEnd, IInv, TypeOK
<1>2. /\ outcome' \in Outcomes /\ faults' \in 0..MaxFaults
  BY SizeAssumption
     DEF SyncReadFails, FailRead, SyncCopyEnd, May, Outcomes, IInv, TypeOK
<1>3. /\ state' = IF call' = "apply" THEN arg ELSE None
      /\ call' \in {"apply", "out"}
  <2>1. CASE SyncReadFails
    BY <2>1 DEF SyncReadFails, IInv, TensorInv
  <2>2. CASE SyncCopyEnd
    <3>1. Payload(arg) = arg
      BY <1>1, <2>2 DEF SyncCopyEnd, IInv, PayloadInv, Payload
    <3>2. QED
      BY <2>2, <3>1 DEF SyncCopyEnd, IInv, TensorInv
  <2>3. QED
    BY <2>1, <2>2
<1>4. /\ BufferOwnership' /\ free' \in Seq(Buffers)
      /\ held' \in [Layers -> Buffers \cup {None}] /\ held'[arg] = None
      /\ \A i \in Layers : i # arg => held'[i] = held[i]
  <2>1. held[arg] = None => Storage(arg) \ {None} \subseteq Buffers \ LiveBuffers
    BY DEF Storage
  <2>2. QED
    BY <1>1, <2>1, RecycleFacts DEF IInv, SyncReadFails, FailRead, SyncCopyEnd
<1>5. TypeOK'
  BY <1>1, <1>2, <1>3, <1>4 DEF IInv, TypeOK, Stage, Calls, Weights
<1>6. QueueInv' /\ PayloadInv'
  BY <1>1, <1>4 DEF IInv, TypeOK, QueueInv, PayloadInv
<1>7. TensorInv' /\ CallInv'
  BY <1>1, <1>3 DEF IInv, TypeOK, TensorInv, CallInv
<1>8. FutureInv' /\ PoolInv'
  BY <1>1, <1>3 DEF IInv, TypeOK, CallInv, FutureInv, NoOrphanJob, PoolInv
<1> QED
  BY <1>4, <1>5, <1>6, <1>7, <1>8 DEF IInv

\* ensure() applies its tensors to the block, or fails to.
LEMMA EnsureApplyKeeps == IInv /\ EnsureApply => IInv'
<1> SUFFICES ASSUME IInv, EnsureApply PROVE IInv'
  OBVIOUS
<1>1. /\ call = "apply" /\ call' = "out" /\ state = arg /\ state' = None
      /\ arg \in Layers /\ loaded' = loaded \cup {arg}
      /\ UNCHANGED jobVars
      /\ UNCHANGED <<futures, residentData, enabled, pools, arg>>
  BY DEF EnsureApply, Apply, IInv, TypeOK, TensorInv
<1>2. /\ block' \in {block, [block EXCEPT ![arg] = arg]}
      /\ outcome' \in Outcomes /\ faults' \in 0..MaxFaults
  BY <1>1, SizeAssumption DEF EnsureApply, Apply, May, Outcomes, IInv, TypeOK
<1>3. TypeOK'
  BY <1>1, <1>2 DEF IInv, TypeOK, jobVars, Weights, Calls
<1>4. TensorInv'
  BY <1>1, <1>2 DEF IInv, TypeOK, jobVars, TensorInv
<1>5. CallInv' /\ FutureInv' /\ PoolInv'
  BY <1>1 DEF IInv, TypeOK, jobVars, CallInv, FutureInv, NoOrphanJob, PoolInv
<1> QED
  BY <1>1, <1>3, <1>4, <1>5, JobsUntouched DEF IInv

\* evict() of one layer.
LEMMA EvictKeeps == ASSUME NEW l \in Layers PROVE IInv /\ Evict(l) => IInv'
<1> SUFFICES ASSUME IInv, Evict(l) PROVE IInv'
  OBVIOUS
<1>1. /\ UNCHANGED jobVars /\ call = "out" /\ pools = "open"
      /\ UNCHANGED <<residentData, enabled, pools, call, arg, state, outcome, faults>>
  BY DEF Evict, Idle, callVars
<1>2. \/ UNCHANGED <<block, loaded, futures>>
      \/ /\ block' = [block EXCEPT ![l] = None] /\ loaded' = loaded \ {l}
         /\ futures' = futures
  BY DEF Evict, IInv, FutureInv
<1>3. TypeOK'
  BY <1>1, <1>2 DEF IInv, TypeOK, jobVars, Weights
<1>4. TensorInv'
  BY <1>1, <1>2 DEF IInv, TypeOK, jobVars, TensorInv
<1>5. CallInv' /\ FutureInv' /\ PoolInv'
  BY <1>1, <1>2 DEF IInv, TypeOK, jobVars, CallInv, FutureInv, NoOrphanJob, PoolInv
<1> QED
  BY <1>1, <1>3, <1>4, <1>5, JobsUntouched DEF IInv

-----------------------------------------------------------------------------
(* cleanup().                                                              *)

\* cleanup(), first: queued reads are cancelled.
LEMMA ShutReadPoolKeeps == IInv /\ ShutReadPool => IInv'
<1> SUFFICES ASSUME IInv, ShutReadPool PROVE IInv'
  OBVIOUS
<1>1. /\ call = "out" /\ pools = "open" /\ pools' = "readsShut" /\ readQ' = <<>>
      /\ stage' = [l \in Layers |->
                      IF stage[l] = "queued" THEN "empty" ELSE stage[l]]
      /\ UNCHANGED <<held, result, uploadQ, free, bytes, futures, loaded,
                     residentData, block, enabled, call, arg, state, outcome,
                     faults>>
  BY DEF ShutReadPool, Idle, Cancelled, callVars, IInv, QueueInv
<1>2. TypeOK'
  BY <1>1 DEF IInv, TypeOK, Stage
<1>3. BufferOwnership' /\ QueueInv'
  BY <1>1, EmptyQueue DEF IInv, TypeOK, BufferOwnership, QueueInv
<1>4. PayloadInv' /\ TensorInv'
  BY <1>1 DEF IInv, TypeOK, PayloadInv, TensorInv
<1>5. CallInv' /\ FutureInv' /\ PoolInv'
  BY <1>1 DEF IInv, TypeOK, CallInv, FutureInv, NoOrphanJob, PoolInv
<1> QED
  BY <1>2, <1>3, <1>4, <1>5 DEF IInv

\* cleanup(), second: the reads are over, queued uploads are cancelled.
LEMMA ShutUploadPoolKeeps == IInv /\ ShutUploadPool => IInv'
<1> SUFFICES ASSUME IInv, ShutUploadPool PROVE IInv'
  OBVIOUS
<1>1. /\ call = "out" /\ pools = "readsShut" /\ pools' = "uploadsShut"
      /\ uploadQ' = <<>> /\ readQ = <<>>
      /\ \A l \in Layers : stage[l] # "reading"
      /\ stage' = [l \in Layers |->
                      IF stage[l] = "uploadQueued" THEN "empty" ELSE stage[l]]
      /\ held' = [l \in Layers |->
                      IF stage[l] = "uploadQueued" THEN None ELSE held[l]]
      /\ UNCHANGED <<result, readQ, free, bytes, futures, loaded, residentData,
                     block, enabled, call, arg, state, outcome, faults>>
  BY DEF ShutUploadPool, At, Cancelled, callVars, IInv, QueueInv, CallInv, PoolInv
<1>2. TypeOK'
  BY <1>1 DEF IInv, TypeOK, Stage
<1>3. QueueInv'
  BY <1>1, EmptyQueue DEF IInv, TypeOK, QueueInv
<1>4. BufferOwnership'
  <2>1. None \notin Range(free)
    BY QueueRange, NoneAssumption DEF IInv, TypeOK
  <2>2. QED
    BY <1>1, <2>1 DEF IInv, BufferOwnership
<1>5. PayloadInv' /\ TensorInv'
  BY <1>1 DEF IInv, TypeOK, PayloadInv, TensorInv
<1>6. CallInv' /\ FutureInv' /\ PoolInv'
  BY <1>1 DEF IInv, TypeOK, CallInv, FutureInv, NoOrphanJob, PoolInv
<1> QED
  BY <1>2, <1>3, <1>4, <1>5, <1>6 DEF IInv

\* cleanup(), last: the uploads are over, everything is dropped.
LEMMA DropEverythingKeeps == IInv /\ DropEverything => IInv'
<1> SUFFICES ASSUME IInv, DropEverything PROVE IInv'
  OBVIOUS
<1>1. /\ call = "out" /\ pools = "uploadsShut" /\ pools' = "closed"
      /\ readQ = <<>> /\ uploadQ = <<>> /\ free' = <<>>
      /\ loaded' = {} /\ futures' = {} /\ residentData' = {}
      /\ UNCHANGED <<held, readQ, uploadQ, bytes, enabled, call, arg, state,
                     outcome, faults>>
  BY DEF DropEverything, callVars, IInv, CallInv, PoolInv
<1>2. \A l \in Layers : stage[l] \in {"idle", "ready", "empty"}
  <2>1. \A l \in Layers : stage[l] \notin {"queued", "uploadQueued"}
    BY <1>1, EmptyQueue DEF IInv, QueueInv
  <2>2. QED
    BY <1>1, <2>1 DEF DropEverything, At, IInv, TypeOK, Stage, CallInv, PoolInv
<1>3. /\ stage' = [l \in Layers |-> "idle"]
      /\ block' = [l \in Layers |-> None]
      /\ result' = [l \in Layers |-> None]
  <2>1. stage' = [l \in Layers |-> "idle"]
    BY <1>2 DEF DropEverything
  <2>2. block' = [l \in Layers |-> None]
    BY DEF DropEverything, IInv, TypeOK, TensorInv
  <2>3. \A l \in Layers : l \notin futures => result[l] = None
    BY <1>1 DEF IInv, TensorInv, FutureInv, NoOrphanJob
  <2>4. result' = [l \in Layers |-> None]
    BY <2>3 DEF DropEverything
  <2>5. QED
    BY <2>1, <2>2, <2>4
<1>4. \A l \in Layers : held[l] = None
  BY <1>2 DEF IInv, PayloadInv
<1>5. TypeOK'
  BY <1>1, <1>3 DEF IInv, TypeOK, Stage, Weights
<1>6. BufferOwnership' /\ QueueInv'
  BY <1>1, <1>3, <1>4, EmptyQueue DEF IInv, TypeOK, BufferOwnership, QueueInv
<1>7. PayloadInv' /\ TensorInv'
  BY <1>1, <1>3, <1>4 DEF IInv, TypeOK, PayloadInv, TensorInv
<1>8. CallInv' /\ FutureInv' /\ PoolInv'
  BY <1>1, <1>3 DEF CallInv, FutureInv, NoOrphanJob, PoolInv, IInv
<1> QED
  BY <1>5, <1>6, <1>7, <1>8 DEF IInv

-----------------------------------------------------------------------------
(* The theorems.                                                           *)

\* The invariant holds in the constructor's state.
LEMMA InitIInv == Init => IInv
<1> SUFFICES ASSUME Init PROVE IInv
  OBVIOUS
<1>1. TypeOK
  BY SizeAssumption, FlagAssumption
     DEF Init, TypeOK, Stage, Calls, Outcomes, Weights, Layers
<1>2. BufferOwnership /\ QueueInv
  BY EmptyQueue DEF Init, BufferOwnership, QueueInv
<1>3. PayloadInv /\ TensorInv
  BY DEF Init, PayloadInv, TensorInv
<1>4. CallInv /\ FutureInv /\ PoolInv
  BY DEF Init, CallInv, FutureInv, NoOrphanJob, PoolInv
<1> QED
  BY <1>1, <1>2, <1>3, <1>4 DEF IInv

\* Every step keeps the invariant.
LEMMA NextIInv == IInv /\ [Next]_vars => IInv'
<1> SUFFICES ASSUME IInv, [Next]_vars PROVE IInv'
  OBVIOUS
<1>1. CASE WorkerStep
  BY <1>1, ReadBeginKeeps, ReadEndKeeps, ReadFailsKeeps, UploadBeginKeeps,
     UploadEndKeeps, UploadFailsKeeps DEF WorkerStep
<1>2. CASE EnsureStep
  BY <1>2, EnsureWaitKeeps, SyncReadKeeps, SyncReadEndKeeps, SyncEndsKeep,
     EnsureApplyKeeps DEF EnsureStep
<1>3. CASE ClientStep
  BY <1>3, QuietCallsKeep, PrefetchKeeps, EnsureResidentKeeps,
     EnsureStreamingKeeps, EvictKeeps DEF ClientStep, Ensure
<1>4. CASE Cleanup
  BY <1>4, ShutReadPoolKeeps, ShutUploadPoolKeeps, DropEverythingKeeps DEF Cleanup
<1>5. CASE UNCHANGED vars
  BY <1>5 DEF vars, jobVars, callVars, IInv, TypeOK, BufferOwnership, QueueInv,
     PayloadInv, TensorInv, CallInv, FutureInv, NoOrphanJob, PoolInv
<1> QED
  BY <1>1, <1>2, <1>3, <1>4, <1>5 DEF Next

\* The strengthening the safety theorems share is an invariant.
THEOREM Invariance == Spec => []IInv
BY InitIInv, NextIInv, PTL DEF Spec

\* Every variable keeps its type under every order of API calls.
THEOREM TypeCorrect == Spec => []TypeOK
<1>1. IInv => TypeOK
  BY DEF IInv
<1> QED
  BY <1>1, Invariance, PTL

\* A read buffer is never in two hands: no worker fills a buffer another
\* job's payload is still backed by, and the free-list holds none twice.
THEOREM OwnershipSafe == Spec => []BufferOwnership
<1>1. IInv => BufferOwnership
  BY DEF IInv
<1> QED
  BY <1>1, Invariance, PTL

\* Weights are never mixed up or torn on their way from a shard to a block.
THEOREM WeightsSafe == Spec => []OwnWeights
<1>1. IInv => OwnWeights
  BY DEF IInv, TensorInv, OwnWeights
<1> QED
  BY <1>1, Invariance, PTL

\* No job outlives its future, so a layer never has two jobs.
THEOREM JobsReachable == Spec => []NoOrphanJob
<1>1. IInv => NoOrphanJob
  BY DEF IInv, FutureInv
<1> QED
  BY <1>1, Invariance, PTL

\* cleanup() leaves nothing on the device, in a future or in a worker.
THEOREM ShutdownClean == Spec => []CleanShutdown
<1>1. IInv => CleanShutdown
  <2>1. SUFFICES ASSUME IInv, pools = "closed" PROVE CleanShutdown
    BY DEF CleanShutdown
  <2>2. QED
    BY <2>1 DEF IInv, CleanShutdown, PoolInv, TensorInv, PayloadInv
<1> QED
  BY <1>1, Invariance, PTL

\* A prefetched result is dropped only when ensure() takes it or cleanup()
\* ends the run.
THEOREM ResultsKept == Spec => NoResultLost
<1> DEFINE Kept ==
        \A l \in Layers : stage[l] = "ready" /\ stage'[l] # "ready" =>
            \/ state' = result[l] /\ call' = "apply" /\ arg = l
            \/ pools' = "closed"
<1>1. ASSUME IInv, Next PROVE Kept
  <2>1. CASE WorkerStep
    <3>1. /\ readQ # <<>> => Head(readQ) \in Layers /\ stage[Head(readQ)] = "queued"
          /\ uploadQ # <<>> => Head(uploadQ) \in Layers /\ stage[Head(uploadQ)] = "uploadQueued"
      BY <1>1, TailQueue DEF IInv, TypeOK, QueueInv
    <3>2. QED
      BY <1>1, <2>1, <3>1 DEF IInv, TypeOK, WorkerStep, ReadBegin, BeginRead, ReadEnd,
         FinishRead, ReadFails, FailRead, UploadBegin, UploadEnd, UploadFails
  <2>2. CASE EnsureStep
    BY <1>1, <2>2 DEF IInv, TypeOK, TensorInv, EnsureStep, EnsureWait, SyncRead, BeginRead,
       SyncReadEnd, FinishRead, SyncReadFails, FailRead, SyncCopyEnd, EnsureApply, jobVars
  <2>3. CASE ClientStep
    <3>1. ASSUME NEW l \in Layers, Prefetch(l) PROVE Kept
      <4>1. ~PrefetchIgnored(l) => stage[l] = "idle"
        BY <1>1, <3>1 DEF IInv, FutureInv, NoOrphanJob, Prefetch, PrefetchIgnored, Idle
      <4>2. QED
        BY <1>1, <3>1, <4>1 DEF IInv, TypeOK, Prefetch, jobVars
    <3>2. QED
      BY <2>3, <3>1 DEF ClientStep, LoadResidentLayers, DisablePrefetch, PrefetchRaises,
         Ensure, EnsureResident, EnsureStreaming, Evict, jobVars
  <2>4. CASE Cleanup
    BY <1>1, <2>4 DEF IInv, TypeOK, QueueInv, Cleanup, ShutReadPool, ShutUploadPool,
       DropEverything, Cancelled
  <2>5. QED
    BY <1>1, <2>1, <2>2, <2>3, <2>4 DEF Next
<1>2. IInv /\ [Next]_vars => [Kept]_vars
  BY <1>1
<1> QED
  BY <1>2, Invariance, PTL DEF Spec, NoResultLost

-----------------------------------------------------------------------------
(* The layer loop.                                                         *)

\* Every step of the sweep is a step of the scheduler under some client, or
\* leaves the scheduler alone.
LEMMA SweepStepIsSchedulerStep == SweepTypeOK /\ [SweepNext]_allVars => [Next]_vars
<1> SUFFICES ASSUME SweepTypeOK, [SweepNext]_allVars PROVE [Next]_vars
  OBVIOUS
<1>1. layer \in Layers
  BY DEF SweepTypeOK
<1>2. ASSUME NEW l, Prefetch(l) \/ PrefetchRaises(l) PROVE [Next]_vars
  <2>1. CASE l \in Layers
    BY <1>2, <2>1 DEF Next, ClientStep
  <2>2. CASE l \notin Layers
    BY <1>2, <2>2 DEF Prefetch, PrefetchRaises, PrefetchIgnored, vars
  <2>3. QED
    BY <2>1, <2>2
<1>3. CASE Load \/ Disable
  BY <1>3 DEF Load, Disable, Next, ClientStep
<1>4. CASE WarmUp \/ PrefetchAhead
  BY <1>2, <1>4 DEF WarmUp, PrefetchAhead, PrefetchLoop
<1>5. CASE CallEnsure \/ EvictLayer
  BY <1>1, <1>5 DEF CallEnsure, EvictLayer, Next, ClientStep
<1>6. CASE EnsureRuns \/ CleanUp \/ WorkersRun
  BY <1>6 DEF EnsureRuns, CleanUp, WorkersRun, Next
<1>7. CASE EnsureReturns \/ Compute \/ Done \/ UNCHANGED allVars
  BY <1>7 DEF EnsureReturns, Compute, Done, allVars
<1> QED
  BY <1>3, <1>4, <1>5, <1>6, <1>7 DEF SweepNext, ComputeThread

\* What the sweep's own variables do, step by step.
LEMMA SweepTypeStep ==
    IInv /\ IInv' /\ SweepTypeOK /\ CallPlaces /\ [SweepNext]_allVars => SweepTypeOK'
<1> SUFFICES ASSUME IInv, IInv', SweepTypeOK, CallPlaces, [SweepNext]_allVars
             PROVE  SweepTypeOK'
  OBVIOUS
<1>1. TypeOK' /\ \A l \in Layers : block[l] \in Weights
  BY DEF IInv, TypeOK
<1>2. /\ Lookahead \in Nat \ {0} /\ NumLayers \in Nat \ {0} /\ Tokens \in Nat \ {0}
  BY SizeAssumption, SweepAssumption DEF Lookahead
<1>3. pc' \in Places /\ resume' \in Places
  BY DEF SweepTypeOK, CallPlaces, Places, SweepNext, ComputeThread, Load, WarmUp, PrefetchAhead,
     PrefetchLoop, Goto, Disable, CallEnsure, EnsureReturns, Compute, EvictLayer, CleanUp,
     EnsureRuns, WorkersRun, Done, sweepVars, allVars
<1>4. layer' \in Layers
  BY <1>2 DEF SweepTypeOK, Layers, SweepNext, ComputeThread, Load, WarmUp, PrefetchAhead,
     PrefetchLoop, Disable, CallEnsure, EnsureReturns, Compute, EvictLayer, CleanUp,
     EnsureRuns, WorkersRun, Done, sweepVars, allVars
<1>5. ahead' \in 0..(Lookahead + 1)
  BY <1>2 DEF SweepTypeOK, SweepNext, ComputeThread, Load, WarmUp, PrefetchAhead,
     PrefetchLoop, Goto, Disable, CallEnsure, EnsureReturns, Compute, EvictLayer, CleanUp,
     EnsureRuns, WorkersRun, Done, sweepVars, allVars
<1>6. token' \in 0..Tokens
  BY <1>2 DEF SweepTypeOK, CallPlaces, SweepNext, ComputeThread, Load, WarmUp, PrefetchAhead,
     PrefetchLoop, Goto, Disable, CallEnsure, EnsureReturns, Compute, EvictLayer, CleanUp,
     EnsureRuns, WorkersRun, Done, sweepVars, allVars
<1>7. hidden' \in Seq(Weights)
  <2>1. hidden' \in {hidden, <<>>, Append(hidden, block[layer])}
    BY DEF SweepNext, ComputeThread, Load, WarmUp, PrefetchAhead, PrefetchLoop, Disable,
       CallEnsure, EnsureReturns, Compute, EvictLayer, CleanUp, EnsureRuns, WorkersRun,
       Done, sweepVars, allVars
  <2>2. hidden \in Seq(Weights) /\ block[layer] \in Weights
    BY <1>1 DEF SweepTypeOK
  <2>3. <<>> \in Seq(Weights) /\ Append(hidden, block[layer]) \in Seq(Weights)
    BY <2>2
  <2>4. QED
    BY <2>1, <2>2, <2>3
<1>8. raised' \in BOOLEAN
  BY DEF SweepTypeOK, SweepNext, ComputeThread, Load, WarmUp, PrefetchAhead,
     PrefetchLoop, Goto, Disable, CallEnsure, EnsureReturns, Compute, EvictLayer, CleanUp,
     EnsureRuns, WorkersRun, Done, sweepVars, allVars
<1> QED
  BY <1>1, <1>3, <1>4, <1>5, <1>6, <1>7, <1>8 DEF SweepTypeOK

-----------------------------------------------------------------------------
(* What each group of scheduler steps may change.                          *)

\* The workers touch nothing of the compute thread.
LEMMA WorkerEffects ==
    WorkerStep => UNCHANGED <<futures, loaded, block, residentData, enabled,
                              pools, call, arg, state, outcome>>
BY DEF WorkerStep, ReadBegin, ReadEnd, ReadFails, UploadBegin, UploadEnd,
   UploadFails, callVars

\* ensure(), once begun: only its own layer can become loaded.
LEMMA EnsureEffects ==
    ASSUME IInv, EnsureStep
    PROVE  /\ call # "out" /\ UNCHANGED <<futures, arg, pools>>
           /\ \/ UNCHANGED <<loaded, block>> /\ (call' = "out" => outcome' # "ok")
              \/ /\ call' = "out" /\ loaded' = loaded \cup {arg}
                 /\ block' = [block EXCEPT ![arg] = arg] \/ "apply" \in Faults
<1>1. CASE EnsureApply
  BY <1>1 DEF EnsureApply, Apply, May, IInv, TensorInv
<1>2. CASE EnsureWait \/ SyncRead \/ SyncReadEnd \/ SyncReadFails \/ SyncCopyEnd
  BY <1>2 DEF EnsureWait, SyncRead, SyncReadEnd, SyncReadFails, SyncCopyEnd, callVars
<1> QED
  BY <1>1, <1>2 DEF EnsureStep

\* A call of ensure(): its layer's future is taken, nothing else.
LEMMA CallEffects ==
    ASSUME IInv, NEW l \in Layers, Ensure(l)
    PROVE  /\ call = "out" /\ pools = "open" /\ pools' = "open"
           /\ futures' \subseteq futures
           /\ \/ /\ call' # "out" /\ arg' = l
                 /\ UNCHANGED <<loaded, block>>
              \/ /\ call' = "out" /\ loaded' = loaded \cup {l}
                 /\ block' \in {block, [block EXCEPT ![l] = l]}
                 /\ \/ l \in loaded /\ block' = block
                    \/ block' = [block EXCEPT ![l] = l]
                    \/ "apply" \in Faults
BY DEF Ensure, EnsureResident, EnsureStreaming, Apply, Idle, May, callVars

\* prefetch() of any index: at most that future is added.
LEMMA PrefetchEffects ==
    ASSUME NEW l, Prefetch(l) \/ PrefetchRaises(l)
    PROVE  /\ call = "out" /\ pools = "open"
           /\ futures' \subseteq futures \cup {l}
           /\ UNCHANGED <<loaded, block, pools, call, arg, outcome>>
BY DEF Prefetch, PrefetchRaises, Idle, callVars

-----------------------------------------------------------------------------
(* The invariants of the loop.                                             *)

\* Where the loop is and where ensure() is stay in step.
LEMMA PlacesStep ==
    ASSUME IInv, SweepTypeOK, CallPlaces, [SweepNext]_allVars
    PROVE  CallPlaces'
<1>1. layer \in Layers /\ Tokens \in Nat \ {0} /\ token \in 0..Tokens
  BY SweepAssumption DEF SweepTypeOK
<1>2. CASE Load
  BY <1>2 DEF Load, LoadResidentLayers, Idle, Goto, callVars, CallPlaces
<1>3. CASE WarmUp \/ PrefetchAhead
  <2>1. PICK l, last, next, first :
            /\ PrefetchLoop(l, last, next, first) /\ pc \in {"warm", "ahead"}
            /\ next \in {"ahead", "ensure"}
    BY <1>3 DEF WarmUp, PrefetchAhead
  <2>2. CASE UNCHANGED vars /\ Goto(next, first)
    BY <2>1, <2>2 DEF PrefetchLoop, Goto, vars, callVars, CallPlaces
  <2>3. CASE Prefetch(l) \/ PrefetchRaises(l)
    BY <2>1, <2>3, PrefetchEffects DEF PrefetchLoop, Goto, CallPlaces
  <2>4. QED
    BY <2>1, <2>2, <2>3 DEF PrefetchLoop
<1>4. CASE Disable
  BY <1>4 DEF Disable, DisablePrefetch, Idle, callVars, CallPlaces
<1>5. CASE CallEnsure
  <2>1. /\ pc' \in {"ensured", "retried"} /\ UNCHANGED <<layer, token>>
        /\ pc \in {"ensure", "retry"}
    BY <1>5 DEF CallEnsure
  <2>2. call' = "out" => layer \in loaded'
    BY <1>1, <1>5, CallEffects DEF CallEnsure
  <2>3. (call' # "out" => arg' = layer) /\ pools' = "open"
    BY <1>1, <1>5, CallEffects DEF CallEnsure
  <2>4. QED
    BY <2>1, <2>2, <2>3 DEF CallPlaces
<1>6. CASE EnsureRuns
  BY <1>6, EnsureEffects DEF EnsureRuns, sweepVars, CallPlaces
<1>7. CASE EnsureReturns
  BY <1>7 DEF EnsureReturns, vars, callVars, CallPlaces, IInv, TypeOK, Outcomes
<1>8. CASE Compute
  BY <1>8 DEF Compute, vars, callVars, CallPlaces
<1>9. CASE EvictLayer
  BY <1>1, <1>9 DEF EvictLayer, Evict, Idle, Goto, callVars, CallPlaces
<1>10. CASE CleanUp
  BY <1>10 DEF CleanUp, Cleanup, ShutReadPool, ShutUploadPool, DropEverything, Idle,
     callVars, CallPlaces
<1>11. CASE WorkersRun
  BY <1>11, WorkerEffects DEF WorkersRun, sweepVars, CallPlaces
<1>12. CASE Done \/ UNCHANGED allVars
  BY <1>12 DEF Done, allVars, vars, callVars, sweepVars, CallPlaces
<1> QED
  BY <1>2, <1>3, <1>4, <1>5, <1>6, <1>7, <1>8, <1>9, <1>10, <1>11, <1>12
     DEF SweepNext, ComputeThread

\* Futures and loaded layers stay within the lookahead of the layer.
LEMMA WindowStep ==
    ASSUME IInv, SweepTypeOK, CallPlaces, WindowInv, [SweepNext]_allVars
    PROVE  WindowInv'
<1> SUFFICES ASSUME ResidentCount < NumLayers
             PROVE  WindowInv'
  BY DEF WindowInv
<1>1. /\ layer \in Layers /\ Lookahead \in Nat \ {0} /\ ahead \in Nat
      /\ NumLayers \in Nat \ {0} /\ ResidentCount \in Nat
      /\ futures \subseteq Layers /\ Layers \subseteq Int
  BY SizeAssumption, SweepAssumption DEF SweepTypeOK, Lookahead, Layers, TypeOK
<1>2. CASE Load
  BY <1>1, <1>2 DEF Load, LoadResidentLayers, Goto, WindowInv
<1>3. CASE WarmUp
  <2>1. CASE Goto("ahead", 1) /\ UNCHANGED <<vars, layer>>
    BY <1>1, <1>3, <2>1 DEF WarmUp, Goto, vars, WindowInv
  <2>2. CASE /\ Prefetch(ahead) \/ PrefetchRaises(ahead)
             /\ ahead < Lookahead /\ UNCHANGED layer
             /\ \/ ahead' = ahead + 1 /\ pc' = "warm"
                \/ pc' = "disable" /\ resume' = "ahead"
    <3>1. futures' \subseteq futures \cup {ahead} /\ UNCHANGED loaded
      BY <2>2, PrefetchEffects
    <3>2. pc = "warm" /\ layer = 0 /\ loaded = {} /\ \A l \in futures : l < ahead
      BY <1>3 DEF WarmUp, WindowInv
    <3>3. \A l \in futures' : layer' <= l /\ l <= layer' + Lookahead /\ l < ahead + 1
      BY <1>1, <2>2, <3>1, <3>2 DEF WindowInv
    <3>4. QED
      BY <1>1, <2>2, <3>1, <3>2, <3>3 DEF WindowInv
  <2>3. QED
    BY <1>1, <1>3, <2>1, <2>2 DEF WarmUp, PrefetchLoop, Goto
<1>4. CASE PrefetchAhead
  <2>1. CASE Goto("ensure", 0) /\ UNCHANGED <<vars, layer>>
    BY <1>4, <2>1 DEF PrefetchAhead, Goto, vars, WindowInv
  <2>2. CASE /\ Prefetch(layer + ahead) \/ PrefetchRaises(layer + ahead)
             /\ ahead <= Lookahead /\ UNCHANGED layer
             /\ \/ pc' = "ahead"
                \/ pc' = "disable" /\ resume' = "ensure"
    <3>1. futures' \subseteq futures \cup {layer + ahead} /\ UNCHANGED loaded
      BY <2>2, PrefetchEffects
    <3>2. loaded = {}
      BY <1>4 DEF PrefetchAhead, WindowInv
    <3>3. \A l \in futures' : layer' <= l /\ l <= layer' + Lookahead
      <4>1. layer \in Int
        BY <1>1
      <4>2. QED
        BY <1>1, <2>2, <3>1, <4>1 DEF WindowInv
    <3>4. QED
      BY <2>2, <3>1, <3>2, <3>3 DEF WindowInv
  <2>3. QED
    BY <1>1, <1>4, <2>1, <2>2 DEF PrefetchAhead, PrefetchLoop, Goto
<1>5. CASE Disable
  BY <1>5 DEF Disable, DisablePrefetch, CallPlaces, WindowInv
<1>6. CASE CallEnsure
  BY <1>1, <1>6, CallEffects DEF CallEnsure, WindowInv
<1>7. CASE EnsureRuns
  BY <1>7, EnsureEffects DEF EnsureRuns, sweepVars, CallPlaces, WindowInv
<1>8. CASE EnsureReturns \/ Compute
  BY <1>8 DEF EnsureReturns, Compute, vars, WindowInv
<1>9. CASE EvictLayer
  <2>1. /\ loaded' = {} /\ futures' \subseteq futures /\ layer \notin futures
    BY <1>1, <1>9 DEF EvictLayer, Evict, CallPlaces, WindowInv, IInv, FutureInv
  <2>2. CASE layer + 1 < NumLayers
    BY <1>1, <1>9, <2>1, <2>2 DEF EvictLayer, Goto, WindowInv
  <2>3. CASE ~(layer + 1 < NumLayers)
    <3>1. futures' = {}
      BY <1>1, <2>1, <2>3 DEF WindowInv, Layers
    <3>2. QED
      BY <1>1, <1>9, <2>1, <2>3, <3>1 DEF EvictLayer, Goto, WindowInv
  <2>4. QED
    BY <2>2, <2>3
<1>10. CASE CleanUp
  BY <1>10 DEF CleanUp, Cleanup, ShutReadPool, ShutUploadPool, DropEverything, WindowInv
<1>11. CASE WorkersRun
  BY <1>11, WorkerEffects DEF WorkersRun, sweepVars, WindowInv
<1>12. CASE Done \/ UNCHANGED allVars
  BY <1>12 DEF Done, allVars, vars, sweepVars, WindowInv
<1> QED
  BY <1>2, <1>3, <1>4, <1>5, <1>6, <1>7, <1>8, <1>9, <1>10, <1>11, <1>12
     DEF SweepNext, ComputeThread

-----------------------------------------------------------------------------
(* Safety of the loop.                                                     *)

SweepInv == IInv /\ SweepTypeOK /\ CallPlaces /\ WindowInv

\* The loop's invariant holds before load_resident_layers().
LEMMA SweepInvInit == SweepInit => SweepInv
<1> SUFFICES ASSUME SweepInit PROVE SweepInv
  OBVIOUS
<1>1. IInv
  BY InitIInv DEF SweepInit
<1>2. 0 \in Layers /\ Lookahead \in Nat /\ Tokens \in Nat \ {0}
  BY SizeAssumption, SweepAssumption DEF Layers, Lookahead
<1>3. SweepTypeOK
  <2>1. TypeOK /\ <<>> \in Seq(Weights)
    BY <1>1 DEF IInv
  <2>2. 0 \in 0..(Lookahead + 1) /\ 0 \in 0..Tokens
    BY <1>2
  <2>3. QED
    BY <1>2, <2>1, <2>2 DEF SweepInit, SweepTypeOK, Places
<1>4. CallPlaces /\ WindowInv
  BY <1>2 DEF SweepInit, Init, CallPlaces, WindowInv
<1> QED
  BY <1>1, <1>3, <1>4 DEF SweepInv

\* Every step of the loop or of a worker keeps it.
LEMMA SweepInvStep == SweepInv /\ [SweepNext]_allVars => SweepInv'
<1> SUFFICES ASSUME SweepInv, [SweepNext]_allVars PROVE SweepInv'
  OBVIOUS
<1>1. IInv'
  BY SweepStepIsSchedulerStep, NextIInv DEF SweepInv
<1> QED
  BY <1>1, SweepTypeStep, PlacesStep, WindowStep DEF SweepInv

\* The invariant that the safety theorems of the loop share.
THEOREM SweepInvariance == SweepSpec => []SweepInv
BY SweepInvInit, SweepInvStep, PTL DEF SweepSpec

\* The loop is a client of the scheduler: what holds under every order of API
\* calls holds in a run.
THEOREM SweepUsesScheduler == SweepSpec => Spec
<1>1. SweepInit => Init
  BY DEF SweepInit
<1>2. SweepInv /\ [SweepNext]_allVars => [Next]_vars
  BY SweepStepIsSchedulerStep DEF SweepInv
<1> QED
  BY <1>1, <1>2, SweepInvariance, PTL DEF SweepSpec, Spec

\* Every variable of scheduler and loop keeps its type.
THEOREM SweepTypeCorrect == SweepSpec => []SweepTypeOK
<1>1. SweepInv => SweepTypeOK
  BY DEF SweepInv
<1> QED
  BY <1>1, SweepInvariance, PTL

\* At most lookahead + 1 layers are on the device or on their way to it, for
\* every model size, window, prefetch depth and pattern of faults.
THEOREM DeviceMemoryBounded == SweepSpec => []DeviceBound
<1>1. SweepInv => DeviceBound
  <2>1. SUFFICES ASSUME SweepInv, ResidentCount < NumLayers
                 PROVE  Cardinality(OnDevice) <= Lookahead + 1
    BY DEF DeviceBound
  <2>2. layer \in Int /\ Lookahead \in Nat /\ layer + Lookahead \in Int
    <3>1. layer \in Layers
      BY <2>1 DEF SweepInv, SweepTypeOK
    <3>2. layer \in Int
      BY <3>1, SizeAssumption DEF Layers
    <3>3. Lookahead \in Nat
      BY SizeAssumption, SweepAssumption DEF Lookahead
    <3>4. QED
      BY <3>2, <3>3
  <2>3. OnDevice \subseteq layer..(layer + Lookahead)
    <3>1. SUFFICES ASSUME NEW l \in OnDevice PROVE l \in layer..(layer + Lookahead)
      OBVIOUS
    <3>2. l \in Layers /\ l \in Int
      BY <3>1 DEF OnDevice, Layers
    <3>3. CASE block[l] # None
      BY <2>1, <2>2, <3>2, <3>3 DEF SweepInv, IInv, TensorInv, WindowInv
    <3>4. CASE stage[l] # "idle"
      BY <2>1, <2>2, <3>2, <3>4
         DEF SweepInv, IInv, FutureInv, NoOrphanJob, WindowInv, CallPlaces
    <3>5. CASE call = "apply" /\ arg = l
      BY <2>1, <2>2, <3>5 DEF SweepInv, CallPlaces
    <3>6. QED
      BY <3>1, <3>3, <3>4, <3>5 DEF OnDevice
  <2>4. /\ IsFiniteSet(layer..(layer + Lookahead))
        /\ Cardinality(layer..(layer + Lookahead)) = Lookahead + 1
    BY <2>2, FS_Interval
  <2>5. Cardinality(OnDevice) <= Cardinality(layer..(layer + Lookahead))
    BY <2>3, <2>4, FS_Subset
  <2>6. QED
    BY <2>4, <2>5
<1> QED
  BY <1>1, SweepInvariance, PTL

-----------------------------------------------------------------------------
(* The loop implements the in-order forward pass: in the runner's own      *)
(* configuration whatever fails, and in every other one unless an apply    *)
(* does.                                                                   *)

\* Hidden state and loaded blocks stay those of the in-order pass.
LEMMA PassStep ==
    ASSUME "apply" \notin Faults \/ (Profiled /\ ResidentCount = 0),
           SweepInv, PassInv, [SweepNext]_allVars
    PROVE  PassInv'
<1>1. /\ layer \in Layers /\ hidden \in Seq(Weights) /\ token \in Nat
      /\ loaded \subseteq Layers /\ block \in [Layers -> Weights]
      /\ layer \in Nat
  BY SizeAssumption, SweepAssumption DEF SweepInv, SweepTypeOK, IInv, TypeOK, Layers
<1>2. CASE Load \/ Disable \/ EnsureReturns
  BY <1>2 DEF Load, LoadResidentLayers, Disable, DisablePrefetch, EnsureReturns, vars,
     callVars, Goto, PassInv, Materialized, SweepInv, CallPlaces
<1>3. CASE WarmUp \/ PrefetchAhead
  <2>1. PICK l, last, next, first :
            /\ PrefetchLoop(l, last, next, first) /\ pc \in {"warm", "ahead"}
            /\ next \in {"ahead", "ensure"}
    BY <1>3 DEF WarmUp, PrefetchAhead
  <2>2. UNCHANGED <<loaded, block, layer, token, hidden, raised>>
    BY <2>1, PrefetchEffects DEF PrefetchLoop, vars
  <2>3. pc' \in {"warm", "ahead", "ensure", "disable"}
    BY <2>1 DEF PrefetchLoop, Goto
  <2>4. QED
    BY <2>1, <2>2, <2>3 DEF PassInv, Materialized
<1>4. CASE CallEnsure
  <2>1. /\ pc \in {"ensure", "retry"} /\ pc' \in {"ensured", "retried"}
        /\ UNCHANGED <<layer, token, hidden, raised>>
    BY <1>4 DEF CallEnsure
  <2>2. CASE EnsureResident(layer)
    <3>1. "apply" \notin Faults
      BY <1>1, <2>2 DEF EnsureResident, Cached
    <3>2. \/ UNCHANGED <<loaded, block>> /\ layer \in loaded
          \/ /\ loaded' = loaded \cup {layer}
             /\ block' = [block EXCEPT ![layer] = layer]
      BY <2>2, <3>1 DEF EnsureResident, Apply, May
    <3> QED
      BY <1>1, <2>1, <3>1, <3>2 DEF PassInv
  <2>3. CASE EnsureStreaming(layer)
    <3>1. UNCHANGED <<loaded, block>>
      BY <2>3 DEF EnsureStreaming
    <3>2. Materialized' => layer \in loaded /\ ~Profiled
      BY <2>1, <2>3 DEF EnsureStreaming, Materialized
    <3> QED
      BY <1>1, <2>1, <3>1, <3>2 DEF PassInv
  <2> QED
    BY <1>4, <2>2, <2>3 DEF CallEnsure, Ensure
<1>5. CASE EnsureRuns
  <2>1. /\ UNCHANGED <<pc, layer, token, hidden, raised>>
        /\ call # "out" /\ arg = layer /\ pc \in {"ensured", "retried"}
    BY <1>5, EnsureEffects DEF EnsureRuns, sweepVars, EnsureStep, EnsureWait, SyncRead,
       SyncReadEnd, SyncReadFails, SyncCopyEnd, EnsureApply, SweepInv, CallPlaces
  <2>2. CASE EnsureWait \/ SyncRead \/ SyncReadEnd
    <3>1. UNCHANGED <<loaded, block>> /\ call' # "out"
      BY <2>2 DEF EnsureWait, SyncRead, SyncReadEnd, callVars
    <3> QED
      BY <2>1, <3>1 DEF PassInv, Materialized
  <2>3. CASE SyncReadFails \/ SyncCopyEnd
    <3>1. /\ UNCHANGED <<loaded, block>>
          /\ call' # "out" \/ outcome' = "PrefetchError"
      BY <2>3 DEF SyncReadFails, SyncCopyEnd
    <3> QED
      BY <2>1, <3>1 DEF PassInv, Materialized
  <2>4. CASE EnsureApply
    <3>1. arg \in Layers /\ state = arg
      BY <2>4 DEF EnsureApply, SweepInv, IInv, TypeOK, TensorInv
    <3>2. /\ loaded' = loaded \cup {arg}
          /\ \/ block' = [block EXCEPT ![arg] = arg]
             \/ "apply" \in Faults /\ outcome' = "PrefetchError" /\ block' = block
      BY <2>4, <3>1 DEF EnsureApply, Apply, May
    <3>3. Materialized' => block'[layer'] = layer'
      BY <1>1, <2>1, <3>1, <3>2 DEF Materialized
    <3>4. "apply" \notin Faults => \A l \in loaded' : block'[l] = l
      BY <1>1, <2>1, <3>1, <3>2 DEF PassInv
    <3> QED
      BY <2>1, <3>3, <3>4 DEF PassInv
  <2>5. QED
    BY <1>5, <2>2, <2>3, <2>4 DEF EnsureRuns, EnsureStep
<1>6. CASE Compute
  <2>1. /\ block[layer] = layer /\ Len(hidden) = layer
        /\ hidden = [i \in 1..layer |-> i - 1]
    BY <1>6 DEF Compute, SweepInv, CallPlaces, PassInv, Materialized
  <2>2. /\ hidden' = Append(hidden, layer) /\ Len(hidden') = layer + 1
        /\ hidden' = [i \in 1..(layer + 1) |-> i - 1]
    BY <1>1, <1>6, <2>1 DEF Compute
  <2>3. QED
    BY <1>1, <1>6, <2>1, <2>2 DEF Compute, vars, PassInv
<1>7. CASE EvictLayer
  <2>1. /\ "apply" \notin Faults => \A l \in loaded' : block'[l] = l
        /\ ~Materialized'
    BY <1>1, <1>7 DEF EvictLayer, Evict, Goto, PassInv, Materialized
  <2>2. CASE layer + 1 < NumLayers
    BY <1>7, <2>1, <2>2 DEF EvictLayer, Goto, PassInv
  <2>3. CASE ~(layer + 1 < NumLayers)
    <3>1. <<>> = [i \in 1..0 |-> i - 1] /\ Len(<<>>) = 0
      OBVIOUS
    <3>2. hidden' = <<>> /\ layer' = 0 /\ token' > 0 /\ pc' \in {"cleanup", "warm"}
      BY <1>1, <1>7, <2>3 DEF EvictLayer, Goto
    <3>3. QED
      BY <2>1, <3>1, <3>2 DEF PassInv
  <2>4. QED
    BY <2>2, <2>3
<1>8. CASE CleanUp
  <2>1. /\ "apply" \notin Faults => \A l \in loaded' : block'[l] = l
        /\ ~Materialized'
    BY <1>8 DEF CleanUp, Cleanup, ShutReadPool, ShutUploadPool, DropEverything, PassInv,
       Materialized
  <2>2. QED
    BY <1>8, <2>1 DEF CleanUp, PassInv
<1>9. CASE WorkersRun
  BY <1>9, WorkerEffects DEF WorkersRun, sweepVars, PassInv, Materialized
<1>10. CASE Done \/ UNCHANGED allVars
  BY <1>10 DEF Done, allVars, vars, callVars, sweepVars, PassInv, Materialized
<1> QED
  BY <1>2, <1>3, <1>4, <1>5, <1>6, <1>7, <1>8, <1>9, <1>10
     DEF SweepNext, ComputeThread

\* A step of the loop is a step of the abstract pass: computing a layer
\* applies it, evicting the last finishes the token, the first step of
\* cleanup() stops the run, and nothing else shows.
LEMMA PassSimulation ==
    ASSUME SweepInv, PassInv, [SweepNext]_allVars
    PROVE  [Forward!Next]_(Forward!vars)
<1>1. CASE Compute
  <2>1. /\ pools = "open" /\ token < Tokens /\ Len(hidden) = layer
        /\ block[layer] = layer /\ layer < NumLayers
    BY <1>1, SizeAssumption
       DEF Compute, SweepInv, SweepTypeOK, CallPlaces, PassInv, Materialized, Layers
  <2>2. /\ hidden' = Append(hidden, Len(hidden)) /\ token' = token
        /\ UNCHANGED <<pools, raised>>
    BY <1>1, <2>1 DEF Compute, vars
  <2>3. Forward!ApplyLayer
    BY <2>1, <2>2 DEF Forward!ApplyLayer
  <2>4. QED
    BY <2>3 DEF Forward!Next
<1>2. CASE EvictLayer
  <2>1. /\ pools = "open" /\ UNCHANGED <<pools, raised>> /\ token < Tokens
        /\ Len(hidden) = layer + 1
    BY <1>2 DEF EvictLayer, Evict, Idle, SweepInv, CallPlaces, PassInv
  <2>2. CASE layer + 1 < NumLayers
    BY <1>2, <2>1, <2>2 DEF EvictLayer, Forward!vars
  <2>3. CASE ~(layer + 1 < NumLayers)
    <3>1. Len(hidden) = NumLayers
      BY <2>1, <2>3, SizeAssumption DEF SweepInv, SweepTypeOK, Layers
    <3>2. Forward!FinishToken
      BY <1>2, <2>1, <2>3, <3>1 DEF EvictLayer, Forward!FinishToken
    <3>3. QED
      BY <3>2 DEF Forward!Next
  <2>4. QED
    BY <2>2, <2>3
<1>3. CASE CleanUp
  <2>1. UNCHANGED <<token, hidden, raised>> /\ pc = "cleanup" /\ pools' # "open"
    BY <1>3 DEF CleanUp, Cleanup, ShutReadPool, ShutUploadPool, DropEverything
  <2>2. CASE pools = "open"
    <3>1. Forward!Stop
      BY <2>1, <2>2 DEF Forward!Stop, PassInv
    <3>2. QED
      BY <3>1 DEF Forward!Next
  <2>3. CASE pools # "open"
    BY <2>1, <2>3 DEF Forward!vars
  <2>4. QED
    BY <2>2, <2>3
<1>4. CASE EnsureReturns
  <2>1. UNCHANGED <<token, hidden, pools>> /\ pools = "open"
    BY <1>4 DEF EnsureReturns, vars, SweepInv, CallPlaces
  <2>2. QED
    BY <2>1 DEF Forward!vars
<1>5. CASE WarmUp \/ PrefetchAhead
  BY <1>5, PrefetchEffects DEF WarmUp, PrefetchAhead, PrefetchLoop, vars, Forward!vars
<1>6. CASE Load \/ Disable
  BY <1>6 DEF Load, LoadResidentLayers, Disable, DisablePrefetch, Forward!vars
<1>7. CASE CallEnsure
  BY <1>7 DEF CallEnsure, Ensure, EnsureResident, EnsureStreaming, Forward!vars
<1>8. CASE EnsureRuns
  BY <1>8, EnsureEffects DEF EnsureRuns, sweepVars, SweepInv, Forward!vars
<1>9. CASE WorkersRun
  BY <1>9, WorkerEffects DEF WorkersRun, sweepVars, Forward!vars
<1>10. CASE Done \/ UNCHANGED allVars
  BY <1>10 DEF Done, allVars, vars, sweepVars, Forward!vars
<1> QED
  BY <1>1, <1>2, <1>3, <1>4, <1>5, <1>6, <1>7, <1>8, <1>9, <1>10
     DEF SweepNext, ComputeThread

\* Whatever fails and however the threads interleave, every token's hidden state
\* goes through each layer once, in order, with that layer's own weights.  The
\* runner has a profiler (swlp.py:100); with no resident layer a layer whose
\* apply failed ends the run.  Without a profiler, or with residents, it would be
\* taken for a loaded one, so there no apply may fail.
THEOREM SweepImplementsForwardPass ==
    ASSUME "apply" \notin Faults \/ (Profiled /\ ResidentCount = 0)
    PROVE  SweepSpec => ImplementsForwardPass
<1>1. SweepInit => PassInv /\ Forward!Init
  <2>1. <<>> = [i \in 1..0 |-> i - 1] /\ Len(<<>>) = 0
    OBVIOUS
  <2>2. QED
    BY <2>1 DEF SweepInit, Init, PassInv, Materialized, Forward!Init
<1>2. SweepInv /\ PassInv /\ [SweepNext]_allVars
        => PassInv' /\ [Forward!Next]_(Forward!vars)
  BY PassStep, PassSimulation
<1> QED
  BY <1>1, <1>2, SweepInvariance, PTL
     DEF SweepSpec, ImplementsForwardPass, Forward!Spec

\* The block call_block uses always holds its own layer's weights.
THEOREM ComputeMaterialized ==
    ASSUME "apply" \notin Faults \/ (Profiled /\ ResidentCount = 0)
    PROVE  SweepSpec => []MaterializedAtCompute
<1>1. SweepInit => PassInv
  <2>1. <<>> = [i \in 1..0 |-> i - 1] /\ Len(<<>>) = 0
    OBVIOUS
  <2>2. QED
    BY <2>1 DEF SweepInit, Init, PassInv, Materialized
<1>2. SweepInv /\ PassInv /\ [SweepNext]_allVars => PassInv'
  BY PassStep
<1>3. SweepInv /\ PassInv => MaterializedAtCompute
  BY DEF PassInv, Materialized, MaterializedAtCompute
<1> QED
  BY <1>1, <1>2, <1>3, SweepInvariance, PTL DEF SweepSpec

-----------------------------------------------------------------------------
(* How many failures a run survives.                                       *)

\* prefetch(l) would find nothing to do, with these layers loaded or in flight.
CoveredBy(l, there) == l \in Layers => l < ResidentCount \/ l \in there
Covered(l) == CoveredBy(l, loaded \cup futures)

\* The prefetch of the layer failed, and so did its read on the compute thread;
\* or the block has the tensors and the retry returns.
SecondChance ==
    \/ pc = "ensured" /\ call = "out" /\ outcome = "PrefetchError"
    \/ pc = "disable" /\ resume = "retry"
    \/ pc = "retry"

\* As long as nothing failed, every layer is prefetched before it is ensured, and
\* what was prefetched or cached arrives: ensure() reads nothing itself.
NothingFailed ==
    /\ enabled /\ call # "read" /\ ~SecondChance /\ pc \notin {"disable", "retried"}
    /\ pools = "open" => \A l \in Layers : stage[l] # "empty"
    /\ pools = "open" /\ pc # "load" => residentData = 0..(ResidentCount - 1)
    /\ pc = "warm" => \A l \in 0..(ahead - 1) : Covered(l)
    /\ pc = "ahead" => ahead > 0 /\ \A l \in layer..(layer + ahead - 1) : Covered(l)
    /\ pc = "ensure" => Covered(layer)
    /\ pc \in {"ensure", "ensured", "compute", "evict"} => Covered(layer + 1)

FaultInv ==
    /\ outcome = "TypeError" => faults > 0
    /\ faults = 0 => NothingFailed
    /\ SecondChance => faults > 1 \/ (faults > 0 /\ layer \in loaded)
    /\ pc = "retried" => faults > 1 \/ (call = "out" /\ outcome \in {"ok", "TypeError"})
    /\ pc = "retried" /\ call = "out" /\ outcome = "PrefetchError" => faults > 2
    /\ RaisesAfterFallbacks /\ (raised => pc \in {"cleanup", "done"})

LEMMA WorkerFaults ==
    ASSUME SweepInv, WorkerStep
    PROVE  /\ faults' \in {faults, faults + 1}
           /\ faults' = faults => \A l \in Layers : stage'[l] = "empty" => stage[l] = "empty"
<1>1. stage \in [Layers -> Stage]
  BY DEF SweepInv, IInv, TypeOK
<1>2. CASE ReadBegin
  BY <1>1, <1>2 DEF ReadBegin, BeginRead
<1>3. CASE UploadBegin
  BY <1>1, <1>3 DEF UploadBegin
<1>4. ASSUME NEW l \in Layers, ReadEnd(l) \/ UploadEnd(l)
      PROVE  faults' = faults /\ \A k \in Layers : stage'[k] = "empty" => stage[k] = "empty"
  BY <1>1, <1>4 DEF ReadEnd, FinishRead, UploadEnd
<1>5. ASSUME NEW l \in Layers, ReadFails(l) \/ UploadFails(l) PROVE faults' = faults + 1
  BY <1>5 DEF ReadFails, FailRead, UploadFails
<1>6. faults \in Nat
  BY DEF SweepInv, IInv, TypeOK
<1> QED
  BY <1>2, <1>3, <1>4, <1>5, <1>6 DEF WorkerStep

\* Each way out of ensure() with an error is a failure of its own.
LEMMA EnsureFaults ==
    ASSUME SweepInv, EnsureStep
    PROVE  /\ faults' \in {faults, faults + 1} /\ loaded \subseteq loaded'
           /\ UNCHANGED <<enabled, residentData>>
           /\ \A l \in Layers : stage'[l] = "empty" => stage[l] = "empty"
           /\ \/ call' # "out" /\ outcome' = outcome
              \/ call' = "out" /\ outcome' = "ok"
              \/ /\ call' = "out" /\ outcome' = "PrefetchError" /\ faults' = faults + 1
                 /\ call = "read" \/ arg \in loaded'
           /\ call' = "read" => call = "read" \/ stage[arg] = "empty"
<1>1. stage \in [Layers -> Stage] /\ arg \in Layers
  BY DEF SweepInv, IInv, TypeOK
<1>2. CASE EnsureWait \/ SyncRead \/ SyncReadEnd
  BY <1>1, <1>2 DEF EnsureWait, SyncRead, BeginRead, SyncReadEnd, FinishRead, callVars
<1>3. CASE SyncReadFails \/ SyncCopyEnd
  BY <1>1, <1>3 DEF SyncReadFails, FailRead, SyncCopyEnd
<1>4. CASE EnsureApply
  BY <1>4 DEF EnsureApply, Apply, jobVars
<1> QED
  BY <1>2, <1>3, <1>4 DEF EnsureStep

\* The prefetch loops cover the layers one after the other.
LEMMA PrefetchCovers ==
    ASSUME NEW l, enabled, Prefetch(l)
    PROVE  /\ CoveredBy(l, loaded' \cup futures')
           /\ loaded \cup futures \subseteq loaded' \cup futures'
BY DEF Prefetch, PrefetchIgnored, CoveredBy

LEMMA FaultStep ==
    ASSUME ~Profiled \/ ResidentCount = 0, SweepInv, FaultInv, [SweepNext]_allVars
    PROVE  FaultInv'
<1>1. /\ layer \in Layers /\ layer \in Nat /\ ahead \in Nat /\ Lookahead \in Nat \ {0}
      /\ NumLayers \in Nat \ {0} /\ ResidentCount \in 0..NumLayers /\ faults \in Nat
      /\ arg \in Layers
  BY SizeAssumption, SweepAssumption
     DEF SweepInv, SweepTypeOK, IInv, TypeOK, Lookahead, Layers
<1>2. CASE Load
  BY <1>1, <1>2 DEF Load, LoadResidentLayers, Goto, FaultInv, RaisesAfterFallbacks, NothingFailed, SecondChance,
     jobVars, callVars
<1>3. CASE WarmUp
  <2>1. pc = "warm" /\ UNCHANGED <<layer, raised>>
    BY <1>3 DEF WarmUp, PrefetchLoop
  <2>2. CASE Goto("ahead", 1) /\ ahead > 0 /\ UNCHANGED vars
    <3>1. faults = 0 => Covered(layer)
      BY <1>1, <2>1, <2>2 DEF FaultInv, RaisesAfterFallbacks, NothingFailed, SweepInv, WindowInv, Covered, CoveredBy, Layers
    <3> QED
      BY <1>1, <2>1, <2>2, <3>1 DEF Goto, vars, jobVars, callVars, FaultInv, RaisesAfterFallbacks, NothingFailed,
         SecondChance, Covered, CoveredBy
  <2>3. CASE Prefetch(ahead) /\ ahead' = ahead + 1 /\ pc' = pc
    <3>1. UNCHANGED <<loaded, residentData, enabled, pools, call, outcome, faults>>
      BY <2>3 DEF Prefetch, callVars
    <3>2. \A l \in Layers : stage'[l] = "empty" => stage[l] = "empty"
      BY <2>3 DEF Prefetch, jobVars, SweepInv, IInv, TypeOK
    <3>3. faults = 0 => \A l \in 0..ahead : CoveredBy(l, loaded' \cup futures')
      <4>1. \A l \in 0..ahead : l = ahead \/ l \in 0..(ahead - 1)
        BY <1>1
      <4>2. ASSUME faults = 0, NEW l \in 0..(ahead - 1)
            PROVE  CoveredBy(l, loaded' \cup futures')
        <5>1. enabled /\ CoveredBy(l, loaded \cup futures)
          BY <2>1, <4>2 DEF FaultInv, RaisesAfterFallbacks, NothingFailed, Covered, CoveredBy
        <5> QED
          BY <2>3, <5>1, PrefetchCovers DEF CoveredBy
      <4>3. faults = 0 => CoveredBy(ahead, loaded' \cup futures')
        BY <2>3, PrefetchCovers DEF FaultInv, RaisesAfterFallbacks, NothingFailed
      <4> QED
        BY <4>1, <4>2, <4>3
    <3> QED
      BY <1>1, <2>1, <2>3, <3>1, <3>2, <3>3 DEF FaultInv, RaisesAfterFallbacks, NothingFailed, SecondChance, Covered, CoveredBy
  <2>4. CASE PrefetchRaises(ahead) /\ Goto("disable", 1) /\ resume' = "ahead"
    BY <1>1, <2>1, <2>4 DEF PrefetchRaises, Goto, callVars, FaultInv, RaisesAfterFallbacks, SecondChance
  <2> QED
    BY <1>1, <1>3, <2>2, <2>3, <2>4 DEF WarmUp, PrefetchLoop
<1>4. CASE PrefetchAhead
  <2>1. pc = "ahead" /\ UNCHANGED <<layer, raised>>
    BY <1>4 DEF PrefetchAhead, PrefetchLoop
  <2>2. CASE Goto("ensure", 0) /\ ahead > Lookahead /\ UNCHANGED vars
    <3>1. layer \in layer..(layer + ahead - 1) /\ layer + 1 \in layer..(layer + ahead - 1)
      BY <1>1, <2>2
    <3>2. faults = 0 => Covered(layer) /\ Covered(layer + 1)
      BY <2>1, <3>1 DEF FaultInv, RaisesAfterFallbacks, NothingFailed
    <3> QED
      BY <2>1, <2>2, <3>2 DEF Goto, vars, jobVars, callVars, FaultInv, RaisesAfterFallbacks, NothingFailed,
         SecondChance, Covered, CoveredBy
  <2>3. CASE Prefetch(layer + ahead) /\ ahead' = ahead + 1 /\ pc' = pc
    <3>1. UNCHANGED <<loaded, residentData, enabled, pools, call, outcome, faults>>
      BY <2>3 DEF Prefetch, callVars
    <3>2. \A l \in Layers : stage'[l] = "empty" => stage[l] = "empty"
      BY <2>3 DEF Prefetch, jobVars, SweepInv, IInv, TypeOK
    <3>3. faults = 0 => \A l \in layer'..(layer' + ahead' - 1) :
                            CoveredBy(l, loaded' \cup futures')
      <4>1. \A l \in layer'..(layer' + ahead' - 1) :
                l = layer + ahead \/ l \in layer..(layer + ahead - 1)
        BY <1>1, <2>1, <2>3
      <4>2. ASSUME faults = 0, NEW l \in layer..(layer + ahead - 1)
            PROVE  CoveredBy(l, loaded' \cup futures')
        <5>1. enabled /\ CoveredBy(l, loaded \cup futures)
          BY <2>1, <4>2 DEF FaultInv, RaisesAfterFallbacks, NothingFailed, Covered, CoveredBy
        <5> QED
          BY <2>3, <5>1, PrefetchCovers DEF CoveredBy
      <4>3. faults = 0 => CoveredBy(layer + ahead, loaded' \cup futures')
        BY <2>3, PrefetchCovers DEF FaultInv, RaisesAfterFallbacks, NothingFailed
      <4> QED
        BY <4>1, <4>2, <4>3
    <3> QED
      BY <1>1, <2>1, <2>3, <3>1, <3>2, <3>3 DEF FaultInv, RaisesAfterFallbacks, NothingFailed, SecondChance, Covered, CoveredBy
  <2>4. CASE PrefetchRaises(layer + ahead) /\ Goto("disable", 0) /\ resume' = "ensure"
    BY <1>1, <2>1, <2>4 DEF PrefetchRaises, Goto, callVars, FaultInv, RaisesAfterFallbacks, SecondChance
  <2> QED
    BY <1>4, <2>2, <2>3, <2>4 DEF PrefetchAhead, PrefetchLoop
<1>5. CASE Disable
  <2>1. /\ pc = "disable" /\ pc' = resume /\ resume \in {"ahead", "ensure", "retry"}
        /\ UNCHANGED <<layer, raised, loaded, outcome, faults, call>>
    BY <1>5 DEF Disable, DisablePrefetch, callVars, SweepInv, CallPlaces
  <2> QED
    BY <2>1 DEF FaultInv, RaisesAfterFallbacks, NothingFailed, SecondChance
<1>6. CASE CallEnsure
  <2>1. /\ pc \in {"ensure", "retry"} /\ Ensure(layer) /\ UNCHANGED <<layer, raised>>
        /\ pc' = IF pc = "ensure" THEN "ensured" ELSE "retried"
        /\ UNCHANGED <<stage, residentData, enabled, pools>> /\ pools = "open" /\ call = "out"
    BY <1>6 DEF CallEnsure, Ensure, EnsureResident, EnsureStreaming, jobVars, Idle
  <2>2. CASE /\ layer \in loaded /\ call' = "out"
             /\ \/ outcome' = "ok"
                \/ outcome' = "TypeError" /\ ResidentCount = 0
             /\ UNCHANGED <<loaded, futures, faults>>
    <3>1. outcome' = "TypeError" => faults > 0
      BY <1>1, <2>1, <2>2 DEF SweepInv, WindowInv, FaultInv, SecondChance
    <3> QED
      BY <2>1, <2>2, <3>1 DEF FaultInv, RaisesAfterFallbacks, NothingFailed, SecondChance, Covered, CoveredBy
  <2>3. CASE /\ layer \notin loaded /\ call' = "out" /\ outcome' = "ok"
             /\ loaded' = loaded \cup {layer} /\ UNCHANGED <<futures, faults>>
    BY <2>1, <2>3 DEF FaultInv, RaisesAfterFallbacks, NothingFailed, SecondChance, Covered, CoveredBy
  <2>4. CASE /\ layer \notin loaded /\ call' = "out" /\ outcome' = "PrefetchError"
             /\ loaded' = loaded \cup {layer} /\ faults' = faults + 1
    BY <1>1, <2>1, <2>4 DEF FaultInv, RaisesAfterFallbacks, SecondChance
  <2>5. CASE /\ layer \notin loaded /\ ~Cached(layer) /\ futures' = futures \ {layer}
             /\ call' = IF layer \in futures THEN "wait" ELSE "read"
             /\ UNCHANGED <<loaded, outcome, faults>>
    <3>1. faults = 0 => layer \in futures /\ pc = "ensure"
      BY <1>1, <2>1, <2>5 DEF FaultInv, RaisesAfterFallbacks, NothingFailed, SecondChance, Covered, CoveredBy, Cached
    <3>2. faults = 0 => Covered(layer + 1)'
      BY <1>1, <2>1, <2>5, <3>1 DEF FaultInv, RaisesAfterFallbacks, NothingFailed, Covered, CoveredBy
    <3> QED
      BY <2>1, <2>5, <3>1, <3>2 DEF FaultInv, RaisesAfterFallbacks, NothingFailed, SecondChance
  <2>6. CASE EnsureResident(layer)
    BY <1>1, <2>1, <2>2, <2>3, <2>4, <2>6 DEF EnsureResident, Cached, Apply, callVars
  <2>7. CASE EnsureStreaming(layer)
    BY <2>1, <2>2, <2>5, <2>7 DEF EnsureStreaming
  <2> QED
    BY <2>1, <2>6, <2>7 DEF Ensure
<1>7. CASE EnsureRuns
  <2>1. /\ EnsureStep /\ UNCHANGED <<pc, resume, layer, ahead, raised>>
        /\ call # "out" /\ UNCHANGED <<futures, arg, pools>>
        /\ pc \in {"ensured", "retried"} /\ arg = layer /\ pools = "open"
    BY <1>7, EnsureEffects DEF EnsureRuns, sweepVars, SweepInv, IInv, CallInv, CallPlaces
  <2>2. faults' = 0 => faults = 0
    BY <1>1, <2>1, EnsureFaults
  <2>3. ASSUME faults' = 0 PROVE NothingFailed'
    <3>1. call' # "read"
      BY <1>1, <2>1, <2>2, <2>3, EnsureFaults DEF FaultInv, RaisesAfterFallbacks, NothingFailed
    <3>2. call' = "out" => outcome' = "ok"
      BY <1>1, <2>1, <2>3, EnsureFaults
    <3>3. Covered(layer + 1)'
      BY <2>1, <2>2, <2>3, EnsureFaults DEF FaultInv, RaisesAfterFallbacks, NothingFailed, Covered, CoveredBy
    <3> QED
      BY <2>1, <2>2, <2>3, <3>1, <3>2, <3>3, EnsureFaults
         DEF FaultInv, RaisesAfterFallbacks, NothingFailed, SecondChance
  <2>4. call = "read" => faults > 0
    BY <1>1 DEF FaultInv, RaisesAfterFallbacks, NothingFailed
  <2>5. SecondChance' => faults' > 1 \/ (faults' > 0 /\ layer' \in loaded')
    BY <1>1, <2>1, <2>4, EnsureFaults DEF SecondChance
  <2>6. pc = "retried" => faults > 1
    BY <2>1 DEF FaultInv
  <2>7. outcome' = "TypeError" => faults' > 0
    BY <1>1, <2>1, EnsureFaults DEF FaultInv
  <2>8. RaisesAfterFallbacks' /\ ~raised'
    BY <2>1 DEF FaultInv, RaisesAfterFallbacks
  <2>9. /\ pc' = "retried" => faults' > 1
        /\ pc' = "retried" /\ call' = "out" /\ outcome' = "PrefetchError" => faults' > 2
    BY <1>1, <2>1, <2>6, EnsureFaults
  <2> QED
    BY <2>3, <2>5, <2>7, <2>8, <2>9 DEF FaultInv
<1>8. CASE EnsureReturns
  <2>1. /\ pc \in {"ensured", "retried"} /\ call = "out"
        /\ UNCHANGED <<layer, ahead, stage, futures, loaded, residentData, enabled, pools, call,
                       outcome, faults>>
        /\ \/ outcome = "ok" /\ pc' = "compute" /\ raised' = raised
           \/ /\ outcome = "PrefetchError" /\ pc = "ensured" /\ pc' = "disable"
              /\ resume' = "retry" /\ raised' = raised
           \/ /\ outcome = "TypeError" \/ (outcome = "PrefetchError" /\ pc = "retried")
              /\ pc' = "cleanup" /\ raised' = TRUE
    BY <1>8 DEF EnsureReturns, vars, jobVars, callVars
  <2> QED
    BY <2>1 DEF FaultInv, RaisesAfterFallbacks, NothingFailed, SecondChance, Covered, CoveredBy
<1>9. CASE Compute
  BY <1>9 DEF Compute, vars, jobVars, callVars, FaultInv, RaisesAfterFallbacks, NothingFailed, SecondChance, Covered, CoveredBy
<1>10. CASE EvictLayer
  <2>1. /\ pc = "evict" /\ raised' = raised
        /\ UNCHANGED <<stage, residentData, enabled, pools, call, outcome, faults>>
        /\ loaded \ {layer} \subseteq loaded' /\ futures \ {layer} \subseteq futures'
    BY <1>10 DEF EvictLayer, Evict, jobVars, callVars
  <2>2. \/ layer' = layer + 1 /\ pc' = "ahead" /\ ahead' = 1
        \/ layer' = 0 /\ pc' = "cleanup"
        \/ layer' = 0 /\ pc' = "warm" /\ ahead' = 0
    BY <1>10 DEF EvictLayer, Goto
  <2>3. faults = 0 => CoveredBy(layer + 1, loaded' \cup futures')
    <3>1. faults = 0 => CoveredBy(layer + 1, loaded \cup futures)
      BY <2>1 DEF FaultInv, RaisesAfterFallbacks, NothingFailed, Covered, CoveredBy
    <3>2. layer + 1 # layer
      BY <1>1
    <3> QED
      BY <2>1, <3>1, <3>2 DEF CoveredBy
  <2>4. \A l \in (layer + 1)..(layer + 1 + 1 - 1) : l = layer + 1
    BY <1>1
  <2> QED
    BY <1>1, <2>1, <2>2, <2>3, <2>4 DEF FaultInv, RaisesAfterFallbacks, NothingFailed, SecondChance, Covered, CoveredBy
<1>11. CASE CleanUp
  <2>1. /\ pc' \in {"cleanup", "done"} /\ pools' # "open"
        /\ UNCHANGED <<raised, enabled, call, outcome, faults>>
    BY <1>11 DEF CleanUp, Cleanup, ShutReadPool, ShutUploadPool, DropEverything, callVars
  <2> QED
    BY <2>1 DEF FaultInv, RaisesAfterFallbacks, NothingFailed, SecondChance
<1>12. CASE WorkersRun
  <2>1. /\ WorkerStep /\ UNCHANGED <<pc, resume, layer, ahead, raised>>
        /\ UNCHANGED <<futures, loaded, residentData, enabled, pools, call, outcome>>
    BY <1>12, WorkerEffects DEF WorkersRun, sweepVars
  <2> QED
    BY <1>1, <2>1, WorkerFaults DEF FaultInv, RaisesAfterFallbacks, NothingFailed, SecondChance, Covered, CoveredBy
<1>13. CASE Done \/ UNCHANGED allVars
  BY <1>13 DEF Done, allVars, vars, jobVars, callVars, sweepVars, FaultInv, RaisesAfterFallbacks, NothingFailed,
     SecondChance, Covered, CoveredBy
<1> QED
  BY <1>2, <1>3, <1>4, <1>5, <1>6, <1>7, <1>8, <1>9, <1>10, <1>11, <1>12, <1>13
     DEF SweepNext, ComputeThread

\* A run raises only after three failures (the prefetch of a layer, its
\* synchronous read and the retry with prefetching disabled) or after a failed
\* apply.  The runner's scheduler has a profiler (swlp.py:100): with resident
\* layers its first ensure() of one raises though nothing failed.
THEOREM FallbacksAddUp ==
    ASSUME PrefetchOn, ~Profiled \/ ResidentCount = 0
    PROVE  SweepSpec => []RaisesAfterFallbacks
<1>1. SweepInit => FaultInv
  BY SizeAssumption
     DEF SweepInit, Init, FaultInv, NothingFailed, SecondChance, RaisesAfterFallbacks
<1>2. SweepInv /\ FaultInv /\ [SweepNext]_allVars => FaultInv'
  BY FaultStep
<1>3. FaultInv => RaisesAfterFallbacks
  BY DEF FaultInv
<1> QED
  BY <1>1, <1>2, <1>3, SweepInvariance, PTL DEF SweepSpec

-----------------------------------------------------------------------------
(* How many read buffers there are.                                        *)

\* Layers whose job has a buffer, and those whose read fills one of its own.
Claiming == {l \in Layers : held[l] # None}
Filling ==
    {l \in Layers : DirectIO /\ held[l] = None /\ stage[l] \in {"reading", "syncReading"}}

LEMMA RangeFinite == ASSUME NEW S, NEW s \in Seq(S) PROVE IsFiniteSet(Range(s))
<1>1. Len(s) \in Nat /\ DOMAIN s = 1..Len(s) /\ s \in [1..Len(s) -> S]
  OBVIOUS
<1>2. IsFiniteSet(1..Len(s))
  BY <1>1, FS_Interval
<1>3. s \in Surjection(1..Len(s), Range(s))
  BY <1>1 DEF Surjection, Range
<1> QED
  BY <1>2, <1>3, FS_Surjection

\* As many jobs hold a buffer as buffers are held.
LEMMA HeldCount ==
    ASSUME IInv PROVE IsFiniteSet(Held) /\ Cardinality(Held) = Cardinality(Claiming)
<1> DEFINE f == [l \in Claiming |-> held[l]]
<1>1. held \in [Layers -> Buffers \cup {None}] /\ Claiming \subseteq Layers
  BY DEF IInv, TypeOK, Claiming
<1>2. \A l \in Claiming : f[l] \in Held
  BY <1>1 DEF Held, Range, Claiming
<1>3. \A k, l \in Claiming : f[k] = f[l] => k = l
  BY <1>1 DEF IInv, BufferOwnership, Claiming
<1>4. \A b \in Held : \E l \in Claiming : f[l] = b
  BY <1>1 DEF Held, Range, Claiming
<1>5. f \in Bijection(Claiming, Held)
  BY <1>2, <1>3, <1>4 DEF Bijection, Injection, Surjection, IsInjective
<1>6. IsFiniteSet(Layers)
  BY SizeAssumption, FS_Interval DEF Layers
<1>7. IsFiniteSet(Claiming)
  BY <1>1, <1>6, FS_Subset
<1> QED
  BY <1>5, <1>7, FS_Bijection DEF ExistsBijection

LEMMA Finite ==
    ASSUME IInv
    PROVE  /\ IsFiniteSet(LiveBuffers) /\ IsFiniteSet(Filling) /\ IsFiniteSet(Claiming)
           /\ BufferCount = Cardinality(LiveBuffers) + Cardinality(Filling)
           /\ Cardinality(LiveBuffers) \in Nat /\ Cardinality(Filling) \in Nat
<1>1. IsFiniteSet(Layers)
  BY SizeAssumption, FS_Interval DEF Layers
<1>2. IsFiniteSet(Filling) /\ IsFiniteSet(Claiming)
  BY <1>1, FS_Subset DEF Filling, Claiming
<1>3. IsFiniteSet(Range(free))
  BY RangeFinite DEF IInv, TypeOK
<1>4. IsFiniteSet(LiveBuffers)
  BY <1>3, HeldCount, FS_Union DEF LiveBuffers
<1>5. BufferCount = Cardinality(LiveBuffers) + Cardinality(Filling)
  BY DEF BufferCount, Filling
<1> QED
  BY <1>2, <1>4, <1>5, FS_CardinalityType

\* Layers with a job are within the lookahead of the layer at work.
LEMMA JobsInWindow ==
    ASSUME SweepInv, NEW l \in Layers, stage[l] # "idle"
    PROVE  l \in layer..(layer + Lookahead)
<1>1. layer \in Layers /\ layer \in Int /\ l \in Int /\ Lookahead \in Nat /\ NumLayers \in Nat
      /\ ResidentCount \in 0..NumLayers
  BY SizeAssumption, SweepAssumption DEF SweepInv, SweepTypeOK, Lookahead, Layers
<1>2. l \in futures \/ l = layer
  BY DEF SweepInv, IInv, FutureInv, NoOrphanJob, CallPlaces
<1>3. l \in futures => ResidentCount < NumLayers
  BY <1>1 DEF SweepInv, IInv, FutureInv, Layers
<1> QED
  BY <1>1, <1>2, <1>3 DEF SweepInv, WindowInv

\* When the free-list is empty every buffer belongs to a job.
LEMMA CountByJobs == ASSUME SweepInv, free = <<>> PROVE BufferBound
<1>1. layer \in Int /\ Lookahead \in Nat
  BY SizeAssumption, SweepAssumption DEF SweepInv, SweepTypeOK, Lookahead, Layers
<1>2. /\ IsFiniteSet(layer..(layer + Lookahead))
      /\ Cardinality(layer..(layer + Lookahead)) = Lookahead + 1
  BY <1>1, FS_Interval
<1>3. Claiming \cup Filling \subseteq layer..(layer + Lookahead)
  BY JobsInWindow DEF SweepInv, IInv, PayloadInv, Claiming, Filling
<1>4. Cardinality(Claiming \cup Filling) <= Lookahead + 1
  BY <1>2, <1>3, FS_Subset
<1>5. /\ IsFiniteSet(Claiming) /\ IsFiniteSet(Filling)
      /\ BufferCount = Cardinality(LiveBuffers) + Cardinality(Filling)
  BY Finite DEF SweepInv
<1>6. Cardinality(Claiming \cup Filling) = Cardinality(Claiming) + Cardinality(Filling)
  <2>1. Claiming \cap Filling = {}
    BY DEF Claiming, Filling
  <2>2. Cardinality(Claiming \cup Filling)
            = Cardinality(Claiming) + Cardinality(Filling) - Cardinality(Claiming \cap Filling)
    BY <1>5, FS_Union
  <2>3. Cardinality(Claiming \cap Filling) = 0
    BY <2>1, FS_EmptySet
  <2>4. Cardinality(Claiming) \in Nat /\ Cardinality(Filling) \in Nat
    BY <1>5, FS_CardinalityType
  <2> QED
    BY <2>2, <2>3, <2>4
<1>7. LiveBuffers = Held
  BY DEF LiveBuffers, Range
<1>8. Cardinality(Held) = Cardinality(Claiming)
  BY HeldCount DEF SweepInv
<1> QED
  BY <1>4, <1>5, <1>6, <1>7, <1>8 DEF BufferBound

-----------------------------------------------------------------------------
(* A step makes no buffer, or fills the one that a read has begun to, or   *)
(* begins a read of its own because none is free.                          *)

NoneMade == LiveBuffers' \subseteq LiveBuffers /\ Filling' \subseteq Filling
OneFilled ==
    \E l \in Filling : \E b \in Buffers :
        LiveBuffers' \subseteq LiveBuffers \cup {b} /\ Filling' \subseteq Filling \ {l}
NoneFree == free' = <<>>

LEMMA BeginReadBuffers ==
    ASSUME IInv, NEW l \in Layers, held[l] = None, NEW s, BeginRead(l, s)
    PROVE  NoneMade \/ NoneFree
<1>1. /\ held \in [Layers -> Buffers \cup {None}] /\ free \in Seq(Buffers) /\ NoRepeats(free)
      /\ stage \in [Layers -> Stage] /\ stage' = [stage EXCEPT ![l] = s] /\ None \notin Buffers
  BY NoneAssumption DEF BeginRead, IInv, TypeOK, BufferOwnership
<1>2. CASE DirectIO /\ free # <<>>
  <2>1. /\ Head(free) \in Buffers /\ Head(free) \in Range(free)
        /\ Range(Tail(free)) \subseteq Range(free)
    BY <1>1, <1>2, TailQueue
  <2>2. held' = [held EXCEPT ![l] = Head(free)] /\ free' = Tail(free)
    BY <1>2 DEF BeginRead
  <2>3. LiveBuffers' \subseteq LiveBuffers
    BY <1>1, <2>1, <2>2 DEF LiveBuffers, Held, Range
  <2>4. Filling' \subseteq Filling
    BY <1>1, <2>1, <2>2 DEF Filling
  <2> QED
    BY <2>3, <2>4 DEF NoneMade
<1>3. CASE DirectIO /\ free = <<>>
  BY <1>3 DEF BeginRead, NoneFree
<1>4. CASE ~DirectIO
  BY <1>4 DEF BeginRead, NoneMade, LiveBuffers, Held, Filling
<1> QED
  BY <1>2, <1>3, <1>4

LEMMA FinishReadBuffers ==
    ASSUME IInv, NEW l \in Layers, stage[l] \in {"reading", "syncReading"},
           NEW s, s \notin {"reading", "syncReading"}, FinishRead(l, s)
    PROVE  NoneMade \/ OneFilled
<1>1. /\ held \in [Layers -> Buffers \cup {None}] /\ stage \in [Layers -> Stage]
      /\ stage' = [stage EXCEPT ![l] = s] /\ free' = free /\ None \notin Buffers
  BY NoneAssumption DEF FinishRead, IInv, TypeOK
<1>2. PICK b \in Storage(l) : held' = [held EXCEPT ![l] = b]
  BY DEF FinishRead
<1>3. Filling' \subseteq Filling \ {l}
  BY <1>1, <1>2 DEF Filling
<1>4. b \in Buffers \cup {None}
  BY <1>1, <1>2 DEF Storage
<1>5. LiveBuffers' \subseteq LiveBuffers \cup ({b} \ {None})
  BY <1>1, <1>2, <1>4 DEF LiveBuffers, Held, Range
<1>6. CASE ~DirectIO \/ held[l] # None
  BY <1>1, <1>2, <1>3, <1>5, <1>6 DEF Storage, NoneMade, LiveBuffers, Held, Range
<1>7. CASE DirectIO /\ held[l] = None
  BY <1>2, <1>3, <1>4, <1>5, <1>7 DEF Storage, OneFilled, Filling
<1> QED
  BY <1>6, <1>7

\* What a job gives up goes to the free-list.
LEMMA RecycledBuffers ==
    ASSUME IInv, NEW l \in Layers
    PROVE  Range(Recycled(l)) \subseteq LiveBuffers
<1>1. held \in [Layers -> Buffers \cup {None}] /\ free \in Seq(Buffers)
  BY DEF IInv, TypeOK
<1>2. CASE held[l] = None
  BY <1>2 DEF Recycled, LiveBuffers
<1>3. CASE held[l] # None
  <2>1. held[l] \in Held
    BY <1>1, <1>3 DEF Held, Range
  <2>2. Range(Append(free, held[l])) \subseteq Range(free) \cup {held[l]}
    <3>1. held[l] \in Buffers
      BY <1>1, <1>3
    <3>2. /\ DOMAIN Append(free, held[l]) = 1..(Len(free) + 1) /\ DOMAIN free = 1..Len(free)
          /\ Len(free) \in Nat /\ Append(free, held[l])[Len(free) + 1] = held[l]
          /\ \A i \in 1..Len(free) : Append(free, held[l])[i] = free[i]
      BY <1>1, <3>1
    <3>3. \A i \in 1..(Len(free) + 1) : i = Len(free) + 1 \/ i \in 1..Len(free)
      BY <3>2
    <3> QED
      BY <3>2, <3>3 DEF Range
  <2> QED
    BY <1>3, <2>1, <2>2 DEF Recycled, LiveBuffers
<1> QED
  BY <1>2, <1>3

LEMMA FailReadBuffers ==
    ASSUME IInv, NEW l \in Layers, stage[l] \in {"reading", "syncReading"},
           NEW s, s \notin {"reading", "syncReading"}, FailRead(l, s)
    PROVE  NoneMade \/ OneFilled
<1>1. /\ held \in [Layers -> Buffers \cup {None}] /\ stage \in [Layers -> Stage]
      /\ free \in Seq(Buffers)
      /\ stage' = [stage EXCEPT ![l] = s] /\ held' = [held EXCEPT ![l] = None]
  BY DEF FailRead, IInv, TypeOK
<1>2. Held' \subseteq Held /\ Filling' \subseteq Filling \ {l}
  BY <1>1 DEF Held, Range, Filling
<1>3. CASE free' = Recycled(l)
  BY <1>2, <1>3, RecycledBuffers DEF NoneMade, LiveBuffers
<1>4. ASSUME NEW b \in Storage(l) \ {None}, held[l] = None, free' = Append(free, b)
      PROVE  OneFilled
  <2>1. b \in Buffers /\ b \notin Range(free) /\ DirectIO
    BY <1>4 DEF Storage, LiveBuffers
  <2>2. Range(free') \subseteq Range(free) \cup {b}
    <3>1. /\ DOMAIN free' = 1..(Len(free) + 1) /\ DOMAIN free = 1..Len(free)
          /\ Len(free) \in Nat /\ free'[Len(free) + 1] = b
          /\ \A i \in 1..Len(free) : free'[i] = free[i]
      BY <1>1, <1>4, <2>1
    <3>2. \A i \in 1..(Len(free) + 1) : i = Len(free) + 1 \/ i \in 1..Len(free)
      BY <3>1
    <3> QED
      BY <3>1, <3>2 DEF Range
  <2>3. l \in Filling
    BY <1>4, <2>1 DEF Filling
  <2> QED
    BY <1>2, <2>1, <2>2, <2>3 DEF OneFilled, LiveBuffers
<1> QED
  BY <1>3, <1>4 DEF FailRead

\* A copy ends, or a queued job is cancelled: its buffer is recycled or lost.
LEMMA ReleaseBuffers ==
    ASSUME IInv, \A k \in Layers : held'[k] \in {held[k], None},
           held' = [k \in Layers |-> held'[k]],
           \A k \in Layers : /\ held[k] # None /\ held'[k] = None
                                   => stage'[k] \notin {"reading", "syncReading"}
                             /\ stage'[k] \in {"reading", "syncReading"} => stage'[k] = stage[k],
           Range(free') \subseteq LiveBuffers
    PROVE  NoneMade
<1>1. held \in [Layers -> Buffers \cup {None}]
  BY DEF IInv, TypeOK
<1>2. Held' \subseteq Held
  BY <1>1 DEF Held, Range
<1>3. Filling' \subseteq Filling
  BY DEF Filling
<1> QED
  BY <1>2, <1>3 DEF NoneMade, LiveBuffers

LEMMA WorkerBuffers ==
    ASSUME IInv, WorkerStep PROVE NoneMade \/ OneFilled \/ NoneFree
<1>1. /\ held \in [Layers -> Buffers \cup {None}] /\ stage \in [Layers -> Stage]
      /\ readQ \in Seq(Layers) /\ uploadQ \in Seq(Layers) /\ NoRepeats(readQ) /\ NoRepeats(uploadQ)
  BY DEF IInv, TypeOK, QueueInv
<1>2. CASE ReadBegin
  <2>1. Head(readQ) \in Layers /\ stage[Head(readQ)] = "queued"
    BY <1>1, <1>2, TailQueue DEF ReadBegin, IInv, QueueInv
  <2>2. held[Head(readQ)] = None
    BY <2>1 DEF IInv, PayloadInv
  <2> QED
    BY <1>2, <2>1, <2>2, BeginReadBuffers DEF ReadBegin
<1>3. CASE UploadBegin
  <2>1. Head(uploadQ) \in Layers
    BY <1>1, <1>3, TailQueue DEF UploadBegin
  <2> QED
    BY <1>1, <1>3, <2>1, ReleaseBuffers DEF UploadBegin, LiveBuffers
<1>4. ASSUME NEW l \in Layers, ReadEnd(l) PROVE NoneMade \/ OneFilled
  BY <1>4, FinishReadBuffers DEF ReadEnd
<1>5. ASSUME NEW l \in Layers, ReadFails(l) PROVE NoneMade \/ OneFilled
  BY <1>5, FailReadBuffers DEF ReadFails
<1>6. ASSUME NEW l \in Layers, UploadEnd(l) \/ UploadFails(l) PROVE NoneMade
  BY <1>1, <1>6, ReleaseBuffers, RecycledBuffers DEF UploadEnd, UploadFails
<1> QED
  BY <1>2, <1>3, <1>4, <1>5, <1>6 DEF WorkerStep

LEMMA EnsureBuffers ==
    ASSUME IInv, EnsureStep PROVE NoneMade \/ OneFilled \/ NoneFree
<1>1. /\ held \in [Layers -> Buffers \cup {None}] /\ stage \in [Layers -> Stage] /\ arg \in Layers
  BY DEF IInv, TypeOK
<1>2. CASE EnsureWait
  BY <1>1, <1>2, ReleaseBuffers DEF EnsureWait, LiveBuffers
<1>3. CASE SyncRead
  <2>1. held[arg] = None
    BY <1>1, <1>3 DEF SyncRead, IInv, PayloadInv
  <2> QED
    BY <1>1, <1>3, <2>1, BeginReadBuffers DEF SyncRead
<1>4. CASE SyncReadEnd
  BY <1>1, <1>4, FinishReadBuffers DEF SyncReadEnd
<1>5. CASE SyncReadFails
  BY <1>1, <1>5, FailReadBuffers DEF SyncReadFails
<1>6. CASE SyncCopyEnd
  BY <1>1, <1>6, ReleaseBuffers, RecycledBuffers DEF SyncCopyEnd
<1>7. CASE EnsureApply
  BY <1>7 DEF EnsureApply, jobVars, NoneMade, LiveBuffers, Held, Filling
<1> QED
  BY <1>2, <1>3, <1>4, <1>5, <1>6, <1>7 DEF EnsureStep

LEMMA ClientBuffers ==
    ASSUME IInv, ClientStep \/ Cleanup PROVE NoneMade
<1>1. held \in [Layers -> Buffers \cup {None}] /\ stage \in [Layers -> Stage]
  BY DEF IInv, TypeOK
<1>2. ASSUME UNCHANGED <<stage, held, free>> PROVE NoneMade
  BY <1>2 DEF NoneMade, LiveBuffers, Held, Filling
<1>3. CASE LoadResidentLayers \/ DisablePrefetch
  BY <1>2, <1>3 DEF LoadResidentLayers, DisablePrefetch, jobVars
<1>4. ASSUME NEW l \in Layers, Prefetch(l) PROVE NoneMade
  <2>1. CASE PrefetchIgnored(l)
    BY <1>2, <1>4, <2>1 DEF Prefetch, jobVars
  <2>2. CASE ~PrefetchIgnored(l)
    BY <1>1, <1>4, <2>2, ReleaseBuffers DEF Prefetch, LiveBuffers
  <2> QED
    BY <2>1, <2>2
<1>5. ASSUME NEW l \in Layers, PrefetchRaises(l) \/ Ensure(l) \/ Evict(l) PROVE NoneMade
  BY <1>2, <1>5 DEF PrefetchRaises, Ensure, EnsureResident, EnsureStreaming, Evict, jobVars
<1>6. CASE ShutReadPool
  BY <1>1, <1>6, ReleaseBuffers DEF ShutReadPool, Cancelled, LiveBuffers
<1>7. CASE ShutUploadPool
  BY <1>1, <1>7, ReleaseBuffers DEF ShutUploadPool, Cancelled, LiveBuffers
<1>8. CASE DropEverything
  <2>1. Range(free') = {}
    BY <1>8, EmptyQueue DEF DropEverything
  <2> QED
    BY <1>1, <1>8, <2>1, ReleaseBuffers DEF DropEverything
<1> QED
  BY <1>3, <1>4, <1>5, <1>6, <1>7, <1>8 DEF ClientStep, Cleanup

LEMMA BufferStep ==
    ASSUME SweepInv, SweepInv', BufferBound, [Next]_vars PROVE BufferBound'
<1>1. CASE NoneFree
  <2>1. (SweepInv /\ free = <<>> => BufferBound)'
    BY CountByJobs, PTL
  <2> QED
    BY <1>1, <2>1 DEF NoneFree
<1> DEFINE live == Cardinality(LiveBuffers)
           filling == Cardinality(Filling)
<1>2. /\ IsFiniteSet(LiveBuffers) /\ IsFiniteSet(Filling) /\ BufferCount = live + filling
      /\ live \in Nat /\ filling \in Nat
  BY Finite DEF SweepInv
<1>3. BufferCount' = live' + filling' /\ live' \in Nat /\ filling' \in Nat
  <2>1. (SweepInv => /\ BufferCount = live + filling /\ live \in Nat /\ filling \in Nat)'
    BY Finite, PTL DEF SweepInv
  <2> QED
    BY <2>1
<1>4. Lookahead \in Nat
  BY SizeAssumption, SweepAssumption DEF Lookahead
<1>5. CASE NoneMade
  <2>1. live' <= live /\ filling' <= filling
    BY <1>2, <1>5, FS_Subset DEF NoneMade
  <2> QED
    BY <1>2, <1>3, <1>4, <2>1 DEF BufferBound
<1>6. CASE OneFilled
  <2>1. PICK l \in Filling, b \in Buffers :
            LiveBuffers' \subseteq LiveBuffers \cup {b} /\ Filling' \subseteq Filling \ {l}
    BY <1>6 DEF OneFilled
  <2>2. IsFiniteSet(LiveBuffers \cup {b}) /\ Cardinality(LiveBuffers \cup {b}) <= live + 1
    <3>1. CASE b \in LiveBuffers
      <4>1. LiveBuffers \cup {b} = LiveBuffers
        BY <3>1
      <4>2. IsFiniteSet(LiveBuffers \cup {b}) /\ Cardinality(LiveBuffers \cup {b}) = live
        BY <1>2, <4>1, Zenon
      <4>3. live <= live + 1
        BY <1>2
      <4> QED
        BY <4>2, <4>3
    <3>2. CASE b \notin LiveBuffers
      <4>1. /\ IsFiniteSet(LiveBuffers \cup {b})
            /\ Cardinality(LiveBuffers \cup {b}) = Cardinality(LiveBuffers) + 1
        BY <1>2, <3>2, FS_AddElement
      <4> QED
        BY <1>2, <4>1
    <3> QED
      BY <3>1, <3>2
  <2>3. IsFiniteSet(Filling \ {l}) /\ Cardinality(Filling \ {l}) = filling - 1
    BY <1>2, <2>1, FS_RemoveElement
  <2>4. live' <= Cardinality(LiveBuffers \cup {b})
    BY <2>1, <2>2, FS_Subset
  <2>5. filling' <= filling - 1
    BY <2>1, <2>3, FS_Subset
  <2>6. Cardinality(LiveBuffers \cup {b}) \in Nat
    BY <2>2, FS_CardinalityType
  <2> QED
    BY <1>2, <1>3, <1>4, <2>2, <2>4, <2>5, <2>6 DEF BufferBound
<1>7. CASE UNCHANGED vars
  BY <1>5, <1>7 DEF vars, jobVars, NoneMade, LiveBuffers, Held, Filling
<1>8. CASE Next
  BY <1>1, <1>5, <1>6, <1>8, WorkerBuffers, EnsureBuffers, ClientBuffers DEF Next, SweepInv
<1> QED
  BY <1>7, <1>8

\* streaming.py, _buf_pool: there are never more read buffers than layers that
\* can be in flight, lookahead + 1, however late copies end and whatever fails.
THEOREM BuffersBounded == SweepSpec => []BufferBound
<1>1. SweepInit => BufferBound
  <2>1. SUFFICES ASSUME SweepInit PROVE BufferBound
    OBVIOUS
  <2>2. SweepInv /\ free = <<>>
    BY <2>1, SweepInvInit DEF SweepInit, Init
  <2> QED
    BY <2>2, CountByJobs
<1>2. SweepInv /\ SweepInv' /\ BufferBound /\ [SweepNext]_allVars => BufferBound'
  BY BufferStep, SweepStepIsSchedulerStep DEF SweepInv
<1> QED
  BY <1>1, <1>2, SweepInvariance, PTL DEF SweepSpec
=============================================================================
