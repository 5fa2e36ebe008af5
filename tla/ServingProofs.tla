---------------------------- MODULE ServingProofs ----------------------------
(***************************************************************************)
(* The safety of the server as long as no client leaves in the middle of   *)
(* its stream, for any number of requests, any lengths, and runs that may  *)
(* raise at any point; and that a block computes wholly on the device, for *)
(* any number of layers, runs, tensors and faults of the threaded          *)
(* scheduler, with threads that die and threads an earlier run left.       *)
(***************************************************************************)
EXTENDS Serving, ThreadedScheduler, SequenceTheorems, TLAPS

\* Queues and responses hold tokens and sentinels, responses tokens only.
LEMMA StreamsStep == TypeOK /\ [Next]_vars => StreamsOK'
<1> SUFFICES ASSUME TypeOK, [Next]_vars PROVE StreamsOK'
  OBVIOUS
<1>1. CASE UNCHANGED <<sent, queue>>
  BY <1>1 DEF TypeOK, StreamsOK
<1>2. ASSUME NEW r \in Requests, Deliver(r) PROVE StreamsOK'
  <2>1. Head(queue[r]) \in Requests /\ Tail(queue[r]) \in Seq(Requests \cup {Sentinel})
    BY <1>2 DEF Deliver, TypeOK, StreamsOK
  <2>2. queue' \in [Requests -> Seq(Requests \cup {Sentinel})]
    BY <1>2, <2>1 DEF Deliver, TypeOK, StreamsOK
  <2>3. Append(sent[r], Head(queue[r])) \in Seq(Requests)
    BY <2>1 DEF TypeOK, StreamsOK
  <2>4. \/ sent' = sent
        \/ sent' = [sent EXCEPT ![r] = Append(sent[r], Head(queue[r]))]
    BY <1>2 DEF Deliver
  <2>5. sent' \in [Requests -> Seq(Requests)]
    BY <2>3, <2>4 DEF TypeOK, StreamsOK
  <2> QED
    BY <2>2, <2>5 DEF StreamsOK
<1>3. ASSUME NEW r \in Requests, Answer(r) PROVE StreamsOK'
  <2>1. Tail(queue[r]) \in Seq(Requests \cup {Sentinel})
    BY <1>3 DEF Answer, TypeOK, StreamsOK
  <2> QED
    BY <1>3, <2>1 DEF Answer, TypeOK, StreamsOK
<1>4. ASSUME NEW r \in Requests, Emit(r), UNCHANGED sent PROVE StreamsOK'
  BY <1>4 DEF Emit, TypeOK, StatesOK, StreamsOK
<1>5. ASSUME NEW r \in Requests, PutSentinel(r) PROVE StreamsOK'
  BY <1>5 DEF PutSentinel, handlerVars, TypeOK, StreamsOK
<1>6. ASSUME NEW r \in Requests, Daemon(r)
      PROVE  UNCHANGED sent /\ (UNCHANGED queue \/ Emit(r) \/ PutSentinel(r))
  BY <1>6 DEF Daemon, RunStart, RunLoad, Prefill, Decode, DecodeEnds, RunRaises,
     Teardown, Reset, PutSentinel, handlerVars, sharedVars
<1>7. ASSUME NEW r \in Requests, NEW n \in 0..MaxTokens,
             Arrive(r, n) \/ Disconnect(r) \/ Acquire(r)
      PROVE  UNCHANGED <<sent, queue>>
  BY <1>7 DEF Arrive, Disconnect, Acquire, sharedVars
<1>8. 0 \in 0..MaxTokens
  BY ServingAssumption
<1> QED
  BY <1>1, <1>2, <1>3, <1>4, <1>5, <1>6, <1>7, <1>8
     DEF Next, Handler, vars, handlerVars, sharedVars

\* The other variables.
LEMMA StatesStep == TypeOK /\ [Next]_vars => StatesOK'
<1>1. /\ 0 \in Lengths /\ Default \in Lengths /\ 0..MaxTokens \subseteq Lengths
      /\ \A n \in Lengths : n > 0 => n - 1 \in Lengths
      /\ Lengths \subseteq Nat
  BY ServingAssumption DEF Lengths
<1> SUFFICES ASSUME TypeOK, [Next]_vars PROVE StatesOK'
  OBVIOUS
<1> USE DEF TypeOK
<1>2. CASE UNCHANGED vars
  BY <1>2 DEF vars, handlerVars, runVars, sharedVars, StatesOK
<1>3. ASSUME NEW r \in Requests, NEW n \in 0..MaxTokens, Arrive(r, n) PROVE StatesOK'
  BY <1>1, <1>3 DEF Arrive, StatesOK, runVars, sharedVars
<1>4. ASSUME NEW r \in Requests, Disconnect(r) PROVE StatesOK'
  BY <1>4 DEF Disconnect, StatesOK, runVars, sharedVars
<1>5. ASSUME NEW r \in Requests, Acquire(r) PROVE StatesOK'
  BY <1>5 DEF Acquire, StatesOK, RunPlaces
<1>6. ASSUME NEW r \in Requests, Deliver(r) \/ Answer(r) PROVE StatesOK'
  BY <1>6 DEF Deliver, Answer, StatesOK, runVars
<1>7. ASSUME NEW r \in Requests, RunStart(r) \/ RunLoad(r) \/ DecodeEnds(r) \/ RunRaises(r)
                                 \/ Teardown(r) \/ Reset(r) \/ PutSentinel(r)
      PROVE  StatesOK'
  <2>1. \E place \in RunPlaces : run' = [run EXCEPT ![r] = place]
    BY <1>7 DEF RunStart, RunLoad, DecodeEnds, RunRaises, Teardown, Reset, PutSentinel, At,
       RunPlaces
  <2>2. /\ UNCHANGED <<handlerVars, original, left>>
        /\ UNCHANGED failed \/ failed' = [failed EXCEPT ![r] = TRUE]
        /\ callback' \in {callback, r, None}
        /\ maxNew' \in {maxNew, original[r]}
        /\ model' \in {model, TRUE, FALSE}
    BY <1>7 DEF RunStart, RunLoad, DecodeEnds, RunRaises, Teardown, Reset, PutSentinel,
       sharedVars
  <2>3. run' \in [Requests -> RunPlaces]
    BY <2>1 DEF StatesOK
  <2>4. failed' \in [Requests -> BOOLEAN]
    BY <2>2 DEF StatesOK
  <2>5. callback' \in Requests \cup {None}
    BY <2>2 DEF StatesOK
  <2>6. maxNew' \in Lengths
    BY <2>2 DEF StatesOK
  <2>7. model' \in BOOLEAN
    BY <2>2, Zenon DEF StatesOK
  <2> QED
    BY <2>2, <2>3, <2>4, <2>5, <2>6, <2>7 DEF StatesOK, handlerVars
<1>8. ASSUME NEW r \in Requests, Prefill(r) \/ Decode(r) PROVE StatesOK'
  <2>1. UNCHANGED left \/ \E n \in Lengths : left' = [left EXCEPT ![r] = n]
    BY <1>1, <1>8 DEF Prefill, Decode, StatesOK
  <2>2. left' \in [Requests -> Lengths]
    BY <2>1 DEF StatesOK
  <2> QED
    BY <1>8, <2>2 DEF Prefill, Decode, At, RunPlaces, StatesOK, handlerVars
<1> QED
  BY <1>2, <1>3, <1>4, <1>5, <1>6, <1>7, <1>8 DEF Next, Handler, Daemon

\* Every variable keeps its type.
THEOREM TypeCorrect == Spec => []TypeOK
<1>1. Init => TypeOK
  BY ServingAssumption DEF Init, TypeOK, StatesOK, StreamsOK, Lengths, RunPlaces
<1>2. TypeOK /\ [Next]_vars => TypeOK'
  BY StatesStep, StreamsStep DEF TypeOK
<1> QED
  BY <1>1, <1>2, PTL DEF Spec

-----------------------------------------------------------------------------
(* The invariant.                                                          *)

Active == {"loading", "prefill", "decode", "teardown", "reset"}

\* Who holds the lock runs the only generation; callback and limit are its.
LockInv ==
    /\ \A r \in Requests : client[r] = "streaming" <=> lock = r
    /\ \A r \in Requests : Running(r) => lock = r
    /\ \A r \in Requests : client[r] \in {"new", "queued"} => run[r] = "none"

CallbackInv == \A r \in Requests : run[r] \in Active <=> callback = r

LimitInv ==
    /\ (\A r \in Requests : ~Running(r)) => maxNew = Default
    /\ \A r \in Requests : Running(r) =>
        /\ original[r] = Default
        /\ maxNew = IF run[r] = "sentinel" THEN Default ELSE asked[r]

\* What was sent, waits in the queue and may still come is within max_tokens;
\* the sentinel comes on top, and last.
StreamOK(r, response, waiting, limit, place, toCome, state) ==
    /\ response \in Seq({r}) /\ waiting \in Seq({r, Sentinel})
    /\ limit \in Nat /\ toCome \in Nat
    /\ Len(response) <= limit
    /\ place \in {"none", "starting", "loading", "prefill"} =>
        waiting = <<>> /\ response = <<>>
    /\ place # "ended" => Len(response) + Len(waiting) <= limit
    /\ place = "decode" => Len(response) + Len(waiting) + toCome <= limit
    /\ place = "ended" /\ state = "streaming" =>
        /\ waiting # <<>> /\ waiting[Len(waiting)] = Sentinel
        /\ Len(response) + Len(waiting) <= limit + 1

StreamInv(r) == StreamOK(r, sent[r], queue[r], asked[r], run[r], left[r], client[r])

ServingInv ==
    NoOneLeft => LockInv /\ CallbackInv /\ LimitInv /\ \A r \in Requests : StreamInv(r)

\* Lock and runner: the handler's steps and the thread's.
LEMMA LockStep ==
    ASSUME StatesOK, NoOneLeft, LockInv, [Next]_vars, NoOneLeft'
    PROVE  LockInv'
<1>2. CASE UNCHANGED vars
  BY <1>2 DEF vars, handlerVars, runVars, sharedVars, LockInv, Running
<1>3. ASSUME NEW r \in Requests, NEW n \in 0..MaxTokens, Arrive(r, n) PROVE LockInv'
  BY <1>3 DEF Arrive, StatesOK, runVars, LockInv, Running
<1>4. ASSUME NEW r \in Requests, Disconnect(r) PROVE LockInv'
  BY <1>4 DEF Disconnect, StatesOK, NoOneLeft
<1>5. ASSUME NEW r \in Requests, Acquire(r) PROVE LockInv'
  BY <1>5, ServingAssumption DEF Acquire, StatesOK, LockInv, Running
<1>6. ASSUME NEW r \in Requests, Deliver(r) PROVE LockInv'
  BY <1>6 DEF Deliver, StatesOK, NoOneLeft, runVars, LockInv, Running
<1>7. ASSUME NEW r \in Requests, Answer(r) PROVE LockInv'
  BY <1>7, ServingAssumption DEF Answer, StatesOK, NoOneLeft, runVars, LockInv, Running
<1>8. ASSUME NEW r \in Requests, Daemon(r) PROVE LockInv'
  <2>1. UNCHANGED <<lock, client>> /\ run[r] \notin {"none", "ended"}
    BY <1>8 DEF Daemon, RunStart, RunLoad, Prefill, Decode, DecodeEnds, RunRaises,
       Teardown, Reset, PutSentinel, handlerVars
  <2>2. \E place \in RunPlaces \ {"none"} : run' = [run EXCEPT ![r] = place]
    BY <1>8 DEF Daemon, RunStart, RunLoad, Prefill, Decode, DecodeEnds, RunRaises,
       Teardown, Reset, PutSentinel, At, RunPlaces, StatesOK
  <2> QED
    BY <2>1, <2>2 DEF LockInv, Running, StatesOK
<1> QED
  BY <1>2, <1>3, <1>4, <1>5, <1>6, <1>7, <1>8 DEF Next, Handler

\* The callback is that of the generation between RunStart and Reset.
LEMMA CallbackStep ==
    ASSUME StatesOK, NoOneLeft, LockInv, CallbackInv, [Next]_vars, NoOneLeft'
    PROVE  CallbackInv'
<1>1. \A r, s \in Requests : Running(r) /\ Running(s) => r = s
  BY DEF LockInv
<1>2. CASE UNCHANGED vars
  BY <1>2 DEF vars, runVars, sharedVars, CallbackInv
<1>3. ASSUME NEW r \in Requests, NEW n \in 0..MaxTokens, Arrive(r, n) PROVE CallbackInv'
  BY <1>3 DEF Arrive, runVars, sharedVars, CallbackInv
<1>4. ASSUME NEW r \in Requests, Disconnect(r) PROVE CallbackInv'
  BY <1>4 DEF Disconnect, StatesOK, NoOneLeft
<1>5. ASSUME NEW r \in Requests, Handler(r) PROVE CallbackInv'
  <2>1. CASE Acquire(r)
    BY <2>1 DEF Acquire, StatesOK, LockInv, CallbackInv, Active
  <2>2. CASE Deliver(r) \/ Answer(r)
    BY <2>2 DEF Deliver, Answer, runVars, CallbackInv
  <2> QED
    BY <1>5, <2>1, <2>2 DEF Handler
<1>6. ASSUME NEW r \in Requests, RunStart(r) \/ Reset(r) PROVE CallbackInv'
  BY <1>1, <1>6, ServingAssumption DEF RunStart, Reset, At, StatesOK, CallbackInv, Active,
     Running
<1>7. ASSUME NEW r \in Requests, RunLoad(r) \/ Prefill(r) \/ Decode(r) \/ DecodeEnds(r)
                                 \/ RunRaises(r) \/ Teardown(r) \/ PutSentinel(r)
      PROVE  CallbackInv'
  <2>1. UNCHANGED callback
    BY <1>7 DEF RunLoad, Prefill, Decode, DecodeEnds, RunRaises, Teardown, PutSentinel,
       sharedVars
  <2>2. \/ /\ run[r] \in Active
           /\ \E place \in Active : run' = [run EXCEPT ![r] = place]
        \/ run[r] = "sentinel" /\ run' = [run EXCEPT ![r] = "ended"]
    BY <1>7 DEF RunLoad, Prefill, Decode, DecodeEnds, RunRaises, Teardown, PutSentinel,
       At, Active
  <2> QED
    BY <2>1, <2>2 DEF CallbackInv, StatesOK, Active
<1> QED
  BY <1>2, <1>3, <1>4, <1>5, <1>6, <1>7 DEF Next, Daemon

\* The shared limit is the running request's, and the default between runs.
LEMMA LimitStep ==
    ASSUME StatesOK, NoOneLeft, LockInv, LimitInv, [Next]_vars, NoOneLeft'
    PROVE  LimitInv'
<1>1. \A r, s \in Requests : Running(r) /\ Running(s) => r = s
  BY DEF LockInv
<1>2. CASE UNCHANGED vars
  BY <1>2 DEF vars, handlerVars, runVars, sharedVars, LimitInv, Running
<1>3. ASSUME NEW r \in Requests, NEW n \in 0..MaxTokens, Arrive(r, n) PROVE LimitInv'
  BY <1>3 DEF Arrive, StatesOK, runVars, sharedVars, LockInv, LimitInv, Running
<1>4. ASSUME NEW r \in Requests, Disconnect(r) PROVE LimitInv'
  BY <1>4 DEF Disconnect, StatesOK, NoOneLeft
<1>5. ASSUME NEW r \in Requests, Acquire(r) PROVE LimitInv'
  <2>1. \A s \in Requests : ~Running(s)
    BY <1>5, ServingAssumption DEF Acquire, LockInv
  <2> QED
    BY <1>5, <2>1 DEF Acquire, StatesOK, LimitInv, Running
<1>6. ASSUME NEW r \in Requests, Deliver(r) \/ Answer(r) PROVE LimitInv'
  BY <1>6 DEF Deliver, Answer, runVars, LimitInv, Running
<1>7. ASSUME NEW r \in Requests, Daemon(r) PROVE LimitInv'
  <2>1. /\ UNCHANGED <<asked, original>>
        /\ Running(r)
        /\ \E place \in RunPlaces \ {"none"} :
              /\ run' = [run EXCEPT ![r] = place]
              /\ \/ /\ UNCHANGED maxNew
                    /\ run[r] = "sentinel" => place = "ended"
                    /\ place \in {"ended", "sentinel"} => run[r] = "sentinel"
                 \/ maxNew' = original[r] /\ place = "sentinel"
    BY <1>7 DEF Daemon, RunStart, RunLoad, Prefill, Decode, DecodeEnds, RunRaises,
       Teardown, Reset, PutSentinel, At, RunPlaces, Running, handlerVars, sharedVars
  <2> QED
    BY <1>1, <2>1 DEF LimitInv, Running, StatesOK
<1> QED
  BY <1>2, <1>3, <1>4, <1>5, <1>6, <1>7 DEF Next, Handler

\* Before the first token.
LEMMA EmptyStream ==
    ASSUME NEW r, NEW limit \in Nat, NEW toCome \in Nat, NEW state,
           NEW place \in {"none", "starting", "loading", "prefill", "teardown", "reset"}
    PROVE  StreamOK(r, <<>>, <<>>, limit, place, toCome, state)
BY DEF StreamOK

\* Deliver moves a token from the queue to the client.
LEMMA Delivering ==
    ASSUME NEW r, NEW response, NEW waiting, NEW limit, NEW place, NEW toCome,
           StreamOK(r, response, waiting, limit, place, toCome, "streaming"),
           waiting # <<>>, Head(waiting) # Sentinel
    PROVE  StreamOK(r, Append(response, Head(waiting)), Tail(waiting), limit, place, toCome,
                    "streaming")
<1> DEFINE response2 == Append(response, Head(waiting))
           waiting2 == Tail(waiting)
<1>1. /\ response \in Seq({r}) /\ waiting \in Seq({r, Sentinel})
      /\ limit \in Nat /\ toCome \in Nat
  BY DEF StreamOK
<1>2. Len(response) \in Nat /\ Len(waiting) \in Nat /\ Len(waiting) > 0
  BY <1>1
<1>3. Head(waiting) = r
  BY <1>1, HeadTailProperties
<1>4. /\ response2 \in Seq({r}) /\ Len(response2) = Len(response) + 1
      /\ response2 # <<>>
  BY <1>1, <1>3, AppendProperties
<1>5. /\ waiting2 \in Seq({r, Sentinel}) /\ Len(waiting2) = Len(waiting) - 1
      /\ \A i \in 1..Len(waiting2) : waiting2[i] = waiting[i + 1]
  BY <1>1, HeadTailProperties
<1>6. place \notin {"none", "starting", "loading", "prefill"}
  BY DEF StreamOK
<1>7. CASE place = "ended"
  <2>1. /\ waiting[Len(waiting)] = Sentinel
        /\ Len(response) + Len(waiting) <= limit + 1
    BY <1>7 DEF StreamOK
  <2>2. Len(waiting) > 1
    BY <1>1, <1>2, <1>3, <2>1
  <2>3. waiting2 # <<>> /\ waiting2[Len(waiting2)] = Sentinel
    <3>1. /\ Len(waiting2) \in 1..Len(waiting2) /\ Len(waiting2) > 0
          /\ Len(waiting2) + 1 = Len(waiting)
      BY <1>2, <1>5, <2>2
    <3>2. waiting2[Len(waiting2)] = waiting[Len(waiting2) + 1]
      BY <1>5, <3>1
    <3> HIDE DEF waiting2
    <3>3. waiting2[Len(waiting2)] = Sentinel
      BY <2>1, <3>1, <3>2
    <3>4. waiting2 # <<>>
      BY <3>1
    <3> QED
      BY <3>3, <3>4
  <2>4. Len(response2) <= limit /\ Len(response2) + Len(waiting2) <= limit + 1
    BY <1>1, <1>2, <1>4, <1>5, <2>1, <2>2
  <2> QED
    BY <1>1, <1>4, <1>5, <1>7, <2>3, <2>4 DEF StreamOK
<1>8. CASE place # "ended"
  <2>1. /\ Len(response) + Len(waiting) <= limit
        /\ place = "decode" => Len(response) + Len(waiting) + toCome <= limit
    BY <1>8 DEF StreamOK
  <2>2. /\ Len(response2) <= limit
        /\ Len(response2) + Len(waiting2) <= limit
        /\ place = "decode" => Len(response2) + Len(waiting2) + toCome <= limit
    BY <1>1, <1>2, <1>4, <1>5, <2>1
  <2> QED
    BY <1>1, <1>4, <1>5, <1>6, <1>8, <2>2 DEF StreamOK
<1> QED
  BY <1>7, <1>8

\* Answer takes the sentinel; nothing is promised of the stream after it.
LEMMA Answering ==
    ASSUME NEW r, NEW response, NEW waiting, NEW limit, NEW toCome,
           StreamOK(r, response, waiting, limit, "ended", toCome, "streaming"),
           waiting # <<>>
    PROVE  StreamOK(r, response, Tail(waiting), limit, "ended", toCome, "answered")
BY HeadTailProperties DEF StreamOK

\* A token is queued; the rest of the limit may still come.
LEMMA Emitting ==
    ASSUME NEW r, NEW response, NEW waiting, NEW limit, NEW place, NEW toCome, NEW toCome2 \in Nat,
           NEW place2 \in {"decode", "teardown"}, NEW state,
           StreamOK(r, response, waiting, limit, place, toCome, state),
           \/ place = "prefill" /\ toCome2 = limit - 1
           \/ place = "decode" /\ toCome2 = toCome - 1
    PROVE  StreamOK(r, response, Append(waiting, r), limit, place2, toCome2, state)
<1> DEFINE waiting2 == Append(waiting, r)
<1>1. /\ response \in Seq({r}) /\ waiting \in Seq({r, Sentinel})
      /\ limit \in Nat /\ toCome \in Nat
  BY DEF StreamOK
<1>2. Len(response) \in Nat /\ Len(waiting) \in Nat
  BY <1>1
<1>3. /\ waiting2 \in Seq({r, Sentinel}) /\ Len(waiting2) = Len(waiting) + 1
  BY <1>1, AppendProperties
<1>4. Len(response) + Len(waiting2) + toCome2 <= limit
  <2>1. CASE place = "prefill"
    BY <1>1, <1>3, <2>1 DEF StreamOK
  <2>2. CASE place = "decode"
    <3>1. Len(response) + Len(waiting) + toCome <= limit
      BY <2>2 DEF StreamOK
    <3> QED
      BY <1>1, <1>2, <1>3, <2>2, <3>1
  <2> QED
    BY <2>1, <2>2
<1>5. Len(response) <= limit /\ Len(response) + Len(waiting2) <= limit
  BY <1>1, <1>2, <1>3, <1>4
<1> QED
  BY <1>1, <1>3, <1>4, <1>5 DEF StreamOK

\* The thread goes on to a place where it produces nothing more.
LEMMA Moving ==
    ASSUME NEW r, NEW response, NEW waiting, NEW limit, NEW place, NEW toCome, NEW state,
           NEW place2 \in {"teardown", "reset", "sentinel"}, place # "ended",
           StreamOK(r, response, waiting, limit, place, toCome, state)
    PROVE  StreamOK(r, response, waiting, limit, place2, toCome, state)
BY DEF StreamOK

\* PutSentinel.
LEMMA Ending ==
    ASSUME NEW r, NEW response, NEW waiting, NEW limit, NEW toCome, NEW state,
           StreamOK(r, response, waiting, limit, "sentinel", toCome, state)
    PROVE  StreamOK(r, response, Append(waiting, Sentinel), limit, "ended", toCome, state)
<1> DEFINE waiting2 == Append(waiting, Sentinel)
<1>1. /\ response \in Seq({r}) /\ waiting \in Seq({r, Sentinel})
      /\ limit \in Nat /\ toCome \in Nat /\ Len(response) + Len(waiting) <= limit
      /\ Len(response) <= limit
  BY DEF StreamOK
<1>2. Len(response) \in Nat /\ Len(waiting) \in Nat
  BY <1>1
<1>3. /\ waiting2 \in Seq({r, Sentinel}) /\ Len(waiting2) = Len(waiting) + 1
      /\ waiting2 # <<>> /\ waiting2[Len(waiting) + 1] = Sentinel
  <2>1. Sentinel \in {r, Sentinel} /\ waiting \in Seq({r, Sentinel})
    BY <1>1
  <2> QED
    BY <2>1, AppendProperties, Zenon
<1>4. Len(response) + Len(waiting2) <= limit + 1
  BY <1>1, <1>2, <1>3
<1> QED
  BY <1>1, <1>3, <1>4 DEF StreamOK

\* What a client was sent and may still get.
LEMMA StreamStep ==
    ASSUME TypeOK, NoOneLeft, LockInv, CallbackInv, LimitInv,
           \A r \in Requests : StreamInv(r), [Next]_vars, NoOneLeft'
    PROVE  \A r \in Requests : StreamInv(r)'
<1> SUFFICES ASSUME NEW s \in Requests PROVE StreamInv(s)'
  OBVIOUS
<1>1. StreamInv(s)
  OBVIOUS
<1>2. /\ asked[s] \in Nat /\ left[s] \in Nat /\ maxNew \in Nat
      /\ asked'[s] \in Nat /\ left'[s] \in Nat
  <2>1. TypeOK'
    BY StatesStep, StreamsStep DEF TypeOK
  <2> QED
    BY <2>1, ServingAssumption DEF TypeOK, StatesOK, Lengths
<1> DEFINE Same(r) == /\ sent'[r] = sent[r] /\ queue'[r] = queue[r]
                      /\ asked'[r] = asked[r] /\ left'[r] = left[r]
                      /\ run'[r] = run[r] /\ client'[r] = client[r]
<1>3. CASE Same(s)
  BY <1>1, <1>3 DEF StreamInv
<1>4. CASE UNCHANGED vars
  BY <1>3, <1>4 DEF vars, handlerVars, runVars, sharedVars
<1>5. ASSUME NEW r \in Requests, Disconnect(r) PROVE FALSE
  BY <1>5 DEF Disconnect, TypeOK, StatesOK, NoOneLeft
<1>6. ASSUME NEW n \in 0..MaxTokens, Arrive(s, n) PROVE StreamInv(s)'
  <2>1. /\ run[s] = "none" /\ run'[s] = "none"
        /\ queue'[s] = queue[s] /\ sent'[s] = sent[s]
    BY <1>6 DEF Arrive, LockInv, runVars, sharedVars
  <2>2. queue[s] = <<>> /\ sent[s] = <<>>
    BY <1>1, <2>1 DEF StreamInv, StreamOK
  <2> QED
    BY <1>2, <2>1, <2>2, EmptyStream DEF StreamInv
<1>7. ASSUME Acquire(s) PROVE StreamInv(s)'
  <2>1. /\ run[s] = "none" /\ run'[s] = "starting"
        /\ queue'[s] = queue[s] /\ sent'[s] = sent[s]
    BY <1>7 DEF Acquire, LockInv, TypeOK, StatesOK
  <2>2. queue[s] = <<>> /\ sent[s] = <<>>
    BY <1>1, <2>1 DEF StreamInv, StreamOK
  <2> QED
    BY <1>2, <2>1, <2>2, EmptyStream DEF StreamInv
<1>8. ASSUME Deliver(s) PROVE StreamInv(s)'
  <2>1. /\ queue[s] # <<>> /\ Head(queue[s]) # Sentinel
        /\ client[s] = "streaming" /\ client'[s] = "streaming"
        /\ sent'[s] = Append(sent[s], Head(queue[s])) /\ queue'[s] = Tail(queue[s])
        /\ asked'[s] = asked[s] /\ run'[s] = run[s] /\ left'[s] = left[s]
    BY <1>8 DEF Deliver, NoOneLeft, runVars, TypeOK, StatesOK, StreamsOK
  <2> QED
    BY <1>1, <2>1, Delivering DEF StreamInv
<1>9. ASSUME Answer(s) PROVE StreamInv(s)'
  <2>1. /\ queue[s] # <<>> /\ run[s] = "ended" /\ run'[s] = "ended"
        /\ client[s] = "streaming" /\ client'[s] = "answered"
        /\ queue'[s] = Tail(queue[s]) /\ sent'[s] = sent[s]
        /\ asked'[s] = asked[s] /\ left'[s] = left[s]
    BY <1>9 DEF Answer, NoOneLeft, runVars, TypeOK, StatesOK, StreamsOK
  <2> QED
    BY <1>1, <2>1, Answering DEF StreamInv
<1>10. ASSUME NEW r \in Requests, Prefill(r) \/ Decode(r) PROVE callback = r
  BY <1>10 DEF Prefill, Decode, CallbackInv, Active
<1>11. ASSUME Prefill(s) \/ Decode(s) PROVE StreamInv(s)'
  <2>1. /\ sent'[s] = sent[s] /\ asked'[s] = asked[s] /\ client'[s] = client[s]
        /\ run'[s] \in {"decode", "teardown"}
    BY <1>11 DEF Prefill, Decode, At, handlerVars, TypeOK, StatesOK
  <2>2. \/ Emit(s)
        \/ run[s] = "prefill" /\ run'[s] = "teardown" /\ queue'[s] = queue[s]
    BY <1>11 DEF Prefill, Decode, At, TypeOK, StatesOK
  <2>3. CASE Emit(s)
    <3>1. queue'[s] = Append(queue[s], s)
      BY <1>10, <1>11, <2>3, ServingAssumption DEF Emit, TypeOK, StreamsOK
    <3>2. run[s] = "prefill" => maxNew = asked[s]
      BY DEF LimitInv, Running
    <3>3. CASE Prefill(s) /\ maxNew > 0
      <4>1. run[s] = "prefill" /\ left'[s] = maxNew - 1
        BY <3>3 DEF Prefill, TypeOK, StatesOK
      <4>2. left'[s] = asked[s] - 1
        BY <3>2, <4>1
      <4>3. left'[s] \in Nat
        BY <1>2, <3>2, <3>3, <4>1
      <4>4. StreamOK(s, sent[s], Append(queue[s], s), asked[s], run'[s], left'[s], client[s])
        BY <1>1, <2>1, <4>1, <4>2, <4>3, Emitting DEF StreamInv
      <4> QED
        BY <2>1, <3>1, <4>4 DEF StreamInv
    <3>4. CASE Decode(s)
      <4>1. run[s] = "decode" /\ left[s] > 0 /\ left'[s] = left[s] - 1
        BY <3>4 DEF Decode, TypeOK, StatesOK
      <4>2. left'[s] \in Nat
        BY <1>2, <4>1
      <4>3. StreamOK(s, sent[s], Append(queue[s], s), asked[s], run'[s], left'[s], client[s])
        BY <1>1, <2>1, <4>1, <4>2, Emitting DEF StreamInv
      <4> QED
        BY <2>1, <3>1, <4>3 DEF StreamInv
    <3>5. CASE Prefill(s) /\ ~(maxNew > 0)
      <4>1. queue' = queue
        BY <3>5 DEF Prefill
      <4>2. Len(queue'[s]) = Len(queue[s]) + 1 /\ Len(queue[s]) \in Nat
        BY <3>1, AppendProperties DEF TypeOK, StreamsOK
      <4> QED
        BY <4>1, <4>2
    <3> QED
      BY <1>11, <3>3, <3>4, <3>5
  <2>4. CASE run[s] = "prefill" /\ run'[s] = "teardown" /\ queue'[s] = queue[s]
    <3>1. queue[s] = <<>> /\ sent[s] = <<>>
      BY <1>1, <2>4 DEF StreamInv, StreamOK
    <3> QED
      BY <1>2, <2>1, <2>4, <3>1, EmptyStream DEF StreamInv
  <2> QED
    BY <2>2, <2>3, <2>4
<1>12. ASSUME PutSentinel(s) PROVE StreamInv(s)'
  <2>1. /\ run[s] = "sentinel" /\ run'[s] = "ended"
        /\ queue'[s] = Append(queue[s], Sentinel)
        /\ sent'[s] = sent[s] /\ asked'[s] = asked[s]
        /\ client'[s] = client[s] /\ left'[s] = left[s]
    BY <1>12 DEF PutSentinel, At, handlerVars, TypeOK, StatesOK, StreamsOK
  <2> QED
    BY <1>1, <2>1, Ending DEF StreamInv
<1>13. ASSUME RunStart(s) \/ RunLoad(s) PROVE StreamInv(s)'
  <2>1. /\ run[s] \in {"starting", "loading"} /\ run'[s] \in {"loading", "prefill"}
        /\ sent'[s] = sent[s] /\ queue'[s] = queue[s]
    BY <1>13 DEF RunStart, RunLoad, At, handlerVars, TypeOK, StatesOK
  <2>2. queue[s] = <<>> /\ sent[s] = <<>>
    BY <1>1, <2>1 DEF StreamInv, StreamOK
  <2> QED
    BY <1>2, <2>1, <2>2, EmptyStream DEF StreamInv
<1>14. ASSUME DecodeEnds(s) \/ RunRaises(s) \/ Teardown(s) \/ Reset(s) PROVE StreamInv(s)'
  <2>1. /\ run[s] # "ended" /\ run'[s] \in {"teardown", "reset", "sentinel"}
        /\ sent'[s] = sent[s] /\ queue'[s] = queue[s] /\ asked'[s] = asked[s]
        /\ client'[s] = client[s] /\ left'[s] = left[s]
    BY <1>14 DEF DecodeEnds, RunRaises, Teardown, Reset, At, handlerVars, sharedVars, TypeOK,
       StatesOK
  <2> QED
    BY <1>1, <2>1, Moving DEF StreamInv
<1>15. ASSUME NEW r \in Requests, Daemon(r), s # r PROVE Same(s)
  <2>1. CASE Prefill(r) \/ Decode(r)
    <3>1. queue'[s] = queue[s]
      BY <1>10, <1>15, <2>1 DEF Prefill, Decode, Emit, TypeOK, StreamsOK
    <3>2. left'[s] = left[s] /\ run'[s] = run[s]
      BY <1>15, <2>1 DEF Prefill, Decode, At, TypeOK, StatesOK
    <3>3. sent' = sent /\ asked' = asked /\ client' = client
      BY <2>1 DEF Prefill, Decode, handlerVars
    <3> QED
      BY <3>1, <3>2, <3>3
  <2>2. CASE ~(Prefill(r) \/ Decode(r))
    BY <1>15, <2>2 DEF Daemon, RunStart, RunLoad, DecodeEnds, RunRaises, Teardown, Reset,
       PutSentinel, At, handlerVars, sharedVars, TypeOK, StatesOK, StreamsOK
  <2> QED
    BY <2>1, <2>2
<1>16. ASSUME NEW r \in Requests, NEW n \in 0..MaxTokens, Arrive(r, n) \/ Handler(r), s # r
       PROVE  Same(s)
  BY <1>16 DEF Arrive, Handler, Acquire, Deliver, Answer, runVars, sharedVars, TypeOK,
     StatesOK, StreamsOK
<1>17. ASSUME NEW r \in Requests, Handler(r) PROVE StreamInv(s)'
  <2>1. 0 \in 0..MaxTokens
    BY ServingAssumption
  <2>2. CASE s = r
    BY <1>7, <1>8, <1>9, <1>17, <2>2 DEF Handler
  <2>3. CASE s # r
    BY <1>3, <1>16, <1>17, <2>1, <2>3
  <2> QED
    BY <2>2, <2>3
<1>18. ASSUME NEW r \in Requests, Daemon(r) PROVE StreamInv(s)'
  <2>1. CASE s = r
    BY <1>11, <1>12, <1>13, <1>14, <1>18, <2>1 DEF Daemon
  <2>2. CASE s # r
    BY <1>3, <1>15, <1>18, <2>2
  <2> QED
    BY <2>1, <2>2
<1>19. ASSUME NEW r \in Requests, NEW n \in 0..MaxTokens, Arrive(r, n) PROVE StreamInv(s)'
  BY <1>3, <1>6, <1>16, <1>19
<1> QED
  BY <1>4, <1>5, <1>17, <1>18, <1>19 DEF Next

-----------------------------------------------------------------------------
(* The theorems.                                                           *)

\* The invariant that the safety of the server rests on.
THEOREM Invariance == Spec => [](TypeOK /\ ServingInv)
<1>1. Init => ServingInv
  <2> SUFFICES ASSUME Init PROVE ServingInv
    OBVIOUS
  <2>1. LockInv /\ CallbackInv /\ LimitInv
    BY ServingAssumption DEF Init, LockInv, CallbackInv, LimitInv, Running, Active
  <2>2. \A r \in Requests : StreamInv(r)
    BY EmptyStream DEF Init, StreamInv
  <2> QED
    BY <2>1, <2>2 DEF ServingInv
<1>2. TypeOK /\ ServingInv /\ [Next]_vars => ServingInv'
  <2> SUFFICES ASSUME TypeOK, ServingInv, [Next]_vars, NoOneLeft'
               PROVE  LockInv' /\ CallbackInv' /\ LimitInv'
                      /\ \A r \in Requests : StreamInv(r)'
    BY DEF ServingInv
  <2>1. NoOneLeft
    <3>1. \A r \in Requests : connected'[r] => connected[r]
      BY DEF Next, Handler, Daemon, Arrive, Disconnect, Acquire, Deliver, Answer, RunStart,
         RunLoad, Prefill, Decode, DecodeEnds, RunRaises, Teardown, Reset, PutSentinel,
         vars, handlerVars, TypeOK, StatesOK
    <3> QED
      BY <3>1 DEF NoOneLeft
  <2>2. TypeOK /\ StatesOK
    BY DEF TypeOK
  <2> QED
    BY <2>1, <2>2, LockStep, CallbackStep, LimitStep, StreamStep DEF ServingInv
<1> QED
  BY <1>1, <1>2, TypeCorrect, PTL DEF Spec

\* Until a client leaves in the middle of its stream, one generation at a
\* time uses the shared runner.
THEOREM ServingSerialized == Spec => []SerializedWhileConnected
<1>1. ServingInv => SerializedWhileConnected
  BY DEF ServingInv, SerializedWhileConnected, Serialized, LockInv
<1> QED
  BY <1>1, Invariance, PTL

\* Until then every client gets its own generation's tokens, at most as many
\* as it asked for.
THEOREM StreamsCorrect == Spec => [](OwnTokens /\ LimitRespected)
<1>1. ServingInv => OwnTokens /\ LimitRespected
  <2> SUFFICES ASSUME NoOneLeft, ServingInv, NEW r \in Requests
               PROVE  /\ \A i \in 1..Len(sent[r]) : sent[r][i] = r
                      /\ Len(sent[r]) <= asked[r]
    BY DEF OwnTokens, LimitRespected
  <2>1. sent[r] \in Seq({r}) /\ Len(sent[r]) <= asked[r]
    BY DEF ServingInv, StreamInv, StreamOK
  <2> QED
    BY <2>1, ElementOfSeq
<1> QED
  BY <1>1, Invariance, PTL

\* Until then every run leaves callback and limit as it found them.
THEOREM ConfigurationKept == Spec => []ConfigurationRestored
<1>1. TypeOK /\ ServingInv => ConfigurationRestored
  <2> SUFFICES ASSUME TypeOK, ServingInv, NoOneLeft, \A r \in Requests : ~Running(r)
               PROVE  maxNew = Default /\ callback = None
    BY DEF ConfigurationRestored
  <2>1. maxNew = Default
    BY DEF ServingInv, LimitInv
  <2>2. \A r \in Requests : callback # r
    BY DEF ServingInv, CallbackInv, Active, Running
  <2> QED
    BY <2>1, <2>2 DEF TypeOK, StatesOK
<1> QED
  BY <1>1, Invariance, PTL

-----------------------------------------------------------------------------
(* The threads of the threaded scheduler.                                  *)

USE DEF blocks

\* The token of a sweep is unfinished until the run cleans up.
InSweep == pc \in {"idle", "warm", "ahead", "ensure", "move", "compute", "evict"} => token < Tokens

\* Until the run has ended, what a thread has moved is on the device: nobody
\* evicts the block under it.
MoversMoved == pc # "ended" => \A m \in movers : m.moved \subseteq onDevice[m.layer]

\* A loaded block is on the device, or its eviction raised.
LoadedMoved == pc # "ended" => \A l \in loaded : onDevice[l] = Parts \/ l \in torn

\* From ensure() to the eviction no thread moves the block.
NobodyMoves == pc \in {"move", "compute", "evict"} => Joined

ThreadedInv ==
    ThreadedTypeOK /\ InSweep /\ MoversMoved /\ LoadedMoved /\ NobodyMoves /\ ComputeOnDevice

LEMMA Sizes ==
    /\ NumLayers \in Nat \ {0} /\ Tokens \in Nat \ {0} /\ MaxFaults \in Nat
           /\ Lookahead \in Nat /\ PrefetchOn \in BOOLEAN /\ 0 \in Layers
BY ThreadedAssumption DEF Lookahead, Layers

LEMMA Initially == ASSUME ThreadedInit PROVE ThreadedInv
<1>1. ThreadedTypeOK
  <2>1. onDevice \in [Layers -> SUBSET Parts] /\ torn \in SUBSET Layers
    BY DEF ThreadedInit
  <2>2. token \in 0..Tokens /\ ahead \in 0..(Lookahead + 1) /\ faults \in 0..MaxFaults
    BY Sizes DEF ThreadedInit
  <2>3. movers \in SUBSET [layer : Layers, moved : SUBSET Parts] /\ layer \in Layers
    BY Sizes DEF ThreadedInit
  <2>4. /\ loaded \in SUBSET Layers /\ threads \in SUBSET Layers
        /\ enabled \in BOOLEAN /\ retried \in BOOLEAN /\ pc = "idle"
    BY DEF ThreadedInit
  <2> QED
    BY <2>1, <2>2, <2>3, <2>4 DEF ThreadedTypeOK
<1> QED
  BY <1>1, Sizes DEF ThreadedInit, ThreadedInv, InSweep, MoversMoved, LoadedMoved, NobodyMoves,
     ComputeOnDevice

-----------------------------------------------------------------------------
(* One lemma for each action.                                              *)

LEMMA FaultCounted ==
    ASSUME ThreadedTypeOK, Fault PROVE faults' \in 0..MaxFaults
BY ThreadedAssumption DEF ThreadedTypeOK, Fault

LEMMA MovePartKeeps == ASSUME ThreadedInv, MovePart PROVE ThreadedInv'
<1>1. PICK m \in movers : \E p \in Parts \ m.moved :
          /\ onDevice' = [onDevice EXCEPT ![m.layer] = @ \cup {p}]
          /\ movers' = (movers \ {m}) \cup {[m EXCEPT !.moved = @ \cup {p}]}
  BY DEF MovePart
<1>2. PICK p \in Parts \ m.moved :
          /\ onDevice' = [onDevice EXCEPT ![m.layer] = @ \cup {p}]
          /\ movers' = (movers \ {m}) \cup {[m EXCEPT !.moved = @ \cup {p}]}
  BY <1>1
<1>3. UNCHANGED <<torn, scheduler, loop, pc, faults>>
  BY DEF MovePart
<1> DEFINE n == [m EXCEPT !.moved = @ \cup {p}]
<1>4. /\ m \in [layer : Layers, moved : SUBSET Parts]
      /\ n \in [layer : Layers, moved : SUBSET Parts]
      /\ n.layer = m.layer /\ n.moved = m.moved \cup {p}
  BY <1>2 DEF ThreadedInv, ThreadedTypeOK
<1>5. ThreadedTypeOK'
  BY <1>2, <1>3, <1>4 DEF ThreadedInv, ThreadedTypeOK, scheduler, loop
<1>6. \A l \in Layers : onDevice[l] \subseteq onDevice'[l] /\ onDevice'[l] \subseteq Parts
  BY <1>2, <1>4 DEF ThreadedInv, ThreadedTypeOK
<1>7. MoversMoved'
  <2>1. pc # "ended" => n.moved \subseteq onDevice'[n.layer]
    BY <1>2, <1>4 DEF ThreadedInv, ThreadedTypeOK, MoversMoved
  <2>2. pc # "ended" => \A k \in movers \ {m} : k.moved \subseteq onDevice'[k.layer]
    BY <1>6 DEF ThreadedInv, ThreadedTypeOK, MoversMoved
  <2> QED
    BY <1>2, <1>3, <2>1, <2>2 DEF MoversMoved, loop
<1>8. LoadedMoved' /\ ComputeOnDevice'
  <2>1. \A l \in Layers : onDevice[l] = Parts => onDevice'[l] = Parts
    BY <1>6
  <2>2. loaded \subseteq Layers /\ layer \in Layers
    BY DEF ThreadedInv, ThreadedTypeOK
  <2> QED
    BY <1>3, <2>1, <2>2 DEF ThreadedInv, LoadedMoved, ComputeOnDevice, scheduler, loop
<1>9. InSweep' /\ NobodyMoves'
  BY <1>2, <1>3, <1>4 DEF ThreadedInv, InSweep, NobodyMoves, Joined, loop
<1> QED
  BY <1>5, <1>7, <1>8, <1>9 DEF ThreadedInv

LEMMA MoveDoneKeeps == ASSUME ThreadedInv, MoveDone PROVE ThreadedInv'
<1>1. PICK m \in movers :
          /\ m.moved = Parts /\ movers' = movers \ {m}
          /\ loaded' = loaded \cup {m.layer} /\ threads' = threads \ {m.layer}
  BY DEF MoveDone
<1>2. UNCHANGED <<blocks, enabled, loop, pc, faults>>
  BY DEF MoveDone
<1>3. m.layer \in Layers
  BY <1>1 DEF ThreadedInv, ThreadedTypeOK
<1>4. pc # "ended" => onDevice[m.layer] = Parts
  BY <1>1, <1>3 DEF ThreadedInv, ThreadedTypeOK, MoversMoved
<1>5. ThreadedTypeOK'
  BY <1>1, <1>2, <1>3 DEF ThreadedInv, ThreadedTypeOK, loop
<1>6. LoadedMoved'
  BY <1>1, <1>2, <1>4 DEF ThreadedInv, LoadedMoved
<1>7. InSweep' /\ MoversMoved' /\ NobodyMoves' /\ ComputeOnDevice'
  BY <1>1, <1>2 DEF ThreadedInv, InSweep, MoversMoved, NobodyMoves, Joined, ComputeOnDevice, loop
<1> QED
  BY <1>5, <1>6, <1>7 DEF ThreadedInv

LEMMA MoveRaisesKeeps == ASSUME ThreadedInv, MoveRaises PROVE ThreadedInv'
<1>1. movers' \subseteq movers /\ UNCHANGED <<blocks, scheduler, loop, pc>>
  BY DEF MoveRaises
<1>2. ThreadedTypeOK'
  BY <1>1, FaultCounted DEF MoveRaises, ThreadedInv, ThreadedTypeOK, scheduler, loop
<1> QED
  BY <1>1, <1>2 DEF ThreadedInv, InSweep, MoversMoved, LoadedMoved, NobodyMoves, Joined,
     ComputeOnDevice, scheduler, loop

LEMMA StartRunKeeps == ASSUME ThreadedInv, StartRun PROVE ThreadedInv'
<1>1. pc' = "warm" /\ enabled' = PrefetchOn /\ UNCHANGED <<blocks, loaded, threads, movers, loop, faults>>
  BY DEF StartRun
<1>2. token < Tokens
  BY DEF StartRun, ThreadedInv, InSweep
<1>3. ThreadedTypeOK'
  BY <1>1, Sizes DEF ThreadedInv, ThreadedTypeOK, loop
<1> QED
  BY <1>1, <1>2, <1>3 DEF StartRun, ThreadedInv, InSweep, MoversMoved, LoadedMoved, NobodyMoves,
     ComputeOnDevice, loop

-----------------------------------------------------------------------------
(* The compute thread.                                                     *)

\* What prefetch() changes, and what it says of the thread it may start.
LEMMA PrefetchTypes ==
    ASSUME ThreadedTypeOK, InSweep, MoversMoved, NEW l \in Nat, Prefetch(l),
           ahead <= Lookahead, pc \in {"warm", "ahead"}, UNCHANGED onDevice
    PROVE  /\ threads' \in SUBSET Layers /\ ahead' \in 0..(Lookahead + 1)
           /\ movers' \in SUBSET [layer : Layers, moved : SUBSET Parts]
           /\ faults' \in 0..MaxFaults /\ pc' \in {pc, "cleanup"}
           /\ MoversMoved'
<1>1. Lookahead \in Nat
  BY ThreadedAssumption DEF Lookahead
<1>2. CASE ~enabled \/ l >= NumLayers \/ Known(l)
  BY <1>1, <1>2 DEF Prefetch, ThreadedTypeOK, InSweep, MoversMoved
<1>3. CASE ~(~enabled \/ l >= NumLayers \/ Known(l))
  <2>1. l \in Layers
    BY <1>3, ThreadedAssumption DEF Layers
  <2>2. CASE /\ movers' = movers \cup {[layer |-> l, moved |-> {}]}
             /\ ahead' = ahead + 1 /\ UNCHANGED <<pc, faults>>
    <3> DEFINE m == [layer |-> l, moved |-> {}]
    <3>1. m \in [layer : Layers, moved : SUBSET Parts]
      BY <2>1 DEF ThreadedTypeOK, InSweep
    <3>2. MoversMoved'
      BY <2>2 DEF ThreadedTypeOK, MoversMoved
    <3>3. threads' \in SUBSET Layers
      <4>1. threads' = threads \cup {l}
        BY <1>3 DEF Prefetch
      <4> QED
        BY <2>1, <4>1 DEF ThreadedTypeOK
    <3>4. ahead' \in 0..(Lookahead + 1)
      BY <1>1, <2>2 DEF ThreadedTypeOK
    <3>5. movers' \in SUBSET [layer : Layers, moved : SUBSET Parts]
      BY <2>2, <3>1 DEF ThreadedTypeOK
    <3>6. faults' \in 0..MaxFaults /\ pc' \in {pc, "cleanup"}
      BY <2>2 DEF ThreadedTypeOK
    <3> QED
      BY <3>2, <3>3, <3>4, <3>5, <3>6
  <2>3. CASE Fault /\ pc' = "cleanup" /\ UNCHANGED <<movers, ahead>>
    BY <1>1, <1>3, <2>1, <2>3, FaultCounted DEF Prefetch, ThreadedTypeOK, InSweep, MoversMoved
  <2> QED
    BY <1>3, <2>2, <2>3 DEF Prefetch
<1> QED
  BY <1>2, <1>3

LEMMA WarmUpKeeps == ASSUME ThreadedInv, WarmUp PROVE ThreadedInv'
<1>1. UNCHANGED <<blocks, loaded, enabled, token, layer, retried>> /\ pc = "warm"
  BY DEF WarmUp
<1>2. CASE ahead < Lookahead
  <2>1. Prefetch(ahead) /\ ahead \in Nat /\ ahead <= Lookahead
    BY <1>2, Sizes DEF WarmUp, ThreadedInv, ThreadedTypeOK
  <2>2. /\ threads' \in SUBSET Layers /\ ahead' \in 0..(Lookahead + 1)
        /\ movers' \in SUBSET [layer : Layers, moved : SUBSET Parts]
        /\ faults' \in 0..MaxFaults /\ pc' \in {pc, "cleanup"} /\ MoversMoved'
    BY <1>1, <2>1, PrefetchTypes DEF ThreadedInv
  <2>3. ThreadedTypeOK'
    BY <1>1, <2>2 DEF ThreadedInv, ThreadedTypeOK
  <2> QED
    BY <1>1, <2>2, <2>3 DEF ThreadedInv, InSweep, LoadedMoved, NobodyMoves, ComputeOnDevice
<1>3. CASE ~(ahead < Lookahead)
  <2>1. pc' = "ahead" /\ ahead' = 1 /\ UNCHANGED <<threads, movers, faults>>
    BY <1>3 DEF WarmUp
  <2>2. ThreadedTypeOK'
    BY <1>1, <2>1, Sizes DEF ThreadedInv, ThreadedTypeOK
  <2> QED
    BY <1>1, <2>1, <2>2 DEF ThreadedInv, InSweep, MoversMoved, LoadedMoved, NobodyMoves,
       ComputeOnDevice
<1> QED
  BY <1>2, <1>3

LEMMA PrefetchAheadKeeps ==
    ASSUME ThreadedInv, PrefetchAhead PROVE ThreadedInv'
<1>1. UNCHANGED <<blocks, loaded, enabled, token, layer, retried>> /\ pc = "ahead"
  BY DEF PrefetchAhead
<1>2. CASE ahead <= Lookahead
  <2>1. Prefetch(layer + ahead) /\ layer + ahead \in Nat
    BY <1>2, Sizes DEF PrefetchAhead, ThreadedInv, ThreadedTypeOK, Layers
  <2>2. /\ threads' \in SUBSET Layers /\ ahead' \in 0..(Lookahead + 1)
        /\ movers' \in SUBSET [layer : Layers, moved : SUBSET Parts]
        /\ faults' \in 0..MaxFaults /\ pc' \in {pc, "cleanup"} /\ MoversMoved'
    BY <1>1, <1>2, <2>1, PrefetchTypes DEF ThreadedInv
  <2>3. ThreadedTypeOK'
    BY <1>1, <2>2 DEF ThreadedInv, ThreadedTypeOK
  <2> QED
    BY <1>1, <2>2, <2>3 DEF ThreadedInv, InSweep, LoadedMoved, NobodyMoves, ComputeOnDevice
<1>3. CASE ~(ahead <= Lookahead)
  <2>1. pc' = "ensure" /\ UNCHANGED <<ahead, threads, movers, faults>>
    BY <1>3 DEF PrefetchAhead
  <2>2. ThreadedTypeOK'
    BY <1>1, <2>1 DEF ThreadedInv, ThreadedTypeOK
  <2> QED
    BY <1>1, <2>1, <2>2 DEF ThreadedInv, InSweep, MoversMoved, LoadedMoved, NobodyMoves,
       ComputeOnDevice
<1> QED
  BY <1>2, <1>3

\* The join makes the two cases exact: the layer is loaded, or nobody moves it.
LEMMA EnsureKeeps == ASSUME ThreadedInv, Ensure PROVE ThreadedInv'
<1>1. /\ pc = "ensure" /\ Joined /\ UNCHANGED <<blocks, scheduler, movers, loop, faults>>
      /\ pc' = IF layer \in loaded THEN "compute" ELSE "move"
  BY DEF Ensure
<1>2. ThreadedTypeOK'
  BY <1>1 DEF ThreadedInv, ThreadedTypeOK, scheduler, loop
<1>3. ComputeOnDevice' /\ LoadedMoved'
  BY <1>1 DEF ThreadedInv, LoadedMoved, ComputeOnDevice, scheduler, loop
<1> QED
  BY <1>1, <1>2, <1>3 DEF ThreadedInv, InSweep, MoversMoved, NobodyMoves, Joined, scheduler, loop

LEMMA MoveHereKeeps == ASSUME ThreadedInv, MoveHere PROVE ThreadedInv'
<1>1. pc = "move" /\ UNCHANGED <<torn, enabled, movers, loop, faults>>
  BY DEF MoveHere
<1>2. ASSUME NEW p \in Unmoved(layer),
             onDevice' = [onDevice EXCEPT ![layer] = @ \cup {p}],
             UNCHANGED <<loaded, threads, pc>>
      PROVE  ThreadedInv'
  <2>1. p \in Parts /\ layer \in Layers
    BY DEF Unmoved, ThreadedInv, ThreadedTypeOK
  <2>2. ThreadedTypeOK'
    BY <1>1, <1>2, <2>1 DEF ThreadedInv, ThreadedTypeOK, loop
  <2>3. \A l \in Layers : onDevice[l] \subseteq onDevice'[l]
                         /\ (onDevice[l] = Parts => onDevice'[l] = Parts)
    BY <1>2, <2>1 DEF ThreadedInv, ThreadedTypeOK
  <2>4. MoversMoved'
    <3>1. ASSUME pc # "ended", NEW m \in movers PROVE m.moved \subseteq onDevice'[m.layer]
      <4>1. m.moved \subseteq onDevice[m.layer] /\ m.layer \in Layers
        BY <3>1 DEF ThreadedInv, ThreadedTypeOK, MoversMoved
      <4> QED
        BY <2>3, <4>1
    <3>2. movers' = movers /\ pc' = pc
      BY <1>1, <1>2
    <3> QED
      BY <3>1, <3>2 DEF MoversMoved
  <2>5. LoadedMoved'
    BY <1>1, <1>2, <2>3 DEF ThreadedInv, ThreadedTypeOK, LoadedMoved
  <2> QED
    BY <1>1, <1>2, <2>2, <2>4, <2>5 DEF ThreadedInv, InSweep, NobodyMoves, Joined,
       ComputeOnDevice, loop
<1>3. ASSUME Unmoved(layer) = {}, loaded' = loaded \cup {layer}, threads' = threads \ {layer},
             pc' = "compute", UNCHANGED onDevice
      PROVE  ThreadedInv'
  <2>1. onDevice[layer] = Parts /\ layer \in Layers
    BY <1>3 DEF Unmoved, ThreadedInv, ThreadedTypeOK
  <2>2. ThreadedTypeOK'
    BY <1>1, <1>3, <2>1 DEF ThreadedInv, ThreadedTypeOK, loop
  <2> QED
    BY <1>1, <1>3, <2>1, <2>2 DEF ThreadedInv, InSweep, MoversMoved, LoadedMoved, NobodyMoves,
       Joined, ComputeOnDevice, loop
<1> QED
  BY <1>2, <1>3 DEF MoveHere

LEMMA MoveHereRaisesKeeps ==
    ASSUME ThreadedInv, MoveHereRaises PROVE ThreadedInv'
<1>1. /\ pc = "move" /\ enabled' = FALSE /\ retried' = TRUE
      /\ pc' \in {"ensure", "cleanup"}
      /\ UNCHANGED <<blocks, loaded, threads, movers, token, layer, ahead>>
  BY DEF MoveHereRaises
<1>2. faults' \in 0..MaxFaults
  BY FaultCounted DEF MoveHereRaises, ThreadedInv
<1>3. ThreadedTypeOK'
  BY <1>1, <1>2 DEF ThreadedInv, ThreadedTypeOK
<1> QED
  BY <1>1, <1>3 DEF ThreadedInv, InSweep, MoversMoved, LoadedMoved, NobodyMoves, ComputeOnDevice

LEMMA ComputeKeeps == ASSUME ThreadedInv, Compute PROVE ThreadedInv'
<1>1. pc = "compute" /\ pc' \in {"evict", "cleanup"} /\ UNCHANGED <<blocks, scheduler, movers, loop>>
  BY DEF Compute
<1>2. faults' \in 0..MaxFaults
  BY FaultCounted DEF Compute, ThreadedInv, ThreadedTypeOK
<1>3. ThreadedTypeOK'
  BY <1>1, <1>2 DEF ThreadedInv, ThreadedTypeOK, scheduler, loop
<1> QED
  BY <1>1, <1>3 DEF ThreadedInv, InSweep, MoversMoved, LoadedMoved, NobodyMoves, Joined,
     ComputeOnDevice, scheduler, loop

\* An eviction takes nothing from a block it does not name; one that raises
\* leaves the layer loaded and torn.
LEMMA Evicting ==
    ASSUME ThreadedTypeOK, NEW layers \in SUBSET Layers, EvictAll(layers)
    PROVE  /\ onDevice' \in [Layers -> SUBSET Parts] /\ torn' \in SUBSET Layers
           /\ loaded' \subseteq loaded /\ faults' \in 0..MaxFaults
           /\ \A l \in Layers \ layers :
                 /\ onDevice'[l] = onDevice[l]
                 /\ l \in torn => l \in torn'
           /\ \A l \in layers : l \in loaded' => l \in torn'
<1>1. PICK stuck \in SUBSET (layers \cap loaded) :
          /\ IF stuck = {} THEN UNCHANGED faults ELSE Fault
          /\ \E kept \in [stuck -> SUBSET Parts] :
                onDevice' = [l \in Layers |->
                                IF l \in stuck THEN onDevice[l] \cap kept[l]
                                ELSE IF l \in layers \cap loaded THEN {} ELSE onDevice[l]]
          /\ loaded' = loaded \ (layers \ stuck)
          /\ torn' = (torn \ layers) \cup stuck
  BY DEF EvictAll
<1>2. PICK kept \in [stuck -> SUBSET Parts] :
          onDevice' = [l \in Layers |->
                          IF l \in stuck THEN onDevice[l] \cap kept[l]
                          ELSE IF l \in layers \cap loaded THEN {} ELSE onDevice[l]]
  BY <1>1
<1>3. onDevice' \in [Layers -> SUBSET Parts]
  BY <1>2 DEF ThreadedTypeOK
<1>4. faults' \in 0..MaxFaults
  BY <1>1, FaultCounted DEF ThreadedTypeOK
<1>5. \A l \in Layers \ layers : onDevice'[l] = onDevice[l]
  BY <1>2
<1> QED
  BY <1>1, <1>3, <1>4, <1>5 DEF ThreadedTypeOK

\* No thread moves the block that is evicted.
LEMMA EvictKeeps == ASSUME ThreadedInv, Evict PROVE ThreadedInv'
<1>1. pc = "evict" /\ UNCHANGED <<enabled, movers>> /\ retried' = FALSE /\ EvictAll({layer})
  BY DEF Evict
<1>2. layer \in Layers
  BY DEF ThreadedInv, ThreadedTypeOK
<1>3. /\ onDevice' \in [Layers -> SUBSET Parts] /\ torn' \in SUBSET Layers
      /\ loaded' \subseteq loaded /\ threads' \subseteq threads /\ faults' \in 0..MaxFaults
      /\ \A l \in Layers \ {layer} : onDevice'[l] = onDevice[l] /\ (l \in torn => l \in torn')
      /\ layer \in loaded' => layer \in torn'
  <2>1. {layer} \in SUBSET Layers
    BY <1>2
  <2>2. threads' \subseteq threads
    BY DEF Evict
  <2> QED
    BY <1>1, <2>1, <2>2, Evicting DEF ThreadedInv
<1>4. /\ layer' \in Layers /\ token' \in 0..Tokens /\ ahead' \in 0..(Lookahead + 1)
      /\ pc' \in {"ahead", "warm", "cleanup"} /\ (pc' # "cleanup" => token' < Tokens)
  <2>1. token \in 0..Tokens /\ token < Tokens /\ layer \in 0..(NumLayers - 1)
    BY <1>1 DEF ThreadedInv, ThreadedTypeOK, InSweep, Layers
  <2> QED
    BY <2>1, Sizes DEF Evict, LayersLeft, Layers
<1>5. ThreadedTypeOK'
  BY <1>1, <1>3, <1>4 DEF ThreadedInv, ThreadedTypeOK
<1>6. MoversMoved'
  BY <1>1, <1>3 DEF ThreadedInv, ThreadedTypeOK, MoversMoved, NobodyMoves, Joined
<1>7. LoadedMoved'
  BY <1>1, <1>3 DEF ThreadedInv, ThreadedTypeOK, LoadedMoved
<1> QED
  BY <1>1, <1>4, <1>5, <1>6, <1>7 DEF ThreadedInv, InSweep, NobodyMoves, ComputeOnDevice

LEMMA CleanupKeeps == ASSUME ThreadedInv, Cleanup PROVE ThreadedInv'
<1>1. /\ pc' = "ended" /\ EvictAll(Layers) /\ threads' = {}
      /\ UNCHANGED <<enabled, movers, loop>>
  BY DEF Cleanup
<1>2. /\ onDevice' \in [Layers -> SUBSET Parts] /\ torn' \in SUBSET Layers
      /\ loaded' \subseteq loaded /\ faults' \in 0..MaxFaults
  BY <1>1, Evicting DEF ThreadedInv
<1>3. ThreadedTypeOK'
  BY <1>1, <1>2 DEF ThreadedInv, ThreadedTypeOK, loop
<1> QED
  BY <1>1, <1>3 DEF ThreadedInv, InSweep, MoversMoved, LoadedMoved, NobodyMoves, ComputeOnDevice

-----------------------------------------------------------------------------
THEOREM ThreadedInvariance == ThreadedSpec => []ThreadedInv
<1>1. ThreadedInit => ThreadedInv
  BY Initially
<1>2. ThreadedInv /\ [ThreadedNext]_threadedVars => ThreadedInv'
  <2> SUFFICES ASSUME ThreadedInv, [ThreadedNext]_threadedVars PROVE ThreadedInv'
    OBVIOUS
  <2>1. CASE UNCHANGED threadedVars
    BY <2>1 DEF threadedVars, scheduler, loop, ThreadedInv, ThreadedTypeOK, InSweep, MoversMoved, LoadedMoved,
       NobodyMoves, Joined, ComputeOnDevice
  <2> QED
    BY <2>1, MovePartKeeps, MoveDoneKeeps, MoveRaisesKeeps, StartRunKeeps, WarmUpKeeps,
       PrefetchAheadKeeps, EnsureKeeps, MoveHereKeeps, MoveHereRaisesKeeps, ComputeKeeps,
       EvictKeeps, CleanupKeeps DEF ThreadedNext, Sweep
<1> QED
  BY <1>1, <1>2, PTL DEF ThreadedSpec

\* Every variable keeps its type, for every value of the constants.
THEOREM ThreadedTypeCorrect == ThreadedSpec => []ThreadedTypeOK
<1>1. ThreadedInv => ThreadedTypeOK
  BY DEF ThreadedInv
<1> QED
  BY <1>1, ThreadedInvariance, PTL

\* scheduler.py, ensure() and evict(): a block computes with all its tensors on
\* the device, whatever threads died over it, unless its last eviction raised.
THEOREM OnDeviceSafe == ThreadedSpec => []ComputeOnDevice
<1>1. ThreadedInv => ComputeOnDevice
  BY DEF ThreadedInv
<1> QED
  BY <1>1, ThreadedInvariance, PTL
=============================================================================
