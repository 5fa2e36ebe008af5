------------------------------ MODULE Serving ------------------------------
(***************************************************************************)
(* serve.py: handler threads that share one runner behind a generation     *)
(* lock, and runner/swlp.py: stream_tokens(), which runs the generation on *)
(* a daemon thread and hands its tokens to the handler through a queue.    *)
(*                                                                         *)
(* A token is the request whose generation produced it.                    *)
(***************************************************************************)
EXTENDS Integers, Sequences

CONSTANTS
    Requests,
    Default,        \* generation.max_new_tokens of the configuration
    MaxTokens,      \* bound: largest max_tokens a client asks for
    RunFailures,    \* run() may raise
    None, Sentinel

ASSUME ServingAssumption ==
    /\ Default \in Nat /\ MaxTokens \in Nat
    /\ RunFailures \in BOOLEAN
    /\ None \notin Requests /\ Sentinel \notin Requests

VARIABLES
    lock,       \* ModelHandle.lock
    client,     \* [Requests -> ...] the handler of each request
    connected,  \* [Requests -> BOOLEAN] its client still reads
    asked,      \* [Requests -> Nat] its max_tokens
    sent,       \* [Requests -> Seq(Requests)] tokens written to its client
    run,        \* [Requests -> ...] the daemon thread of its stream_tokens
    original,   \* [Requests -> Nat] original_max of that call
    left,       \* [Requests -> Nat] tokens its decode loop may still produce
    failed,     \* [Requests -> BOOLEAN] run() raised
    queue,      \* [Requests -> Seq] its token_queue
    callback,   \* runner._token_callback: the queue it feeds
    maxNew,     \* runner.config.generation.max_new_tokens
    model       \* runner.model is loaded

handlerVars == <<lock, client, connected, asked, sent>>
runVars == <<run, original, left, failed>>
sharedVars == <<queue, callback, maxNew, model>>
vars == <<handlerVars, runVars, sharedVars>>

Lengths == 0..(IF Default > MaxTokens THEN Default ELSE MaxTokens)

Init ==
    /\ lock = None
    /\ client = [r \in Requests |-> "new"]
    /\ connected = [r \in Requests |-> TRUE]
    /\ asked = [r \in Requests |-> 0]
    /\ sent = [r \in Requests |-> <<>>]
    /\ run = [r \in Requests |-> "none"]
    /\ original = [r \in Requests |-> 0]
    /\ left = [r \in Requests |-> 0]
    /\ failed = [r \in Requests |-> FALSE]
    /\ queue = [r \in Requests |-> <<>>]
    /\ callback = None
    /\ maxNew = Default
    /\ model = TRUE

-----------------------------------------------------------------------------
(* The handler of a request.                                               *)

\* do_POST: a valid request with max_tokens n.
Arrive(r, n) ==
    /\ client[r] = "new"
    /\ client' = [client EXCEPT ![r] = "queued"]
    /\ asked' = [asked EXCEPT ![r] = n]
    /\ UNCHANGED <<lock, connected, sent, runVars, sharedVars>>

\* Mutant of Acquire: complete() without its `with self.lock`.
AcquireWithoutLock(r) ==
    /\ client[r] = "queued"
    /\ lock' = r
    /\ client' = [client EXCEPT ![r] = "streaming"]
    /\ original' = [original EXCEPT ![r] = maxNew]
    /\ maxNew' = asked[r]
    /\ run' = [run EXCEPT ![r] = "starting"]
    /\ UNCHANGED <<connected, asked, sent, left, failed, queue, callback, model>>

\* complete(): take the lock; stream_tokens(): set max_new_tokens, start the
\* daemon thread.
Acquire(r) ==
    /\ client[r] = "queued" /\ lock = None
    /\ lock' = r
    /\ client' = [client EXCEPT ![r] = "streaming"]
    /\ original' = [original EXCEPT ![r] = maxNew]
    /\ maxNew' = asked[r]
    /\ run' = [run EXCEPT ![r] = "starting"]
    /\ UNCHANGED <<connected, asked, sent, left, failed, queue, callback, model>>

\* The client closes the connection.
Disconnect(r) ==
    /\ client[r] = "streaming" /\ connected[r]
    /\ connected' = [connected EXCEPT ![r] = FALSE]
    /\ UNCHANGED <<lock, client, asked, sent, runVars, sharedVars>>

\* A token from the queue is written to the client.  A broken pipe ends the
\* handler; closing the generator releases the lock and nothing else.
Deliver(r) ==
    /\ client[r] = "streaming"
    /\ queue[r] # <<>> /\ Head(queue[r]) # Sentinel
    /\ queue' = [queue EXCEPT ![r] = Tail(@)]
    /\ IF connected[r]
       THEN /\ sent' = [sent EXCEPT ![r] = Append(@, Head(queue[r]))]
            /\ UNCHANGED <<lock, client>>
       ELSE /\ client' = [client EXCEPT ![r] = "gone"]
            /\ lock' = None
            /\ UNCHANGED sent
    /\ UNCHANGED <<connected, asked, runVars, callback, maxNew, model>>

\* The sentinel: join the thread, release the lock, end the response.
Answer(r) ==
    /\ client[r] = "streaming" /\ run[r] = "ended"
    /\ queue[r] # <<>> /\ Head(queue[r]) = Sentinel
    /\ queue' = [queue EXCEPT ![r] = Tail(@)]
    /\ client' = [client EXCEPT ![r] = IF connected[r] THEN "answered" ELSE "gone"]
    /\ lock' = None
    /\ UNCHANGED <<connected, asked, sent, runVars, callback, maxNew, model>>

-----------------------------------------------------------------------------
(* The daemon thread of a request.                                         *)

At(r, place) == run' = [run EXCEPT ![r] = place]

\* _run() installs the callback.
RunStart(r) ==
    /\ run[r] = "starting"
    /\ callback' = r
    /\ At(r, "loading")
    /\ UNCHANGED <<handlerVars, original, left, failed, queue, maxNew, model>>

\* load() is idempotent: the model the last run dropped is loaded again.
RunLoad(r) ==
    /\ run[r] = "loading"
    /\ model' = TRUE
    /\ At(r, "prefill")
    /\ UNCHANGED <<handlerVars, original, left, failed, queue, callback, maxNew>>

\* _emit_tokens: whatever callback is installed gets the token.
Emit(r) ==
    queue' = IF callback = None THEN queue
             ELSE [queue EXCEPT ![callback] = Append(@, r)]

\* The prompt's sweep and the first token; the decode loop takes its length
\* from the shared configuration.
Prefill(r) ==
    /\ run[r] = "prefill" /\ model
    /\ IF maxNew > 0
       THEN Emit(r) /\ left' = [left EXCEPT ![r] = maxNew - 1] /\ At(r, "decode")
       ELSE At(r, "teardown") /\ UNCHANGED <<queue, left>>
    /\ UNCHANGED <<handlerVars, original, failed, callback, maxNew, model>>

\* One sweep, one token, which may be the end of the sequence.
Decode(r) ==
    /\ run[r] = "decode" /\ model /\ left[r] > 0
    /\ Emit(r)
    /\ left' = [left EXCEPT ![r] = @ - 1]
    /\ \/ At(r, "decode")
       \/ At(r, "teardown")
    /\ UNCHANGED <<handlerVars, original, failed, callback, maxNew, model>>

DecodeEnds(r) ==
    /\ run[r] = "decode" /\ left[r] = 0
    /\ At(r, "teardown")
    /\ UNCHANGED <<handlerVars, original, left, failed, sharedVars>>

\* run() raises: a failing sweep, or no model left to sweep.
RunRaises(r) ==
    /\ run[r] \in {"loading", "prefill", "decode"}
    /\ RunFailures \/ (~model /\ run[r] # "loading")
    /\ failed' = [failed EXCEPT ![r] = TRUE]
    /\ At(r, "teardown")
    /\ UNCHANGED <<handlerVars, original, left, sharedVars>>

\* _cleanup_resources(): the shared model is dropped.
Teardown(r) ==
    /\ run[r] = "teardown"
    /\ model' = FALSE
    /\ At(r, "reset")
    /\ UNCHANGED <<handlerVars, original, left, failed, queue, callback, maxNew>>

\* Mutant of Reset: max_new_tokens is not restored.
ResetKeepsLimit(r) ==
    /\ run[r] = "reset"
    /\ callback' = None
    /\ At(r, "sentinel")
    /\ UNCHANGED <<handlerVars, original, left, failed, queue, maxNew, model>>

\* The `finally` of _run().
Reset(r) ==
    /\ run[r] = "reset"
    /\ callback' = None /\ maxNew' = original[r]
    /\ At(r, "sentinel")
    /\ UNCHANGED <<handlerVars, original, left, failed, queue, model>>

\* Mutant of PutSentinel: the sentinel is put only when run() did not raise.
PutSentinelUnlessFailed(r) ==
    /\ run[r] = "sentinel"
    /\ queue' = IF failed[r] THEN queue ELSE [queue EXCEPT ![r] = Append(@, Sentinel)]
    /\ At(r, "ended")
    /\ UNCHANGED <<handlerVars, original, left, failed, callback, maxNew, model>>

PutSentinel(r) ==
    /\ run[r] = "sentinel"
    /\ queue' = [queue EXCEPT ![r] = Append(@, Sentinel)]
    /\ At(r, "ended")
    /\ UNCHANGED <<handlerVars, original, left, failed, callback, maxNew, model>>

-----------------------------------------------------------------------------
Handler(r) == Acquire(r) \/ Deliver(r) \/ Answer(r)

Daemon(r) ==
    \/ RunStart(r) \/ RunLoad(r) \/ Prefill(r) \/ Decode(r) \/ DecodeEnds(r)
    \/ RunRaises(r) \/ Teardown(r) \/ Reset(r) \/ PutSentinel(r)

Next ==
    \E r \in Requests :
        \/ \E n \in 0..MaxTokens : Arrive(r, n)
        \/ Disconnect(r)
        \/ Handler(r)
        \/ Daemon(r)

Spec == Init /\ [][Next]_vars

\* Handlers and daemon threads run; clients owe nothing.  The lock is not
\* fair, so no handler is promised its turn while others keep coming.
FairSpec == Spec /\ \A r \in Requests : WF_vars(Handler(r)) /\ WF_vars(Daemon(r))

-----------------------------------------------------------------------------
(* Properties.                                                             *)

RunPlaces == {"none", "starting", "loading", "prefill", "decode", "teardown",
              "reset", "sentinel", "ended"}

StatesOK ==
    /\ lock \in Requests \cup {None}
    /\ client \in [Requests -> {"new", "queued", "streaming", "answered", "gone"}]
    /\ connected \in [Requests -> BOOLEAN] /\ asked \in [Requests -> Lengths]
    /\ run \in [Requests -> RunPlaces]
    /\ original \in [Requests -> Lengths] /\ left \in [Requests -> Lengths]
    /\ failed \in [Requests -> BOOLEAN]
    /\ callback \in Requests \cup {None}
    /\ maxNew \in Lengths /\ model \in BOOLEAN

StreamsOK ==
    /\ sent \in [Requests -> Seq(Requests)]
    /\ queue \in [Requests -> Seq(Requests \cup {Sentinel})]

\* Every variable keeps its type.
TypeOK == StatesOK /\ StreamsOK

\* The daemon thread of r is alive.
Running(r) == run[r] \notin {"none", "ended"}

\* serve.py: requests are serialized, the scheduler is single-sequence.
Serialized == \A r, s \in Requests : Running(r) /\ Running(s) => r = s

\* As long as no client leaves in the middle of its stream: at any time at
\* most one generation uses the shared runner.
NoOneLeft == \A r \in Requests : connected[r]
SerializedWhileConnected == NoOneLeft => Serialized

\* Until then, a client gets the tokens of its own generation only.
OwnTokens ==
    NoOneLeft => \A r \in Requests : \A i \in 1..Len(sent[r]) : sent[r][i] = r

\* Until then, no response is longer than its max_tokens, whatever other
\* requests set the shared limit to.
LimitRespected == NoOneLeft => \A r \in Requests : Len(sent[r]) <= asked[r]

\* Until then, the shared configuration between two generations is as it was.
ConfigurationRestored ==
    NoOneLeft /\ (\A r \in Requests : ~Running(r)) => maxNew = Default /\ callback = None

\* A request that arrived is answered, or its client is gone: no handler is
\* left waiting for the lock or for a token.
Served ==
    \A r \in Requests : client[r] = "queued" ~> client[r] \in {"answered", "gone"}
=============================================================================
