----------------------------- MODULE Conversation -----------------------------
(***************************************************************************)
(* A chat (chat.py): the history, the prompt made of it, an answer that is *)
(* streamed and may be stopped (ui.stream_markdown), the slash commands,   *)
(* and the prompt cache that the MLX runner keeps from turn to turn        *)
(* (runner/mlx.py).                                                        *)
(*                                                                         *)
(* A text is the sequence of its pieces: words, the markers of a template  *)
(* or the roles of the plain script, and the space that script writes      *)
(* after a role.  Concatenation is that of the strings; the prompt cache   *)
(* compares ids, which are taken to be one for each piece.  /help, /stats  *)
(* and an unknown command only print.                                      *)
(***************************************************************************)
EXTENDS Integers, SequencesExt

CONSTANTS
    Inputs, AnswerIds,  \* what a user types, what a model produces
    User, Assistant, Think, Stopped,    \* the markers of a template, and "*[stopped]*"
    Space,              \* what follows "User:" and "Assistant:" in the plain script
    MaxTokens,          \* max_tokens of an answer
    MaxLines            \* bound: lines typed

ASSUME ChatAssumption == \A input \in Inputs : input \in Seq(Range(input))

VARIABLES
    template,           \* the tokenizer has a chat template that works
    session,            \* ChatSession: [messages, thinking]
    chatPhase,          \* "prompt", "answering", "left"
    line, text,         \* the question and its answer so far
    chatPrompt,         \* ids of the last prompt
    promptCache,        \* [on, held, tokens]: mlx_prompt_cache; the ids whose KV the
                        \* cache holds, <<>> when there is none; _prompt_cache_tokens
    reused,             \* the cache was passed on for this prompt
    plainly,            \* since the last question nothing but its answer happened
    turns

chat == <<template, session, line, plainly, turns>>
chatVars == <<chat, chatPhase, text, chatPrompt, promptCache, reused>>

ChatInit ==
    /\ template \in BOOLEAN
    /\ session = [messages |-> <<>>, thinking |-> FALSE]
    /\ chatPhase = "prompt" /\ line = <<>> /\ text = <<>> /\ chatPrompt = <<>>
    /\ \E on \in BOOLEAN : promptCache = [on |-> on, held |-> <<>>, tokens |-> <<>>]
    /\ reused = FALSE /\ plainly = FALSE /\ turns = 0

\* Between who speaks and what is said: f"{role}: {content}".
AfterRole == IF template THEN <<>> ELSE <<Space>>

\* The history, each message after the marker of who said it.
Transcript(messages, sep) ==
    FoldLeft(LAMBDA ids, m : ids \o <<m.role>> \o sep \o m.content, <<>>, messages)

\* format_chat_prompt(): the template, or "User: ..." and so on up to a last
\* "Assistant:", which no space follows.
FormatChatPrompt(input) ==
    Transcript(session.messages, AfterRole) \o <<User>> \o AfterRole \o input \o <<Assistant>>
        \o (IF template /\ session.thinking THEN <<Think>> ELSE <<>>)

\* _resolve_prompt_cache(): passed on when the last prompt is a prefix of this one.
Reusable(ids) == promptCache.on /\ promptCache.tokens # <<>> /\ IsPrefix(promptCache.tokens, ids)

\* External: mlx_lm evaluates the prompt it is passed after what the cache holds.
Ask(input) ==
    /\ chatPhase = "prompt" /\ turns < MaxLines
    /\ chatPhase' = "answering" /\ line' = input /\ text' = <<>> /\ turns' = turns + 1
    /\ chatPrompt' = FormatChatPrompt(input)
    /\ reused' = Reusable(chatPrompt')
    /\ promptCache' = IF ~promptCache.on THEN promptCache
                ELSE [promptCache EXCEPT !.held = (IF reused' THEN @ ELSE <<>>) \o chatPrompt',
                                         !.tokens = chatPrompt']
    /\ UNCHANGED <<template, session, plainly>>

\* External: the cache is changed in place as ids are generated.
Produce ==
    /\ chatPhase = "answering" /\ Len(text) < MaxTokens
    /\ \E id \in AnswerIds :
        /\ text' = Append(text, id)
        /\ promptCache' = IF promptCache.on THEN [promptCache EXCEPT !.held = Append(@, id)]
                                            ELSE promptCache
    /\ UNCHANGED <<chat, chatPhase, chatPrompt, reused>>

Answered(content) ==
    /\ session' = [session EXCEPT !.messages = @ \o
            <<[role |-> User, content |-> line], [role |-> Assistant, content |-> content]>>]
    /\ chatPhase' = "prompt" /\ text' = content
    /\ UNCHANGED <<template, line, turns, chatPrompt, promptCache, reused>>

\* Mutant of FinishAnswer: only the answer is recorded.
FinishOnlyAnswer ==
    /\ chatPhase = "answering"
    /\ session' = [session EXCEPT !.messages = Append(@, [role |-> Assistant, content |-> text])]
    /\ chatPhase' = "prompt" /\ plainly' = ~session.thinking
    /\ UNCHANGED <<template, line, turns, chatPrompt, promptCache, reused, text>>

\* EOS or max_tokens: the turn joins the history.
FinishAnswer == chatPhase = "answering" /\ Answered(text) /\ plainly' = ~session.thinking

\* Ctrl+C stops the answer, and is noted in it.
Stop == chatPhase = "answering" /\ Answered(Append(text, Stopped)) /\ plainly' = FALSE

\* An exception of the runner ends the program.
Fail ==
    /\ chatPhase = "answering" /\ chatPhase' = "left"
    /\ UNCHANGED <<chat, text, chatPrompt, promptCache, reused>>

Slash ==
    /\ chatPhase = "prompt" /\ turns < MaxLines /\ turns' = turns + 1
    /\ \/ session' = [session EXCEPT !.messages = <<>>]
       \/ session' = [session EXCEPT !.thinking = ~@]
    /\ plainly' = FALSE
    /\ UNCHANGED <<template, line, chatPhase, text, chatPrompt, promptCache, reused>>

Exit ==
    /\ chatPhase = "prompt" /\ chatPhase' = "left"
    /\ UNCHANGED <<chat, text, chatPrompt, promptCache, reused>>

ChatNext == (\E input \in Inputs : Ask(input)) \/ Produce \/ FinishAnswer \/ Stop \/ Fail \/ Slash \/ Exit

ChatSpec == ChatInit /\ [][ChatNext]_chatVars

-----------------------------------------------------------------------------
(* Properties.                                                             *)

\* "Turn N+1 re-sends exactly that as its prefix", the prompt and the answer of
\* turn N: so it is with a template, unless there was a /clear, a /think or a stop
\* in between or the template shows reasoning.  Of the plain script the last
\* prompt is a prefix, and the answer follows it after the space of the script.
ResendsPrefix ==
    [][\A input \in Inputs :
          Ask(input) /\ plainly /\ ~session.thinking =>
              IsPrefix(chatPrompt \o AfterRole \o text, chatPrompt')]_chatVars

\* "the token ids it currently holds so we only reuse it on an exact prefix
\* match": a cache is passed on only if what it holds begins the new prompt.
ReuseSound ==
    [][chatPhase = "prompt" /\ chatPhase' = "answering" /\ reused' =>
          IsPrefix(promptCache.held, chatPrompt')]_chatVars
=============================================================================
