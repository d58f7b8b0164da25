----------------------------- MODULE Generation -----------------------------
(***************************************************************************)
(* GenerateBrewery and GenerateUser of LlamaGenerator and OpenAIGenerator. *)
(* The orchestrator asks one generator for one record after the other and  *)
(* goes on after an exception, so what a failed call leaves behind in the  *)
(* generator meets the next one.                                           *)
(*                                                                         *)
(* Both generators ask, validate the answer, and ask again with the error  *)
(* in the prompt.  InferFormatted shares the window of one llama context   *)
(* between the prompt and the answer, both counted in tokens.              *)
(*                                                                         *)
(* External, modelled from how the code uses it: llama_decode adds a batch *)
(* to the context's memory, and may fail halfway; it needs room in the     *)
(* window, and aborts the process on a batch above n_batch.                *)
(***************************************************************************)
EXTENDS Integers, Sequences

CONSTANTS ContextSizes,    \* what llama_n_ctx may answer
          MaxBatchSize,    \* kMaxBatchSize
          InitialMaxTokens,\* kBreweryInitialMaxTokens, kUserInitialMaxTokens
          MaxPromptTokens, \* bound: tokens of a formatted prompt
          MaxAsked         \* bound: records asked for

Wanted == {"user", "brewery"}

ASSUME GenerationAssumption ==
    /\ ContextSizes \subseteq Nat
    /\ MaxBatchSize \in Nat
    /\ InitialMaxTokens \in [Wanted -> Nat]
    /\ MaxPromptTokens \in Nat
    /\ MaxAsked \in Nat

VARIABLES backend,  \* the generator chosen: "llama" or "openai"
          n_ctx,    \* size of the context's window
          n_batch,  \* most tokens that one llama_decode takes
          memory,   \* the context's memory: tokens in it, attempts they are of
          stage,    \* where the call is, "idle" between two calls
          asked,    \* records asked for so far, the current one included
          wanted,   \* its kind
          attempt,  \* the loop variable
          prompt,   \* user_prompt: its record, and the attempts whose error
                    \* it quotes
          pending,  \* tokens handed to llama_decode
          sampled,  \* size of generated_tokens
          raw,      \* the answer: its attempt, and those its context held
          refused,  \* history: attempts whose answer was not valid
          outcomes  \* history: how each call ended, and the attempt it is of

contextVars == <<backend, n_ctx, n_batch>>
callVars    == <<asked, wanted, attempt, prompt>>
genVars     == <<contextVars, callVars, memory, stage, pending, sampled, raw,
                 refused, outcomes>>

Cleared  == [filled |-> 0, of |-> {}]
NoAnswer == [of |-> <<0, 0>>, heard |-> {}]

This == <<asked, attempt>>

Lesser(a, b)  == IF a <= b THEN a ELSE b
Greater(a, b) == IF a <= b THEN b ELSE a

\* The context is created with n_batch = min(n_ctx, kMaxBatchSize).
GenerationInit ==
    /\ backend \in {"llama", "openai"}
    /\ n_ctx \in ContextSizes
    /\ n_batch = Lesser(n_ctx, MaxBatchSize)
    /\ memory = Cleared
    /\ stage = "idle"
    /\ asked = 0
    /\ wanted = "user"
    /\ attempt = 0
    /\ prompt = [about |-> 0, errorsOf |-> {}]
    /\ pending = 0
    /\ sampled = 0
    /\ raw = NoAnswer
    /\ refused = {}
    /\ outcomes = <<>>

MaxAttempts == IF backend = "llama" THEN 3 ELSE 2

Ends(how, of) ==
    /\ stage' = "idle"
    /\ outcomes' = Append(outcomes, [end |-> how, of |-> of])

-----------------------------------------------------------------------------
Asks(kind) ==
    /\ stage = "idle"
    /\ asked < MaxAsked
    /\ stage' = "infer"
    /\ asked' = asked + 1
    /\ wanted' = kind
    /\ attempt' = 0
    /\ prompt' = [about |-> asked + 1, errorsOf |-> {}]
    /\ raw' = NoAnswer
    /\ UNCHANGED <<contextVars, memory, pending, sampled, refused, outcomes>>

(* LlamaGenerator::InferFormatted *)

\* Generation limit and prompt share the window; each keeps one token.
EffectiveMaxTokens == Greater(1, Lesser(InitialMaxTokens[wanted], n_ctx - 1))

\* Slip: the answer's share of the window is not reserved.
PromptBudgetUnreserved == Greater(1, Lesser(n_batch, n_ctx))

PromptBudget == Greater(1, Lesser(n_batch, n_ctx - EffectiveMaxTokens))

\* Slip: the memory still holds what the attempt before has left.
TokenizesOntoTheRest ==
    /\ stage = "infer"
    /\ backend = "llama"
    /\ n_ctx > 1
    /\ n_batch > 0
    /\ \E n \in 1 .. MaxPromptTokens : pending' = Lesser(n, PromptBudget)
    /\ sampled' = 0
    /\ stage' = "decode"
    /\ UNCHANGED <<contextVars, callVars, memory, raw, refused, outcomes>>

\* The memory is cleared, the prompt tokenized and cut to its budget.
TokenizesPrompt ==
    /\ stage = "infer"
    /\ backend = "llama"
    /\ n_ctx > 1
    /\ n_batch > 0
    /\ memory' = Cleared
    /\ \E n \in 1 .. MaxPromptTokens : pending' = Lesser(n, PromptBudget)
    /\ sampled' = 0
    /\ stage' = "decode"
    /\ UNCHANGED <<contextVars, callVars, raw, refused, outcomes>>

\* No prompt file, vocabulary or sampler, a failed tokenization, or a window
\* too small: thrown before or after the memory is cleared.
InferThrows ==
    /\ stage = "infer"
    /\ backend = "llama"
    /\ memory' \in {memory, Cleared}
    /\ Ends("failed", This)
    /\ UNCHANGED <<contextVars, callVars, pending, sampled, raw, refused>>

\* The batch with n of its tokens in the memory.
Holding(n) == [filled |-> memory.filled + n, of |-> memory.of \cup {This}]

Decodes ==
    /\ stage = "decode"
    /\ memory.filled + pending <= n_ctx
    /\ memory' = Holding(pending)
    /\ stage' = "sample"
    /\ UNCHANGED <<contextVars, callVars, pending, sampled, raw, refused,
                   outcomes>>

DecodeThrows ==
    /\ stage = "decode"
    /\ \E n \in 0 .. pending : /\ memory.filled + n <= n_ctx
                               /\ memory' = Holding(n)
    /\ Ends("failed", This)
    /\ UNCHANGED <<contextVars, callVars, pending, sampled, raw, refused>>

\* A token other than the end of generation is decoded, the last one too.
SamplesToken ==
    /\ stage = "sample"
    /\ sampled < EffectiveMaxTokens
    /\ sampled' = sampled + 1
    /\ pending' = 1
    /\ stage' = "decode"
    /\ UNCHANGED <<contextVars, callVars, memory, raw, refused, outcomes>>

\* End of generation, sampled or forced by the limit.
StopsSampling ==
    /\ stage = "sample"
    /\ raw' = [of |-> This, heard |-> memory.of]
    /\ stage' = "validate"
    /\ UNCHANGED <<contextVars, callVars, memory, pending, sampled, refused,
                   outcomes>>

\* The sampler fails, or a token cannot be turned into text.
SampleThrows ==
    /\ stage = "sample"
    /\ Ends("failed", This)
    /\ UNCHANGED <<contextVars, callVars, memory, pending, sampled, raw,
                   refused>>

(* OpenAIGenerator::CallChatCompletionsApi *)

CallAnswers ==
    /\ stage = "infer"
    /\ backend = "openai"
    /\ raw' = [of |-> This, heard |-> {This}]
    /\ stage' = "validate"
    /\ UNCHANGED <<contextVars, callVars, memory, pending, sampled, refused,
                   outcomes>>

\* The request times out or answers with an error status or an error object;
\* or there is no prompt file, a refusal or no content.
CallThrows ==
    /\ stage = "infer"
    /\ backend = "openai"
    /\ \E how \in {"transient", "failed"} : Ends(how, This)
    /\ UNCHANGED <<contextVars, callVars, memory, pending, sampled, raw,
                   refused>>

(* The rest of the retry loop, the same in all four. *)

ReturnsRecord ==
    /\ stage = "validate"
    /\ Ends("record", raw.of)
    /\ UNCHANGED <<contextVars, callVars, memory, pending, sampled, raw,
                   refused>>

\* Slip: the loop falls through to the return after the last attempt.
RefusesButReturns ==
    /\ stage = "validate"
    /\ refused' = refused \cup {raw.of}
    /\ prompt' = [about |-> asked, errorsOf |-> {attempt}]
    /\ attempt' = attempt + 1
    /\ IF attempt + 1 < MaxAttempts
         THEN stage' = "infer" /\ UNCHANGED outcomes
         ELSE Ends("record", raw.of)
    /\ UNCHANGED <<contextVars, asked, wanted, memory, pending, sampled, raw>>

\* The prompt of the next attempt quotes the error instead of the context.
RefusesAnswer ==
    /\ stage = "validate"
    /\ refused' = refused \cup {raw.of}
    /\ prompt' = [about |-> asked, errorsOf |-> {attempt}]
    /\ attempt' = attempt + 1
    /\ IF attempt + 1 < MaxAttempts
         THEN stage' = "infer" /\ UNCHANGED outcomes
         ELSE Ends("malformed", raw.of)
    /\ UNCHANGED <<contextVars, asked, wanted, memory, pending, sampled, raw>>

\* The loops of the orchestrator have ended.
IsDone == stage = "idle" /\ asked = MaxAsked /\ UNCHANGED genVars

GenerationNext ==
    \/ \E kind \in Wanted : Asks(kind)
    \/ TokenizesPrompt
    \/ InferThrows
    \/ Decodes
    \/ DecodeThrows
    \/ SamplesToken
    \/ StopsSampling
    \/ SampleThrows
    \/ CallAnswers
    \/ CallThrows
    \/ ReturnsRecord
    \/ RefusesAnswer
    \/ IsDone

GenerationSpec == GenerationInit /\ [][GenerationNext]_genVars

-----------------------------------------------------------------------------
(***************************************************************************)
(* Whatever the sizes of the window, of the batch and of the prompt, and   *)
(* whatever earlier calls have left: a batch given to llama_decode is not  *)
(* empty, within n_batch, and there is room for it in the window, down to  *)
(* the last token that the loop may sample.                                *)
(***************************************************************************)
DecodeFits ==
    stage = "decode" =>
        /\ pending \in 1 .. n_batch
        /\ memory.filled + pending <= n_ctx

(***************************************************************************)
(* An answer is given in a context that holds nothing but the attempt it   *)
(* answers, although an attempt before it, of this record or of another,   *)
(* may have been left at any point; and that attempt's prompt is about the *)
(* record asked for, with the error of the attempt just before and of no   *)
(* other.                                                                  *)
(***************************************************************************)
HearsOnlyItself ==
    /\ stage \in {"decode", "sample"} => memory.of \subseteq {This}
    /\ stage = "validate" => raw.of = This /\ raw.heard \subseteq {This}
    /\ stage \in {"infer", "decode", "sample", "validate"} =>
         prompt = [about |-> asked,
                   errorsOf |-> {a \in {attempt - 1} : a >= 0}]

(***************************************************************************)
(* A record is the first valid answer to the attempts of its own call, all *)
(* earlier ones refused; a call gives up as malformed only after all its   *)
(* attempts were refused, and after no more than these.                    *)
(***************************************************************************)
FirstValidAnswer ==
    \A c \in DOMAIN outcomes :
        LET tried == {a \in 0 .. MaxAttempts : <<c, a>> \in refused}
            last  == outcomes[c].of[2]
        IN  /\ outcomes[c].of[1] = c
            /\ outcomes[c].end # "malformed" => tried = 0 .. last - 1
            /\ outcomes[c].end = "malformed" => tried = 0 .. MaxAttempts - 1
            /\ last < MaxAttempts
=============================================================================
