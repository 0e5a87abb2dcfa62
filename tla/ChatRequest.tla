---------------------------- MODULE ChatRequest -----------------------------
(***************************************************************************)
(* What is done to a chat completion request: translate/chat.go, over the  *)
(* types of translate/types.go, and reasoning/inject.go.                   *)
(***************************************************************************)
EXTENDS Messages

\* Messages of translate.Message have no field for reasoning_content: once the
\* messages are written anew, it is gone.
NormalizedMessage(m, n) ==
    [m EXCEPT !.role = IF @ = "developer" THEN "system" ELSE @,
              !.id = IF m.role = "tool" /\ @ = NoId THEN Id("gateway", n) ELSE @,
              !.reasoning = "none"]

IsNormal(m) == m.role # "developer" /\ ~(m.role = "tool" /\ m.id = NoId)

\* The request is written anew only when some message changes.
NormalizeChatCompletionRequest(request) ==
    IF \A n \in DOMAIN request.messages : IsNormal(request.messages[n]) THEN request
    ELSE [request EXCEPT !.messages = [n \in DOMAIN @ |-> NormalizedMessage(@[n], n)]]

-----------------------------------------------------------------------------
\* modelRules: which assistant messages of a model need reasoning_content.
Scope(model) ==
    CASE model = "kimi-k2" -> "toolCalls"
      [] model = "deepseek-v3" -> "all"
      [] OTHER -> "none"

InScope(m, scope) ==
    m.role = "assistant" /\ (scope = "all" \/ (scope = "toolCalls" /\ m.calls # <<>>))

shouldInject(m, scope) == InScope(m, scope) /\ m.reasoning # "given"

InjectReasoningContent(model, request) ==
    [request EXCEPT !.messages =
        [n \in DOMAIN @ |-> IF shouldInject(@[n], Scope(model))
                            THEN [@[n] EXCEPT !.reasoning = "placeholder"] ELSE @[n]]]

=============================================================================
