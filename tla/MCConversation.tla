--------------------------- MODULE MCConversation ---------------------------
(* The instance of Conversation that TLC checks. *)
EXTENDS Conversation

Plain ==
    [path |-> "/v1/messages", method |-> "POST", configuredKey |-> "", key |-> "", body |-> "whole",
     model |-> "deepseek-v3", allowed |-> {}, name |-> "", loses |-> FALSE]

\* Clients that are admitted: every path, every scope of the injection where it
\* matters, named conversations and unnamed ones, clients that keep ids and
\* clients that lose some.
Admitted ==
    {[Plain EXCEPT !.path = path, !.loses = loses] : path \in Endpoints, loses \in BOOLEAN}
    \cup {[Plain EXCEPT !.path = "/v1/chat/completions", !.model = model, !.name = name] :
            model \in {"kimi-k2", "gpt-x"}, name \in {"", "c"}}

\* What a client may get wrong before a model is asked, in any combination.
Doubtful ==
    {[Plain EXCEPT !.path = path, !.method = method, !.configuredKey = "k", !.key = key,
                   !.body = body, !.model = model, !.allowed = allowed] :
        path \in {"/v1/messages", "/v1/models", "/v1/other"}, method \in {"GET", "POST", "OPTIONS"},
        key \in {"", "k"}, body \in {"whole", "too large"}, model \in {"", "kimi-k2", "gpt-x"},
        allowed \in {{}, {"kimi-k2"}}}

AllSettings == Admitted \cup Doubtful

=============================================================================
