------------------------------ MODULE Session -------------------------------
(***************************************************************************)
(* session/session.go: the session a request belongs to.  It is what the   *)
(* proxy pool ties to a proxy (ClientForSession) and what the upstream is  *)
(* told in x-opencode-session.                                             *)
(***************************************************************************)
EXTENDS Messages

\* A session is named by the client, is the hash of a text, or is random: the
\* n-th random one differs from all others.
Named(name) == [kind |-> "named", name |-> name, texts |-> <<>>, n |-> 0]
Hashed(texts) == [kind |-> "hash", name |-> "", texts |-> texts, n |-> 0]
Random(n) == [kind |-> "random", name |-> "", texts |-> <<>>, n |-> n]

\* contentString: the texts of a message, none for an image or a result.
contentString(m) ==
    LET texts == BlocksOf(m, {"text"}) IN [n \in DOMAIN texts |-> texts[n].ref]

\* The places of the user's messages that have a text.
SpokenByUser(messages) ==
    {n \in DOMAIN messages : messages[n].role = "user" /\ contentString(messages[n]) # <<>>}

\* Variant: the hash is taken of the last user message.
HashOfLastMessage(request, n) ==
    IF request.name # "" THEN Named(request.name)
    ELSE IF SpokenByUser(request.messages) # {}
         THEN Hashed(contentString(request.messages[Max(SpokenByUser(request.messages))]))
         ELSE Random(n)

\* A header or a field of the body, else the hash of the first user message
\* that has a text, else a random id.
ExtractFromRequest(request, n) ==
    IF request.name # "" THEN Named(request.name)
    ELSE IF SpokenByUser(request.messages) # {}
         THEN Hashed(contentString(request.messages[Min(SpokenByUser(request.messages))]))
         ELSE Random(n)

=============================================================================
