# Verification of opencode-proxy-api

TLA+ models of the gateway, TLC configurations that check them on small
instances, and theorems with proofs checked by TLAPS. Source positions below are
relative to the repository.

## 1. The system

The program is an HTTP gateway. A client sends an OpenAI or Anthropic style
request; the gateway checks it, rewrites its body, and posts it to one upstream,
through one of several egress proxies. It keeps no state on disk: everything
below lives in the memory of one process and is lost when it ends.

| component | source | state | operations | what makes it correct |
|---|---|---|---|---|
| Retry arithmetic | `internal/retry/retry.go` | none | `ParseRetryAfter`, `ExponentialBackoff` | delays are those stated, never shrink with more failures, never shorter than the header asks |
| Proxy pool | `config/proxy_pool.go` | round-robin position, and per proxy: health flag, failure count, cool-down, cached client | `ClientForSession`, `MarkSuccess`, `MarkFailure`, `Rotate`, `NewClient`, `Current` | records agree with each other; sessions stay with their proxy while it is good; nobody is sent to a bad proxy while there is a good one; concurrent calls have the effect of single steps |
| Request handling | `internal/proxy/handler.go`, `respond.go` | `poolMu`, `rateLimitCount`, per request: attempt, response, answer | `ServeHTTP`, `postUpstream`, `onRateLimited`, `rotateProxy` | every way out of the loop answers; outcomes are recorded once and for real failures; retries avoid isolated proxies; threshold crossings are not lost; no lock is kept for ever |
| Startup | `cmd/server/main.go`, `config/config.go`, `proxy_pool.go`, `handler.go` | configuration, pool, first client | `loadEnvFile`, `Load`, `LoadProxyPool`, `New` | the pool that serves is usable; a proxy in the settings that are read is never dropped |
| Life cycle | `cmd/server/main.go` | `http.Server`, signal channel | `main`, signal goroutine | a signal stops the server in whatever order things happen; the exit status tells a stop from a failure; requests in progress are finished |
| Resolving dialer | `config/config.go` 343-447 | none between calls | `DialContext` | forced IPv6 is forced; all addresses are tried; the dial ends |
| Request admission | `handler.go` 141-208 and 429-450, `config.go` | none | `checkAuth`, endpoint table, `IsModelAllowed` | a request is refused exactly for the reason it has; the list of models agrees with what is refused |
| Session identity | `internal/session/session.go` | none | `ExtractFromRequest` | a conversation that can be told apart keeps its session |
| Claude and chat translation | `internal/translate/claude_request.go`, `chat.go`, `types.go` | none | `ClaudeRequestToUpstream`, `NormalizeChatCompletionRequest` | every tool call is followed by its results; nothing said is lost |
| DSML translation | `internal/translate/dsml.go` | none | `RewriteClaudeMessageDSML`, `RewriteClaudeStreamDSML` | every call written as text becomes one tool call; the event stream is well formed |
| Reasoning injection | `internal/reasoning/inject.go` | none | `InjectReasoningContent` | every message in scope reaches the upstream with reasoning, after the other rewritings |
| Connection trace | `internal/proxy/conn_trace.go` | times and addresses | callbacks of `httptrace` | log lines only |

How they interact: each request is a goroutine of `net/http`. All of them share
the pool, whose calls the handler makes with `Handler.poolMu` held, and the
atomic counter `rateLimitCount`, which no lock guards. Inside, the pool has a
mutex of its own (`ProxyPool.mu`), taken within `poolMu`. The network, the
client's disconnection (through the request's context), the external rate-limit
command and signals act from outside.

What is hard: goroutines interleave between the choice of a proxy and the report
of its outcome; the 429 counter is added to, compared and reset in three separate
steps with a lock wait in between; the lock is kept across a network wait when
the egress diagnostics are on; a Retry-After date is measured with one reading of
the clock and turned into a deadline with another; four fields of a health record are stored one by
one and read without the pool's own lock; `main` and the goroutine that calls
`Shutdown` race; a SOCKS dial has no limit of its own. Within one request nothing
is concurrent, but its body is parsed and written anew by up to three functions in
a row, its messages are split and regrouped, and the answer's text is searched for
markup that a model wrote and that may be incomplete, nested or cut into pieces;
what these do to a conversation shows only over several turns. `PROJECT.json` lists each
of these hazards at its line.

## 2. Modules

| module | extends | models |
|---|---|---|
| `Retry` | | the two functions, over durations of width `MaxInt64`; the product of a Retry-After number wraps |
| `ProxyPool` | `Retry` | the pool, one action per method |
| `PoolSteps` | `ProxyPool` | the same methods as single loads and stores of several goroutines under both mutexes, with the one-step pool as a second copy (`Atomic == INSTANCE ProxyPool WITH ...`) |
| `Gateway` | `ProxyPool` | concurrent requests in the handler |
| `Startup` | | from the environment to a handler |
| `Server` | `Startup` | main, the signal goroutine and `http.Server` |
| `Dialer` | | one dial of `localResolveDialer` |
| `Dsml` | `Ids` | the functions of `dsml.go`, over texts as sequences of tags (no state) |
| `DsmlAnswer` | `Dsml` | one answer: written by the upstream, rewritten, read by a client event by event |
| `Ids` | | what calls, texts and images are told apart by (no state) |
| `Messages` | `Ids` | blocks and messages in both shapes |
| `ClaudeRequest`, `ChatRequest` | `Messages` | the rewritings of a request (no state) |
| `Session` | `Messages` | the session of a request (no state) |
| `Conversation` | `ClaudeRequest`, `ChatRequest`, `Session`, `Dsml` | a client, the gateway and the upstream over several requests |
| `ProxyPoolProofs` | `ProxyPool`, `MCRetry` | theorems about the delays, a caller that keeps failing, and the pool |
| `PoolStepsProofs`, `GatewayProofs` | their component, `ProxyPoolProofs` | theorems about the pool's loads and stores, the handler |
| `ServerProofs`, `DialerProofs` | their component | theorems about the startup and the process, a dial |
| `DsmlLemmas` | `Dsml` | what joins (`FlattenSeq`) and the functions of `dsml.go` do, for any text |
| `DsmlProofs`, `ConversationProofs` | `DsmlAnswer` and `Conversation`, `DsmlLemmas` | theorems about an answer, a conversation |
| `MCRetry`, `MCProxyPool`, `MCPoolSteps`, `MCGateway`, `MCServer`, `MCDsml`, `MCConversation` | their component | values and bounds for TLC |

A definition marked *Variant* is the next one with a plausible slip in it. No
specification uses it: putting it in the place of the right definition shows that
a property notices.

### ProxyPool

A proxy is its position `0 .. N-1`; `URL` maps it to its text, and duplicates are
allowed as in the loader. `Select` is the choice `ClientForSession` makes: the
preferred position, then the first available one in ring order, then the
preferred one anyway. `ClientForSession` adds the cached client, which a position
in `Broken` never gets. `RecordFailure` is the body of the loop in `MarkFailure`
(count, deadline, flag, cache), `CountsAsFailure` the early return before it.
`Rotate` moves the round robin whatever the health of the next proxy. Time is an
integer moved by `Tick`. `Broken` excludes position 0: `proxy.New` refuses to
start without its client. That assumption is what `Startup` establishes
(`PoolIsUsable`).

### PoolSteps

A critical section of `poolMu` is one of `ClientForSession`, `Current` with
`MarkFailure`, `Current` with `MarkSuccess`, and `Rotate` with `NewClient`, each
as the sequence of clock reads, atomic loads and stores and lock operations of the
source. A Retry-After date takes two readings of the clock: `ReadHeader` is
`time.Until` in `ParseRetryAfter`, `ReadDeadline` the `time.Now()` its delay is added
to, and `MarkFailure` of the one-step pool has both as parameters (`seen`, and its
own clock). At the step that fixes its outcome a section performs the one-step
operation on the second copy; `SectionsAreAtomic` says that the copies agree
whenever no section is in progress. This is what allows `ProxyPool` and `Gateway`
to take a method as one step.

### Gateway

`pc[r]` is where the goroutine of request `r` is:

| place | code | actions |
|---|---|---|
| new | `ServeHTTP` up to the loop | `Admit` |
| select | `newReq`, `clientForSession` (274-288) | `Attempt`, `AttemptUnbuildable` |
| sent | `client.Do` | `Respond`, `SendFails` |
| failed | 295-308 | `ChargeError`, `GiveUp` |
| pause | 310-318 | `Resume`, `Abandon` |
| reading | `readUpstreamBody` | `ReadBody`, `ReadBodyFails` |
| error, ok, credit, write | `postUpstream` | `ChargeStatus`, `ResetCount`, `Credit`, `Write` |
| count, rotate, probe, check, acting | `onRateLimited`, `rotateProxy` | `CountRateLimit`, `RotateProxy`, `ProbeEnds`, `BelowThreshold`, `StartAction`, `ActionEnds` |

A section of `poolMu` is one action, except the rotation with the egress probe,
which is two with `poolMu = r` in between. `gone[r]` is the cancelled context of a
client that left. `Gateway` extends `ProxyPool` and shares its variables, so that
`PoolSpec` is a property of it: the refinement mapping is the identity. The
counter of 429s is an `int32`; the threshold, an `int`, is converted to one for the
comparison (`WrapInt32`).

### Startup and Server

`given`, `dotenv` and `contents` are the settings of the process, the lines of
`.env` and the pool file; `Environments` says which combinations there are.
`LoadEnvFile` takes one line of `.env` into `env`, `EnvFileEnds` is the end of the
file, `Load` trims what was set. Texts are classified by what the code tests:
ignored, containing `://`, parsed by `url.Parse`, having a host, and their scheme.
The setting `pool` is `OPCODE_PROXY_POOL`, which the documents name and nothing
reads. `Server` runs `Startup`'s steps as `BuildHandler`, then `ListenAndServe` as
the check of the shutdown flag, the bind and the accept loop, each of which may
fail: an error of the listener ends the loop (`AcceptFails`, `ServeFails`), and an
error that is not `ErrServerClosed` the process (`ServerError`). Handling a request
is one step there.

### Dialer

An address is its family and what dialling it does. A literal is dialled at once,
a name goes through the loop, over the addresses of the family that was asked for in
any order: the resolver's is not known. `Deadline` is `http.Client.Timeout` passing while a
silent address is dialled, `Cancel` any other end of the context.

### Dsml and DsmlAnswer

A text is a sequence of tokens: the four tags that open and close a region and an
invoke, a whole parameter element, and prose, which may mention the markup.
`Matches` is what a lazy regular expression finds: from an opening tag to the
first closing tag after it, leftmost first. `StripAndParseDSML`,
`RewriteClaudeMessageDSML`, `RewriteClaudeStreamDSML` and the functions below them
have the names of the source. In `DsmlAnswer` the upstream writes its answer
fragment by fragment (`Say`, `BeginBlock`), so that every text up to the bound
occurs, also those no well-meaning model would write; `Deliver` is the end of
`ServeHTTP`; and the client of a stream takes the events one by one (`Receive`),
in the phase they put it in, and ends in `broken` when one is out of place. The
stream reaches the gateway in one of the forms the code distinguishes: events, a
message on one line, a message on several lines, bare text. `cut` says which of
the words the code looks for are cut over two deltas.

### Messages, ClaudeRequest, ChatRequest, Session and Conversation

A message is a role and a sequence of blocks, a block its type and the text or id
it refers to, told apart by where it was said. `rewriteMessage` is the body of the
loop in `rewriteMessages`, one definition per way a message can leave it.
`Conversation` turns these functions into a protocol: the client keeps a history
and sends all of it with every request, as clients of these interfaces do
(`SayNext`, `AnswerClaude`, `AnswerChat`, `AskAgain`); the gateway refuses it or
rewrites and forwards it (`Refuse`, `Forward`); the upstream fails or replies
(`Fail`, `ReplyChat`, `ReplyClaude`), with calls as blocks or as markup, and the
reply, rewritten by `Dsml`, becomes part of the history. `forwarded` is the request
the upstream has, which the properties compare with the history. What happens on
the way out (proxies, retries, 429) is `Gateway`'s; here it is a failure or none.

## 3. Runs

| run | what it asks | size of the instance | distinct states |
|---|---|---|---|
| `Retry` | the functions against reference definitions | 8-bit durations, a second of 3 units, up to 8 failures, all headers from -2 to 135, beyond the longest duration | 119 000 |
| `Pool` | selection and health records under any calls | 3 proxies (one unbuildable), 3 sessions, time to 2, up to 4 failures, answers 200/429/503 without Retry-After, with seconds and with a date, measured at any earlier time | 67 000 |
| `PoolSteps` | sections of the pool are atomic and end, dates are waited out | 2 goroutines, 2 proxies (one unbuildable), time to 2, headers absent, in seconds and a date beyond it, a report only below 3 failures | 202 000 |
| `Gateway` | everything about concurrent requests, with liveness and refinement | 2 requests of different sessions, 3 proxies (one unbuildable), 3 attempts, threshold 2, time to 1 | 121 000 |
| `Server` | startup, listening and its errors, signals, requests in any order | every setting without `.env`, and settings that leave something to a `.env` of up to 2 lines or shadow it; pool files of up to 2 lines; 2 requests | 909 000 |
| `Dialer` | all hosts of up to 3 addresses | each answering, refusing or silent, of either family, looked up in any order | 16 200 |
| `Dsml` | every answer with markup, as message and as stream | 6 tokens in an answer of one block, 4 in one of two blocks, all forms | 928 000 |
| `Conversation` | what reaches the upstream over several turns | histories of up to 5 messages, one failure, 3 paths, 3 scopes of the injection, every reason for a refusal | 236 000 |
| `BlameFollows`, `CancelCounts`, `CutTags`, `ServerDrains` | statements of the documentation the code does not keep (section 6) | as small as shows it | |

Why the bounds are enough. Two requests are what an interleaving hazard here
needs: one between its choice and its report, another that moves the state; the
rotation, the probe under the lock and the counter race all occur with two. Three proxies are the least with which
"the next one", "the one after" and "the last resort" differ, and one that cannot
be built exercises the error path of the client. Time is in units of the base
delay (15 s), so that a cool-down of 1 unit begins and ends within the bound; the
failure bound of 4 lies beyond the third failure, which clears the health flag.
The threshold of 2 makes the first 429 fall below and the second reach it. The
width of 8 bits lets products leave the range. What is proved (section 5) has none
of these bounds. `Gateway` is run with a pool; the theorems hold without one as well.
Six tokens hold a region with a call that has a parameter and prose beside it, a
region with two calls, an unclosed region before a closed one, a bare call beside a
region, and a call that is opened twice. Two blocks are what
numbering and joining need. Five messages are two questions with an answer each
and the results of the calls in between, in the shape in which each result is a
message as well as in the one where they are blocks: a call in the first answer is
followed by its results, a second answer and whatever comes next.

Deadlock is checked except in `Server`, `Dialer`, `Dsml` and `Conversation`, where
the process exits, the dial returns, the answer has been read, and the client was
refused or the bound on the history is reached.

## 4. Fairness

* `Gateway`: weak fairness of a goroutine's own steps: the Go scheduler runs every
  runnable goroutine. For a step that needs `poolMu` weak fairness suffices in
  `Gateway` because a section is one step and only the egress probe keeps the lock;
  the number of requests and of their attempts is finite, so the lock is free from
  some point on (Go's mutex hands over to starved waiters after 1 ms, which is more
  than is assumed). Weak fairness of the network's steps:
  `http.Client.Timeout` ends every wait, five minutes by default. It does not hold
  for `OPCODE_UPSTREAM_TIMEOUT=0`. There is **none** for the external command, nor
  for the last write, which waits for a client that does not read (`main.go:135`
  sets `WriteTimeout` to 0). `EveryRequestEnds` therefore promises of a request that
  it is done, or gets as far as one of these two, and that no other request has to
  wait for it there.
* `PoolSteps`: weak fairness of the steps inside a section, none for entering one.
* `Server`: weak fairness of main and of the signal goroutine up to `Shutdown`. None
  for signals, arriving clients, answers (a handler may wait, see above), errors of
  the listener, nor `Shutdown`'s return, which waits for the answers.
* `Dialer`: weak fairness of the loop and of the deadline.
* `Dsml` and `Conversation` have no liveness property and no fairness: within a
  request the rewritings are sequential code without a wait, and everything that
  waits is in `Gateway`.

## 5. Proofs

All theorems hold for every value of the constants that the named assumptions
allow: `WidthAssumption` and `SecondAssumption` (durations), `CallerAssumption` (a
caller's delays and bounds are numbers), `PoolAssumption` (a
list that is not empty, whose first client can be built), `DelayAssumption` (base
below maximum, 16 base delays within the width: 240 s against 292 years),
`ResponseAssumption`, `GatewayAssumption`, `TextAssumption` and
`EnvironmentAssumption` (what a text, a `.env` and a pool file are),
`DialerAssumption`, `AnswerAssumption` (what the upstream writes at a time is a
non-empty sequence of tokens). TLC evaluates each of them in its runs.

* **Retry.** `WrapInt64Type` (a wrapped number is in range), `BackoffBounds`
  (between base and maximum), `BackoffMonotone`, `RetryAfterSeconds`. They need
  that `PowerOfTwo` is a table, not a recursion. What the run checks is proved for
  every width, delay, header and clock. The reference of
  `CallerBackoffAsStated` is a recursive function, of which one has to know that it
  exists: there is a table of its values up to every `n` (`TablesExist`), tables
  agree (`TablesAgree`), and the function made of them is the one
  (`DoubledDoubles`). Up to the fifth failure the code's power is then the doubling;
  later both are at the maximum (`LimitLosesNothing`).
* **Pool.** The inductive invariant is `PoolTypeOK /\ RecordsAgree`. `RecordsAgree`
  (unhealthy exactly from the third failure on; no failure, no cool-down) is
  preserved because each method writes the parts of one record together, and needs
  the domains from the type invariant; the type of the deadline needs
  `BackoffBounds` and `WrapInt64Type`. `PoolAffinity` follows from it: a clean
  record means a healthy proxy whose cool-down is 0, hence available, hence chosen.
  `PoolIsolation` is a fact about `Select` in any state of the right type: the set
  of hits of the scan is not empty, so it has a least element (`LeastNatural`, from
  the well-foundedness of `<`), and every position is hit by some probe.
  `PoolSessionsDoNotWander` follows from the same scan: the choice is the available
  proxy nearest to the preferred one (`SelectIsNearest`), in this state and in the
  next. `PoolCooldown` has a hypothesis on the behaviour, `[]DelaysFit`: the clock
  plus any delay that may be started is within the width. Without it the deadline
  wraps and the property is false: a Retry-After of 292 years makes it so
  (section 6).
* **Loads and stores.** `StepsInv` says, for each place in a section of `poolMu`, how
  the fields stored so far differ from the one-step copy: which arrays a goroutine
  has still to write for which proxy, which values it holds in its locals, and
  that for the other proxies the copies agree. It has a part per kind of section
  and a lemma per step (`LoadHealthKeepsInv`, ...). With it `SectionsAtomic` is the
  case of no section, and `StepsImplementPool` says that each step performs on the
  copy an operation of `ProxyPool`, or none. The pool's theorems then hold for the
  copy, and for the fields themselves whenever nobody is in a section
  (`PromisesHoldBetweenSections`). The delay of a Retry-After date belongs to the
  first reading of the clock and the deadline to the second; `DateInv` says that the
  first is not the later one, so that the sum is no earlier than the date
  (`DatesWaitedOut`, for behaviours in which it does not leave the width: `DelaysFit`
  and `DatesFit`).
* **Gateway.** `RequestInv` strengthens the types with what is known at each place:
  the attempts so far, and the class of the response's status (`ResponseKnown`).
  Without it, a report of a status below 400 could not be excluded, and the
  refinement would fail. From `RequestInv` and the pool's invariant every step is a
  step of the pool or leaves it alone (`StepImplementsPool`), so
  `GatewayImplementsPool`, and with it the pool's theorems hold in the gateway
  (`GatewayPoolSafety`). `GatewayCrossingsArePending` needs only that counts are
  numbers: an increment creates the request that owes the comparison, and the
  request that leaves has compared and has reset the counter.
  `GatewayAttemptsAvoidIsolated` is `SelectIsAvailable` at the step that sends.
  `GatewayChargedAtMostOnce` compares two sums over all proxies and all requests, so
  `Requests` has to be finite. `SumFunction` is a recursion over subsets; that it
  is a sum, and how one changed entry changes it, is shown by a counterexample of
  least cardinality (`SumFunctionSums`, `SumUpdate`). A request is then charged at
  most at the one step at which its attempt becomes decided.
  `GatewayNoSilentReturn`, `GatewayTypeCorrect` and
  `GatewayClientErrors` follow the same way, one step per action.
* **Startup and Server.** `StartupInv` says what each step has established: every
  setting is what the first line to name it says, among those read so far
  (`EnvFollows`); the configuration follows the environment; the proxies are the
  proxy lines among those scanned so far, in order (`Scanned`, kept by
  `OneMoreLine`); and a direct client is on its way only when no proxy was asked
  for. `ServerPoolIsUsable` and `ServerProxySettingsAreUsed` are what it says when
  the server serves, for files of any length. `ServerExitStatusTells` needs that
  nothing was taken before `Listen`, that the flag goes up with the signal goroutine
  only, and that the process ends once (`ServerInv`).
* **Dialer.** `DialInv`: every address behind the position was refused, unless the
  context has ended, and the error kept is the first one's; every candidate has the
  family asked for (`LookupFinds`). `DialerForcedFamily` and
  `DialerFailureIsExhaustive` are read off it, for any number of addresses.
* **Conversation.** `ModelsAlwaysAgree`, for every setting of a client and a
  configuration. `ModelsAgreeWithList` speaks of the list and is not inductive; the
  strengthening `Decided` says that a status the gateway gave, or its letting a
  request through, is what `Admission` decides for the setting, which never changes.
  Three lemmas about `Admission` and `handleListModels` give the property from it.
  `SessionsSettle` and `ReasoningAlwaysArrives` have the invariant `ConversationInv`.
  Its first part is that the history is a sequence of messages, which each side only
  adds to (`ClientAddsMessages`, `ReplyIsMessage`, `JoinedMessages`). `Identified`:
  the history as it is now gives the session found before; messages added at the end
  leave the first one with a text where it is (`FirstSpokenStays`,
  `IdentitySurvives`). `IsRewrittenHistory`: while the upstream has a request, it is
  what the rewritings make of the history, where `InjectReasoningContent` looks at one
  message at a time. `ToolExchangesAreValid` needs `ExchangeInv` as well, about what the client
  has: behind every answer with calls, unless it is the last message, stand the results
  of just these calls, as messages of their own (`ChatTurns`) or in one message
  (`ClaudeTurns`), and results stand nowhere else. `ExchangeStep` shows that every turn
  keeps it, whichever order the client answers in. In chat completions the gateway
  leaves the messages in their places and only fills in ids (`ChatIsAnswered`).
  Claude's messages become several each: the messages made of one stand together, at
  places that the lengths of those before them give (`PartsInPlace`), and a message with
  results puts these first (`RewrittenTurn`), so that they come directly behind the
  calls (`ClaudeIsAnswered`). The property looks for the run of results behind a message
  with calls; `RunOfResults` says that it ends where it should.
  `NothingIsLost` counts how often each thing is said (`Times`). A count over messages
  is the sum of the counts over them (`SaidByJoined`, `PartsSaySame`), so that one
  message is enough (`RewrittenSaysSame`, `ChatSaysSame`). A message of Claude's is
  taken apart by the types of its blocks; every block is of exactly one kind, so the
  counts over the kinds add up to that over the message (`TimesByKind`). Results that
  name no call are the exception the property makes: in Claude's shape the gateway drops
  them from the messages it takes apart, in chat completions it gives them an id of its
  own making, and `ChatSaysSame` needs that the client has none like it (`AreMessages`).
* **Dsml.** (`DsmlLemmas` and `DsmlProofs`.) Every function of `dsml.go` joins parts with `FlattenSeq`, a recursive
  function. Its values are taken from a table (`JoinedExists`, `JoinedAgree`,
  `FlattenIsJoined`), and what the rest needs of it is shown one part at a time: its
  elements and their order (`FlattenElements`, `FlattenOrdered`), and its places when
  every part is three events (`FlattenTriples`). `AnswerInv` says that what a client
  has read is what the events sent so far add up to; `ReadStep` is one event.
  `StreamsAreWellFormed` and `StopsAnnounceCalls` are read off it.
  `StripsCompletely`, for any text at all: an opening tag with a closing one behind it
  is in a match (`OpenIsMatched`), and removing matches keeps the order of what stays
  (`WithoutOrder`), so that no new pair comes about, not even by the second removal.
  `NothingIsLeft` follows. `StreamsAgreeWithMessages` needs that a message that was
  rewritten and is then told as a stream gives its own blocks again (`ToldAgain`,
  `OneText`). `CallIdsAlwaysDiffer` has the invariant `IdsTellPlaces`: the upstream's
  ids name places of its answer, the blocks that are kept stay in order, and the new
  ids are numbered under a prefix of their own. `CallsOnceAndAllProse` is about texts in
  which every tag is closed before the next of its kind opens. The property says so by
  counting tags, which the code never does; counting is turned into matching first: an
  opening tag is followed by the closing one of the same count (`CountBetween`,
  `OpenBegins`), and what the counts enclose is what the matches take away
  (`EnclosedIsMatched`). Then each removal is a join over places: what is left stands at
  known places of the text (`PlacesAreTaken`), and removing in two steps, regions first
  and then invokes, leaves the places that neither removes (`LeftTwice`). No invoke
  straddles a region (`InvokesAreWhole`), so the invokes that are found inside a region
  are those of the whole text at the same places (`InvokesKeepTheirPlaces`), and the join
  over regions of joins over their invokes is the join over all places of the text
  (`CallsOfText`).

Induction is by a least counterexample throughout: the library's theorems of
induction take an operator as a parameter, which the provers cannot instantiate, but
that a non-empty set of numbers has a least element (`LeastNatural`) they can use.

Every invariant and every action property that a passing run checks is a theorem. Only
model-checked is all liveness (`EveryRequestEnds`, `LockIsReleased`, `SectionsEnd`,
`DialEnds`, `SignalStops`), which needs fairness and ENABLED.

## 6. Where the documents and the code disagree

Each of the first four has a run that ends in the violation.

1. `BlameFollowsRequest`: a network error is charged to `Current()`, the position
   of the round robin (`handler.go:297-298`), which session affinity never uses.
   `AGENT.md:49` says that the proxy that caused the error is tracked.
2. `OnlyRealFailuresCount`: a client that disconnects counts as a network error of
   the proxy (`handler.go:290-299`), against `proxy_pool.go:262-267`.
3. `CutTagsAreRewritten`: the words `DSML` and `tool_calls` or `invoke` are looked
   for in the bytes of a stream (`dsml.go:229`) before its deltas are joined; where
   every occurrence of one is cut over two deltas, the stream is passed on with its
   calls as text, against `dsml.go:225-227` and `handler.go:324-325`.
4. `ShutdownDrains`: `main` returns when `ListenAndServe` does, without waiting for
   `Shutdown`, and cuts off the requests in progress (`main.go:143-146` and `168`).

Observed while modelling, without a run of their own. In the pool and the handler:

* the rate-limit action is run on the count this request saw, although a success
  may have reset the counter since (`handler.go:490-507`; `config.go:52-53` speaks
  of consecutive 429s);
* the Retry-After of a 429 is never looked at (`proxy_pool.go:270`), against
  `README.md:193-194`;
* an unhealthy proxy stays out when its cool-down ends; only a success credited to
  it brings it back (`proxy_pool.go:28` and `175`);
* a success is credited to `Current()` as well (`handler.go:414`);
* `Rotate` takes the next proxy whatever its health (`proxy_pool.go:142`);
  `README.md:195` says the next healthy one; and it moves no session, for sessions
  are placed by their hash;
* 5xx answers isolate a proxy (`README.md:197-199` says that they do not,
  `AGENT.md:31` that they do), and no single error isolates it for good
  (`README.md:188`): it is cooled down;
* the cached client is dropped on every failure and every success, not only on a
  transition (`proxy_pool.go:223-225`);
* a later failure may bring a deadline forward that an earlier Retry-After had set
  (`proxy_pool.go:288-294`);
* of two positions with one URL only the first is ever marked (`proxy_pool.go:279`);
* a Retry-After above 2^63 ns wraps (`retry.go:22`);
* `LoadProxyPool`'s comment returns nil for a file without proxies
  (`proxy_pool.go:44-45`), the code an error (`101-103`);
* an address that is silent uses up the deadline of a dial, and the ones after it
  are not tried (`config.go:341-342` promises that a dead family does not fail the
  request; it does not when it is refused);
* a setting of white space in the process shadows the line of `.env` and is then
  trimmed to nothing (`main.go:41`, `config.go:108-109`): the server starts without
  the proxy `.env` names. `ProxySettingsAreUsed` does not count it as a mistake;
* `README.md:33`, `119`, `229` and `278` name the pool file in `OPCODE_PROXY_POOL`,
  and `verify_deployment.sh:34` looks for it; the code reads `OPCODE_PROXY_POOL_FILE`
  (`config.go:109`). Who follows the document gets a server without a pool, that
  goes to the upstream directly when `OPCODE_PROXY` is not set, without a warning.
  `ProxySettingsAreUsed` speaks of the settings that are read. The same holds of
  `OPCODE_TOKEN` (`README.md:27` and `224`; read is `OPCODE_UPSTREAM_TOKEN`) and
  `OPCODE_UPSTREAM` (`225`; read is `OPCODE_UPSTREAM_BASE`);
* a line of the pool file without `://` is skipped with a warning
  (`proxy_pool.go:91-94`), so that a pool may be smaller than its file;
* a threshold of 2^31 turns negative in `int32(threshold)` (`handler.go:502`), and
  the action runs on the first 429;
* `w.Write` has no time limit (`main.go:135`, `handler.go:424`): a client that does not
  read keeps its request, and its goroutine, for as long as it stays connected.

In the translations:

* a text with both regions and bare calls loses the bare ones: they are looked for
  only when the regions have none (`dsml.go:63`), but removed in any case (`72`);
* a stream that is rewritten loses the calls and the thinking that the upstream
  sent as blocks, for it is made anew from the text (`dsml.go:248` and `389`);
* `messageJSONToSSE` joins the texts of several blocks (`dsml.go:368-372`), which
  may compose markup that no block had;
* the ids of rewritten calls begin at `toolu_dsml_1` in every answer, so that a
  conversation has several calls of one id; the upstream has to pair them with
  their results by position;
* a `tool_result` without an id is skipped, "upstream will reject them"
  (`claude_request.go:288`), but when the message has no other tool block and is
  not only text, it is passed on as it was, with the block (`353-356`);
* a `tool_use` block beside a `tool_result` is dropped (`306-312`), as are images in
  the content of a result (`extractToolResultText`);
* a message whose blocks are only texts is collapsed to its role and a string, and
  loses every other field it had (`329-351`), when anything in the request changes;
* `NormalizeChatCompletionRequest` writes the messages anew from a type that has no
  field for `reasoning_content` (`types.go:44-51`): when one role or id changes, all
  messages lose theirs. The injection then puts its placeholder in the place of the
  client's own. The fields of the request itself are kept, as `types.go:9` says;
* a conversation has no stable session on `/v1/responses`, whose body has no
  `messages`, and none before the first message of the user that has a text
  (`session.go:69-84`; `session.go:14` says stable per conversation).

## 7. Abstractions

* The failure counters and the counter of 429s have 32 bits in the program and are
  unbounded here; the clock never goes back. The exponent's shift cannot overflow (`DelayAssumption`).
* `Handler.upstream` is not a variable of `Gateway`: with a pool nobody reads it
  after startup, without one it never changes.
* In `Gateway` bodies and headers other than Retry-After do not appear, logging
  nowhere. A panic in a handler is not modelled. Nor is a base URL that does not parse (a 500 on every
  request).
* `clientCache` says whether a client is cached; whether an existing connection is
  reused is left to the network.
* The egress probe at startup only logs, but runs before the server listens.
* A scanner that stops in the middle of `.env` is a `.env` of the lines before: the
  code goes on with what it has.
* `Dsml` leaves out white space, the values of parameters (a call's input is the set
  of their names) and the letter case of names; a tag is there or not, so that a tag
  that is itself incomplete counts as prose. The message's id, model and usage are
  copied and left out.
* An id is who made it and a number, which is what its prefix and its format keep
  apart. The ids made from a clock are taken to differ.
* `Conversation` leaves out the schemas of tools, inputs of calls and contents of
  results, and the joining of texts; every message names its role. Requests of a
  conversation follow one another; concurrent ones share nothing but what `Gateway`
  models. A session's hash is the texts it is the hash of: collisions are left out.
* The client of `Conversation` answers all calls of an answer at once, in either
  order, and no others. One that `loses` ids leaves them out of some results.
* `Server` takes the default effect of a signal before `Notify` as an exit with
  status 2, and `http.Server` as `main.go` uses it.

Not modelled: the connection trace, which only feeds log lines; `HealthStatus` and
`EgressIP`, which change nothing; the settings of `config.Load` that are plain
strings and numbers; headers, the random ids of request and project and the random
user agent, which no decision reads; `RedactProxyURL`, for log lines.

## 8. Plan

Done, in this order: `Retry`, `ProxyPool`, `Gateway` with its refinement,
`PoolSteps`, `Startup` and `Server`, `Dialer`, the proofs of the first three; then
`Dsml` with `DsmlAnswer`, `ClaudeRequest`, `ChatRequest` and `Session` with
`Conversation`, `.env` in `Startup`, and the first proofs about `Conversation`. With
these every component that decides anything is modelled.

After that the proofs about `MCRetry`, `PoolSteps`, `Startup`, `Server` and `Dialer`,
the remaining ones about the pool and the handler, and those about `DsmlAnswer` and
`Conversation`: every safety property of a passing run is now proved for all values of
the constants. What is left to prove is liveness, by hand or with another prover.

Next in the models: `Gateway` without a pool in a passing run, by choosing `HasPool`
in `Init`; the remaining settings of `config.Load`, of which the threshold is an
assumption of `Gateway`.
