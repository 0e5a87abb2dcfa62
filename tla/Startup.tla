------------------------------ MODULE Startup ------------------------------
(***************************************************************************)
(* From the environment to a handler that serves: loadEnvFile of main, the *)
(* proxy settings of config.Load, LoadProxyPool and proxy.New.  What it    *)
(* establishes is what modules ProxyPool and Gateway assume of their       *)
(* constants.                                                              *)
(*                                                                         *)
(* A text that names a proxy (OPCODE_PROXY, or a line of the pool file) is *)
(* one of Texts; ParsesAsURL, HasHost and Scheme say what newTransport     *)
(* finds in it.  The egress probe at the end of proxy.New only logs and is *)
(* left out.                                                               *)
(***************************************************************************)
EXTENDS Naturals, Sequences, Functions

CONSTANTS
    Texts,          \* texts that may stand for a proxy, trimmed
    Ignored,        \* those that are empty or start with "#"
    ParsesAsURL,    \* those url.Parse accepts
    HasHost,        \* those in which it finds a host
    Scheme,         \* Scheme[t]: its lower-cased scheme, "" when there is none
    HasSeparator,   \* those that contain "://"
    Empty,          \* the empty text
    Blank,          \* a text of white space, as it is before it is trimmed
    Environments    \* what a process may be started with and find

\* OPCODE_PROXY_POOL_FILE: not set, the text that stands for OPCODE_PROXY, or
\* the name of a file; and OPCODE_PROXY_POOL, of which README.md:33, 119 and 229
\* say that it names that file.
NoFile == "none"
InlineSingleProxy == "inline"
NamedFile == "file"
FileNames == {NoFile, InlineSingleProxy, NamedFile}

ASSUME TextAssumption ==
    /\ Empty \in Ignored /\ Ignored \subseteq Texts /\ Blank \notin Texts \cup FileNames
    /\ ParsesAsURL \subseteq Texts /\ HasHost \subseteq ParsesAsURL
    /\ DOMAIN Scheme = Texts /\ HasSeparator \subseteq Texts

\* The text of a setting that is not there.
Unset == [proxy |-> Empty, file |-> NoFile, pool |-> NoFile]

\* What the settings of a process may be, and a line of .env.
Settings == [proxy : Texts \cup {Blank}, file : FileNames \cup {Blank}, pool : FileNames \cup {Blank}]
Keys == {"proxy", "file", "pool"}
EnvLine ==
    [key : {"proxy"}, value : Texts \cup {Blank}] \cup [key : {"file", "pool"}, value : FileNames \cup {Blank}]

\* A pool file: it cannot be opened, has a line that is too long for the
\* scanner, or is a list of lines.
Unreadable == "unreadable"
PoolFile(state, lines) == [state |-> state, lines |-> lines]

\* given: the settings of the process; dotenv: those of the lines of .env, as
\* far as the scanner gets; contents: the pool file.
ASSUME EnvironmentAssumption ==
    \A e \in Environments :
        /\ e.given \in Settings
        /\ e.dotenv \in Seq(EnvLine)
        /\ e.contents.state \in {"missing", Unreadable, "read"}
        /\ e.contents.lines \in Seq(Texts)

VARIABLES
    pc,             \* the step of the startup
    given, dotenv,  \* where they come from: the process and the file .env
    env,            \* OPCODE_PROXY, OPCODE_PROXY_POOL_FILE, OPCODE_PROXY_POOL
    contents,       \* the pool file
    config,         \* Config.ProxyURL and Config.ProxyPoolFile
    position,       \* the line the scanner of .env, then of the pool file, is at
    proxies,        \* proxies of the pool
    hasPool,        \* LoadProxyPool returned one
    upstream        \* proxy of Handler.upstream, Empty for a direct client

startupVars == <<pc, given, dotenv, env, contents, config, position, proxies, hasPool, upstream>>

\* newTransport returns a transport; the empty text asks for a direct one.
Buildable(text) ==
    text = Empty \/ (text \in HasHost /\ Scheme[text] \in {"http", "https", "socks5", "socks5h"})

Goto(from, to) == pc = from /\ pc' = to

-----------------------------------------------------------------------------

\* Variant: a line of .env replaces what was set before.
LoadEnvFileOver ==
    LET line == dotenv[position]
    IN  /\ pc = "env" /\ position <= Len(dotenv)
        /\ env' = [env EXCEPT ![line.key] = line.value]
        /\ position' = position + 1
        /\ UNCHANGED <<pc, given, dotenv, contents, config, proxies, hasPool, upstream>>

\* main: a line of .env sets what is not set yet, and what is set to nothing.
LoadEnvFile ==
    LET line == dotenv[position]
    IN  /\ pc = "env" /\ position <= Len(dotenv)
        /\ env' = IF env[line.key] = Unset[line.key] THEN [env EXCEPT ![line.key] = line.value] ELSE env
        /\ position' = position + 1
        /\ UNCHANGED <<pc, given, dotenv, contents, config, proxies, hasPool, upstream>>

\* The scanner stops, at the end of .env or with an error that is only logged.
EnvFileEnds ==
    /\ position > Len(dotenv)
    /\ Goto("env", "load")
    /\ position' = 1
    /\ UNCHANGED <<given, dotenv, env, contents, config, proxies, hasPool, upstream>>

\* strings.TrimSpace(os.Getenv(key))
Trimmed(key) == IF env[key] = Blank THEN Unset[key] ELSE env[key]

\* config.Load: a single proxy without a pool file is a pool of one.  The setting
\* "pool" is not read.
Load ==
    /\ Goto("load", "open")
    /\ config' = [proxyURL |-> Trimmed("proxy"),
                  poolFile |-> IF Trimmed("proxy") # Empty /\ Trimmed("file") = NoFile
                               THEN InlineSingleProxy ELSE Trimmed("file")]
    /\ UNCHANGED <<given, dotenv, env, contents, position, proxies, hasPool, upstream>>

\* LoadProxyPool is not called, or has nothing to do.
NoPool ==
    /\ config.poolFile = NoFile \/ (config.poolFile = InlineSingleProxy /\ config.proxyURL = Empty)
    /\ Goto("open", "direct")
    /\ UNCHANGED <<given, dotenv, env, contents, config, position, proxies, hasPool, upstream>>

InlinePool ==
    /\ config.poolFile = InlineSingleProxy /\ config.proxyURL # Empty
    /\ Goto("open", "client")
    /\ proxies' = <<config.proxyURL>>
    /\ hasPool' = TRUE
    /\ UNCHANGED <<given, dotenv, env, contents, config, position, upstream>>

OpenFile ==
    /\ config.poolFile = NamedFile /\ contents.state # "missing"
    /\ Goto("open", "scan")
    /\ UNCHANGED <<given, dotenv, env, contents, config, position, proxies, hasPool, upstream>>

OpenFails ==
    /\ config.poolFile = NamedFile /\ contents.state = "missing"
    /\ Goto("open", "refused")
    /\ UNCHANGED <<given, dotenv, env, contents, config, position, proxies, hasPool, upstream>>

IsProxyLine(text) == text \notin Ignored /\ text \in HasSeparator

\* One line of the file; a line without "://" is skipped with a warning.
Scan ==
    LET line == contents.lines[position]
    IN  /\ pc = "scan" /\ position <= Len(contents.lines)
        /\ proxies' = IF IsProxyLine(line) THEN Append(proxies, line) ELSE proxies
        /\ position' = position + 1
        /\ UNCHANGED <<pc, given, dotenv, env, contents, config, hasPool, upstream>>

\* Variant: no pool when the file has no valid proxies, as the comment of
\* LoadProxyPool has it.
ScanEndsWithoutPool ==
    /\ position > Len(contents.lines)
    /\ Goto("scan", IF contents.state = Unreadable THEN "refused"
                    ELSE IF proxies = <<>> THEN "direct" ELSE "client")
    /\ hasPool' = (pc' = "client")
    /\ UNCHANGED <<given, dotenv, env, contents, config, position, proxies, upstream>>

\* The scanner stops; an unreadable file and one without proxies are errors.
ScanEnds ==
    /\ position > Len(contents.lines)
    /\ Goto("scan", IF contents.state = Unreadable \/ proxies = <<>> THEN "refused" ELSE "client")
    /\ hasPool' = (pc' = "client")
    /\ UNCHANGED <<given, dotenv, env, contents, config, position, proxies, upstream>>

\* NewClient, for the first proxy of the pool.
PoolClient ==
    /\ Goto("client", IF Buildable(proxies[1]) THEN "serving" ELSE "refused")
    /\ upstream' = IF Buildable(proxies[1]) THEN proxies[1] ELSE Empty
    /\ UNCHANGED <<given, dotenv, env, contents, config, position, proxies, hasPool>>

\* NewUpstreamClient, when no pool was created.
DirectClient ==
    /\ Goto("direct", IF Buildable(config.proxyURL) THEN "serving" ELSE "refused")
    /\ upstream' = IF Buildable(config.proxyURL) THEN config.proxyURL ELSE Empty
    /\ UNCHANGED <<given, dotenv, env, contents, config, position, proxies, hasPool>>

-----------------------------------------------------------------------------

StartupInit ==
    /\ pc = "env"
    /\ \E e \in Environments :
        given = e.given /\ env = e.given /\ dotenv = e.dotenv /\ contents = e.contents
    /\ config = [proxyURL |-> Empty, poolFile |-> NoFile]
    /\ position = 1
    /\ proxies = <<>>
    /\ hasPool = FALSE
    /\ upstream = Empty

StartupNext ==
    \/ LoadEnvFile \/ EnvFileEnds \/ Load
    \/ NoPool \/ InlinePool \/ OpenFile \/ OpenFails
    \/ Scan \/ ScanEnds
    \/ PoolClient \/ DirectClient

StartupSpec == StartupInit /\ [][StartupNext]_startupVars

-----------------------------------------------------------------------------
(* Properties                                                              *)

\* What is said for a setting by the process, which counts as line 0, and by a
\* line of .env.
Said(key, n) ==
    IF n = 0 THEN given[key]
    ELSE IF dotenv[n].key = key THEN dotenv[n].value ELSE Unset[key]

\* The first to say anything says this.
FirstSaid(key, text) ==
    \E n \in 0 .. Len(dotenv) :
        Said(key, n) = text /\ text # Unset[key] /\ \A k \in 0 .. n - 1 : Said(key, k) = Unset[key]

\* The pool is the proxy lines of the file, each of them once and in order.
PoolIsTheFile ==
    \E from \in [DOMAIN proxies -> DOMAIN contents.lines] :
        /\ Range(from) = {n \in DOMAIN contents.lines : IsProxyLine(contents.lines[n])}
        /\ \A i \in DOMAIN proxies : proxies[i] = contents.lines[from[i]]
        /\ \A i, j \in DOMAIN proxies : i < j => from[i] < from[j]

\* A handler that serves satisfies what modules ProxyPool and Gateway assume:
\* its pool is not empty and the client of its first proxy can be built.  The
\* pool is the proxy lines of the file, or the inline proxy, of which the
\* process's own has precedence over that of .env.
PoolIsUsable ==
    pc = "serving" /\ hasPool =>
        /\ proxies # <<>> /\ Buildable(proxies[1]) /\ upstream = proxies[1]
        /\ IF config.poolFile = NamedFile THEN PoolIsTheFile
           ELSE Len(proxies) = 1 /\ FirstSaid("proxy", proxies[1])

\* A server that was given a proxy or a pool file, in the two settings the code
\* reads, of the process or of .env, has a pool and goes through its first
\* proxy: startup stops rather than go on without.  (What shadows a line of .env
\* counts, even if it is white space.)  Nothing is said of OPCODE_PROXY_POOL,
\* nor of the lines of a pool file that have no "://", which are skipped with a
\* warning.
ProxySettingsAreUsed ==
    pc = "serving" /\ (FirstSaid("file", NamedFile) \/ \E text \in Texts : FirstSaid("proxy", text))
        => hasPool /\ upstream # Empty
=============================================================================
