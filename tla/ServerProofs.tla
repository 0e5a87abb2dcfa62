---------------------------- MODULE ServerProofs ----------------------------
(***************************************************************************)
(* The startup, for every environment, .env and pool file, and the life of *)
(* the process, for any set of connections.                                *)
(*                                                                         *)
(* StartupInv says what each step of the startup has established: the      *)
(* environment follows the lines of .env read so far, the configuration    *)
(* follows the environment, and the proxies are the proxy lines scanned so *)
(* far.                                                                    *)
(*                                                                         *)
(* What the exit status tells is not inductive: one has to know that no    *)
(* request is taken before Listen, so that BuildFails and BindFails leave  *)
(* none behind, that the flag goes up with the signal goroutine and not    *)
(* otherwise, and that the program has one end only, so that no other one  *)
(* follows.                                                                *)
(***************************************************************************)
EXTENDS Server, TLAPS

-----------------------------------------------------------------------------
(* The startup: its invariant                                              *)

\* What is said up to line n of .env is in the environment.
EnvFollows(n) ==
    \A key \in Keys :
        IF env[key] = Unset[key] THEN \A k \in 0 .. n : Said(key, k) = Unset[key]
        ELSE \E m \in 0 .. n : Said(key, m) = env[key] /\ \A k \in 0 .. m - 1 : Said(key, k) = Unset[key]

\* These are the proxy lines among the first n.
ProxyLines(list, lines, n) ==
    \E from \in [DOMAIN list -> 1 .. n] :
        /\ Range(from) = {k \in 1 .. n : IsProxyLine(lines[k])}
        /\ \A i \in DOMAIN list : list[i] = lines[from[i]]
        /\ \A i, j \in DOMAIN list : i < j => from[i] < from[j]

Scanned(n) == ProxyLines(proxies, contents.lines, n)

StartupTypes ==
    /\ given \in Settings /\ env \in Settings /\ dotenv \in Seq(EnvLine)
    /\ contents.lines \in Seq(Texts)
    /\ proxies \in Seq(Texts) /\ position \in Nat \ {0}

EnvInv ==
    /\ pc = "env" => position <= Len(dotenv) + 1 /\ EnvFollows(position - 1)
    /\ pc # "env" => EnvFollows(Len(dotenv))

ConfigInv ==
    pc \notin {"env", "load"} =>
        /\ config.proxyURL = Trimmed("proxy")
        /\ config.poolFile = IF Trimmed("proxy") # Empty /\ Trimmed("file") = NoFile
                             THEN InlineSingleProxy ELSE Trimmed("file")

PoolBuilt ==
    /\ proxies # <<>>
    /\ \/ config.poolFile = NamedFile /\ Scanned(Len(contents.lines))
       \/ config.poolFile = InlineSingleProxy /\ config.proxyURL # Empty /\ proxies = <<config.proxyURL>>

\* No proxy was asked for.
NoneAskedFor == config.poolFile # NamedFile /\ config.proxyURL = Empty

PoolInv ==
    /\ pc \in {"env", "load", "open"} => proxies = <<>>
    /\ pc \in {"load", "open"} => position = 1
    /\ pc = "scan" =>
        /\ config.poolFile = NamedFile
        /\ position <= Len(contents.lines) + 1
        /\ Scanned(position - 1)
    /\ pc \in {"env", "load", "open", "scan", "direct"} => ~hasPool
    /\ hasPool => PoolBuilt
    /\ pc = "client" => hasPool
    /\ pc = "direct" \/ (pc = "serving" /\ ~hasPool) => NoneAskedFor
    /\ pc = "serving" /\ hasPool => Buildable(proxies[1]) /\ upstream = proxies[1]

StartupInv == StartupTypes /\ EnvInv /\ ConfigInv /\ PoolInv

-----------------------------------------------------------------------------
(* The startup: its steps                                                  *)

WithSetting(e, line) == [e EXCEPT ![line.key] = line.value]

\* A line sets the setting it names, and no other.
LEMMA SettingReplaced ==
    ASSUME NEW e \in Settings, NEW line \in EnvLine
    PROVE  /\ line.key \in Keys
           /\ WithSetting(e, line) \in Settings /\ WithSetting(e, line)[line.key] = line.value
           /\ \A key \in Keys : key # line.key => WithSetting(e, line)[key] = e[key]
<1> DEFINE f == WithSetting(e, line)
<1>1. CASE line.key = "proxy" /\ line.value \in Texts \cup {Blank}
    <2>1. f = [e EXCEPT !["proxy"] = line.value]
        BY <1>1 DEF WithSetting
    <2>2. QED
        BY <1>1, <2>1 DEF Settings, Keys
<1>2. CASE line.key = "file" /\ line.value \in FileNames \cup {Blank}
    <2>1. f = [e EXCEPT !["file"] = line.value]
        BY <1>2 DEF WithSetting
    <2>2. QED
        BY <1>2, <2>1 DEF Settings, Keys
<1>3. CASE line.key = "pool" /\ line.value \in FileNames \cup {Blank}
    <2>1. f = [e EXCEPT !["pool"] = line.value]
        BY <1>3 DEF WithSetting
    <2>2. QED
        BY <1>3, <2>1 DEF Settings, Keys
<1>4. QED
    BY <1>1, <1>2, <1>3 DEF EnvLine

\* One more line of .env.
LEMMA EnvFollowsOn ==
    ASSUME StartupTypes, LoadEnvFile, EnvFollows(position - 1)
    PROVE  EnvFollows(position - 1)'
<1> DEFINE line == dotenv[position]
<1>1. /\ dotenv \in Seq(EnvLine) /\ position \in Nat \ {0} /\ position <= Len(dotenv) /\ line \in EnvLine
      /\ given \in Settings /\ env \in Settings
    BY DEF StartupTypes, LoadEnvFile
<1>2. /\ env' = IF env[line.key] = Unset[line.key] THEN [env EXCEPT ![line.key] = line.value] ELSE env
      /\ UNCHANGED <<given, dotenv>> /\ position' = position + 1
    BY DEF LoadEnvFile
<1>3. \A key, n : Said(key, n)' = Said(key, n)
    BY <1>2 DEF Said
<1>4. \A key : Said(key, position) = IF line.key = key THEN line.value ELSE Unset[key]
    BY <1>1 DEF Said
<1>5. position' - 1 = position
    BY <1>1, <1>2
<1>6. ASSUME NEW key \in Keys
      PROVE  IF env'[key] = Unset[key] THEN \A k \in 0 .. position : Said(key, k) = Unset[key]
             ELSE \E m \in 0 .. position : Said(key, m) = env'[key] /\ \A k \in 0 .. m - 1 : Said(key, k) = Unset[key]
    <2>1. IF env[key] = Unset[key] THEN \A k \in 0 .. position - 1 : Said(key, k) = Unset[key]
          ELSE \E m \in 0 .. position - 1 : Said(key, m) = env[key] /\ \A k \in 0 .. m - 1 : Said(key, k) = Unset[key]
        BY <1>6 DEF EnvFollows
    <2>2. \A k \in 0 .. position : k \in 0 .. position - 1 \/ k = position
        BY <1>1
    <2>3. 0 .. position - 1 \subseteq 0 .. position /\ position \in 0 .. position
        BY <1>1
    <2>4. env'[key] = IF env[key] = Unset[key] /\ line.key = key THEN line.value ELSE env[key]
        <3>1. CASE env[line.key] = Unset[line.key]
            <4>1. env' = WithSetting(env, line)
                BY <1>2, <3>1, Zenon DEF WithSetting
            <4> HIDE DEF line
            <4>2. env'[line.key] = line.value /\ \A k \in Keys : k # line.key => env'[k] = env[k]
                BY <1>1, <4>1, SettingReplaced
            <4>3. CASE line.key = key
                BY <3>1, <4>2, <4>3
            <4>4. CASE line.key # key
                BY <1>6, <4>2, <4>4
            <4>5. QED
                BY <4>3, <4>4
        <3>2. CASE env[line.key] # Unset[line.key]
            BY <1>2, <3>2
        <3>3. QED
            BY <3>1, <3>2
    <2>5. CASE env[key] # Unset[key]
        <3>1. env'[key] = env[key]
            BY <2>4, <2>5
        <3>2. QED
            BY <2>1, <2>3, <2>5, <3>1
    <2>6. CASE env[key] = Unset[key]
        <3>1. \A k \in 0 .. position - 1 : Said(key, k) = Unset[key]
            BY <2>1, <2>6
        <3>2. env'[key] = Said(key, position)
            BY <1>2, <1>4, <2>4, <2>6
        <3>3. CASE env'[key] = Unset[key]
            BY <2>2, <3>1, <3>2, <3>3
        <3>4. CASE env'[key] # Unset[key]
            BY <2>3, <3>1, <3>2, <3>4
        <3>5. QED
            BY <3>3, <3>4
    <2>7. QED
        BY <2>5, <2>6
<1>7. QED
    BY <1>3, <1>5, <1>6 DEF EnvFollows

\* At the end the environment says what was said first.
LEMMA FirstSaidIsInEnv ==
    ASSUME StartupTypes, EnvFollows(Len(dotenv)), NEW key \in Keys
    PROVE  /\ env[key] # Unset[key] => FirstSaid(key, env[key])
           /\ \A text : FirstSaid(key, text) => env[key] = text
<1>1. Len(dotenv) \in Nat
    BY DEF StartupTypes
<1>2. IF env[key] = Unset[key] THEN \A k \in 0 .. Len(dotenv) : Said(key, k) = Unset[key]
      ELSE \E m \in 0 .. Len(dotenv) : Said(key, m) = env[key] /\ \A k \in 0 .. m - 1 : Said(key, k) = Unset[key]
    BY DEF EnvFollows
<1>3. env[key] # Unset[key] => FirstSaid(key, env[key])
    BY <1>2 DEF FirstSaid
<1>4. ASSUME NEW text, FirstSaid(key, text) PROVE env[key] = text
    <2>1. PICK n \in 0 .. Len(dotenv) :
            Said(key, n) = text /\ text # Unset[key] /\ \A k \in 0 .. n - 1 : Said(key, k) = Unset[key]
        BY <1>4 DEF FirstSaid
    <2>2. env[key] # Unset[key]
        BY <1>2, <2>1
    <2>3. PICK m \in 0 .. Len(dotenv) : Said(key, m) = env[key] /\ \A k \in 0 .. m - 1 : Said(key, k) = Unset[key]
        BY <1>2, <2>2
    <2>4. n \in 0 .. m - 1 \/ m \in 0 .. n - 1 \/ m = n
        BY <1>1
    <2>5. QED
        BY <2>1, <2>2, <2>3, <2>4
<1>5. QED
    BY <1>3, <1>4

\* A line is skipped, or becomes the last proxy.
LEMMA OneMoreLine ==
    ASSUME NEW list \in Seq(Texts), NEW lines \in Seq(Texts), NEW p \in 1 .. Len(lines),
           ProxyLines(list, lines, p - 1)
    PROVE  ProxyLines(IF IsProxyLine(lines[p]) THEN Append(list, lines[p]) ELSE list,
                      lines, p)
<1> DEFINE n == Len(list)
           Is(k) == IsProxyLine(lines[k])
           longer == IF Is(p) THEN Append(list, lines[p]) ELSE list
<1>1. n \in Nat /\ DOMAIN list = 1 .. n /\ p \in Nat \ {0} /\ lines[p] \in Texts
    OBVIOUS
<1>2. PICK from \in [1 .. n -> 1 .. p - 1] :
        /\ Range(from) = {k \in 1 .. p - 1 : Is(k)}
        /\ \A i \in 1 .. n : list[i] = lines[from[i]]
        /\ \A i, j \in 1 .. n : i < j => from[i] < from[j]
    BY <1>1 DEF ProxyLines
<1>3. 1 .. p - 1 \subseteq 1 .. p /\ 1 .. p = 1 .. p - 1 \cup {p}
    BY <1>1
<1>4. SUFFICES \E f \in [DOMAIN longer -> 1 .. p] :
        /\ Range(f) = {k \in 1 .. p : Is(k)}
        /\ \A i \in DOMAIN longer : longer[i] = lines[f[i]]
        /\ \A i, j \in DOMAIN longer : i < j => f[i] < f[j]
    BY DEF ProxyLines
<1> HIDE DEF Is
<1>5. CASE ~Is(p)
    <2>1. longer = list
        BY <1>5
    <2> HIDE DEF longer
    <2>2. {k \in 1 .. p : Is(k)} = {k \in 1 .. p - 1 : Is(k)}
        BY <1>3, <1>5
    <2>3. from \in [1 .. n -> 1 .. p]
        BY <1>2, <1>3
    <2>4. QED
        BY <1>1, <1>2, <2>1, <2>2, <2>3
<1>6. CASE Is(p)
    <2> DEFINE f == [i \in 1 .. n + 1 |-> IF i = n + 1 THEN p ELSE from[i]]
    <2>1. longer = Append(list, lines[p])
        BY <1>6
    <2> HIDE DEF longer
    <2>2. /\ DOMAIN longer = 1 .. n + 1 /\ longer[n + 1] = lines[p]
          /\ \A i \in 1 .. n : longer[i] = list[i]
        BY <1>1, <2>1
    <2>3. 1 .. n + 1 = 1 .. n \cup {n + 1} /\ \A i \in 1 .. n : i # n + 1 /\ i < n + 1
        BY <1>1
    <2>4. f[n + 1] = p /\ \A i \in 1 .. n : f[i] = from[i] /\ from[i] \in 1 .. p - 1
        BY <1>2, <2>3
    <2>5. DOMAIN f = 1 .. n + 1
        OBVIOUS
    <2> HIDE DEF f
    <2>6. \A i \in 1 .. n + 1 : f[i] \in 1 .. p
        BY <1>3, <2>3, <2>4
    <2>7. f \in [1 .. n + 1 -> 1 .. p]
        <3>1. f = [i \in 1 .. n + 1 |-> f[i]]
            BY DEF f
        <3>2. QED
            BY <2>6, <3>1
    <2>8. Range(f) = {k \in 1 .. p : Is(k)}
        <3>1. \A k : k \in Range(f) <=> k = p \/ k \in Range(from)
            <4>1. \A k : k \in Range(f) <=> \E i \in 1 .. n + 1 : f[i] = k
                BY <2>5 DEF Range
            <4>2. \A k : k \in Range(from) <=> \E i \in 1 .. n : from[i] = k
                BY <1>2 DEF Range
            <4>3. QED
                BY <2>3, <2>4, <4>1, <4>2
        <3>2. QED
            BY <1>2, <1>3, <1>6, <3>1
    <2>9. \A i \in 1 .. n + 1 : longer[i] = lines[f[i]]
        BY <1>2, <2>2, <2>3, <2>4
    <2>10. \A i, j \in 1 .. n + 1 : i < j => f[i] < f[j]
        <3>1. SUFFICES ASSUME NEW i \in 1 .. n + 1, NEW j \in 1 .. n + 1, i < j PROVE f[i] < f[j]
            OBVIOUS
        <3>2. i \in 1 .. n
            BY <1>1, <3>1
        <3>3. CASE j = n + 1
            <4>1. from[i] < p
                BY <1>1, <2>4, <3>2
            <4>2. QED
                BY <2>4, <3>2, <3>3, <4>1
        <3>4. CASE j \in 1 .. n
            BY <1>2, <2>4, <3>1, <3>2, <3>4
        <3>5. QED
            BY <2>3, <3>3, <3>4
    <2>11. QED
        BY <2>2, <2>7, <2>8, <2>9, <2>10
<1>7. QED
    BY <1>5, <1>6

\* Of no lines, no proxies.
LEMMA NoLineYet ==
    ASSUME NEW lines
    PROVE  ProxyLines(<<>>, lines, 0)
<1> DEFINE from == [i \in {} |-> 0]
<1>1. DOMAIN <<>> = {} /\ 1 .. 0 = {}
    OBVIOUS
<1>2. from \in [{} -> 1 .. 0] /\ Range(from) = {}
    BY DEF Range
<1>3. {k \in 1 .. 0 : IsProxyLine(lines[k])} = {}
    BY <1>1
<1> HIDE DEF from
<1>4. QED
    BY <1>1, <1>2, <1>3 DEF ProxyLines

\* After the configuration is loaded, only the pool changes.
LEMMA SettingsStay ==
    ASSUME EnvInv, ConfigInv, UNCHANGED <<given, dotenv, env, config>>, pc \notin {"env", "load"}, pc' # "env"
    PROVE  EnvInv' /\ ConfigInv'
<1>1. EnvFollows(Len(dotenv))'
    BY DEF EnvInv, EnvFollows, Said
<1>2. Trimmed("proxy")' = Trimmed("proxy") /\ Trimmed("file")' = Trimmed("file")
    BY DEF Trimmed
<1>3. QED
    BY <1>1, <1>2 DEF EnvInv, ConfigInv

\* Before the first line of .env, the environment is what the process was given.
LEMMA StartupInvHolds == StartupInit => StartupInv
<1> SUFFICES ASSUME StartupInit PROVE StartupInv
    OBVIOUS
<1>1. PICK e \in Environments : given = e.given /\ env = e.given /\ dotenv = e.dotenv /\ contents = e.contents
    BY DEF StartupInit
<1>2. /\ given \in Settings /\ env = given /\ dotenv \in Seq(EnvLine) /\ contents.lines \in Seq(Texts)
    BY <1>1, EnvironmentAssumption
<1>3. position = 1 /\ proxies = <<>> /\ pc = "env" /\ hasPool = FALSE
    BY DEF StartupInit
<1>4. StartupTypes
    BY <1>2, <1>3 DEF StartupTypes
<1>5. EnvInv
    <2>1. position <= Len(dotenv) + 1 /\ position - 1 = 0
        BY <1>2, <1>3
    <2>2. \A key : Said(key, 0) = env[key]
        BY <1>2 DEF Said
    <2>3. \A k \in 0 .. 0 : k = 0
        OBVIOUS
    <2>4. 0 \in 0 .. 0 /\ \A k \in 0 .. 0 - 1 : FALSE
        OBVIOUS
    <2>5. EnvFollows(0)
        BY <2>2, <2>3, <2>4 DEF EnvFollows
    <2>6. QED
        BY <1>3, <2>1, <2>5 DEF EnvInv
<1>6. QED
    BY <1>3, <1>4, <1>5 DEF StartupInv, ConfigInv, PoolInv

\* Every step of the startup keeps the invariant.
LEMMA StartupInvKept == StartupInv /\ [StartupNext]_startupVars => StartupInv'
<1> SUFFICES ASSUME StartupInv, [StartupNext]_startupVars PROVE StartupInv'
    OBVIOUS
<1>1. StartupTypes /\ EnvInv /\ ConfigInv /\ PoolInv
    BY DEF StartupInv
<1>2. CASE LoadEnvFile
    <2>1. /\ pc = "env" /\ pc' = "env" /\ position' = position + 1 /\ position <= Len(dotenv)
          /\ UNCHANGED <<given, dotenv, contents, config, proxies, hasPool, upstream>>
        BY <1>2 DEF LoadEnvFile
    <2>2. env' \in Settings
        <3>1. dotenv[position] \in EnvLine /\ env \in Settings
            BY <1>1, <2>1 DEF StartupTypes
        <3>2. env' = env \/ env' = WithSetting(env, dotenv[position])
            BY <1>2, Zenon DEF LoadEnvFile, WithSetting
        <3>3. QED
            BY <3>1, <3>2, SettingReplaced
    <2>3. StartupTypes'
        BY <1>1, <2>1, <2>2 DEF StartupTypes
    <2>4. EnvInv'
        <3>1. EnvFollows(position - 1)'
            BY <1>1, <1>2, <2>1, EnvFollowsOn DEF EnvInv
        <3>2. position' <= Len(dotenv') + 1
            BY <1>1, <2>1 DEF StartupTypes
        <3>3. QED
            BY <2>1, <3>1, <3>2 DEF EnvInv
    <2>5. QED
        BY <1>1, <2>1, <2>3, <2>4 DEF StartupInv, ConfigInv, PoolInv, PoolBuilt, Scanned
<1>3. CASE EnvFileEnds
    <2>1. /\ pc = "env" /\ pc' = "load" /\ position' = 1 /\ position > Len(dotenv)
          /\ UNCHANGED <<given, dotenv, env, contents, config, proxies, hasPool, upstream>>
        BY <1>3 DEF EnvFileEnds, Goto
    <2>2. StartupTypes'
        BY <1>1, <2>1 DEF StartupTypes
    <2>3. EnvInv'
        <3>1. position - 1 = Len(dotenv)
            BY <1>1, <2>1 DEF StartupTypes, EnvInv
        <3>2. EnvFollows(Len(dotenv))
            BY <1>1, <2>1, <3>1 DEF EnvInv
        <3>3. EnvFollows(Len(dotenv))'
            BY <2>1, <3>2 DEF EnvFollows, Said
        <3>4. QED
            BY <2>1, <3>3 DEF EnvInv
    <2>4. QED
        BY <1>1, <2>1, <2>2, <2>3 DEF StartupInv, ConfigInv, PoolInv, PoolBuilt, Scanned
<1>4. CASE Load
    <2>1. /\ pc = "load" /\ pc' = "open"
          /\ UNCHANGED <<given, dotenv, env, contents, position, proxies, hasPool, upstream>>
        BY <1>4 DEF Load, Goto
    <2>2. StartupTypes'
        BY <1>1, <2>1 DEF StartupTypes
    <2>3. EnvInv'
        <3>1. EnvFollows(Len(dotenv))'
            BY <1>1, <2>1 DEF EnvInv, EnvFollows, Said
        <3>2. QED
            BY <2>1, <3>1 DEF EnvInv
    <2>4. ConfigInv'
        <3>1. Trimmed("proxy")' = Trimmed("proxy") /\ Trimmed("file")' = Trimmed("file")
            BY <2>1 DEF Trimmed
        <3>2. /\ config'.proxyURL = Trimmed("proxy")
              /\ config'.poolFile = IF Trimmed("proxy") # Empty /\ Trimmed("file") = NoFile
                                    THEN InlineSingleProxy ELSE Trimmed("file")
            BY <1>4 DEF Load
        <3>3. QED
            BY <3>1, <3>2 DEF ConfigInv
    <2>5. PoolInv'
        BY <1>1, <2>1 DEF PoolInv
    <2>6. QED
        BY <2>2, <2>3, <2>4, <2>5 DEF StartupInv
<1>5. CASE NoPool \/ InlinePool \/ OpenFile \/ OpenFails
    <2>1. /\ pc = "open" /\ pc' \in {"direct", "client", "scan", "refused"}
          /\ UNCHANGED <<given, dotenv, env, contents, config, position, upstream>>
        BY <1>5 DEF NoPool, InlinePool, OpenFile, OpenFails, Goto
    <2>2. EnvInv' /\ ConfigInv'
        BY <1>1, <2>1, SettingsStay
    <2>3. /\ env \in Settings
          /\ config.proxyURL = Trimmed("proxy")
          /\ config.poolFile = IF Trimmed("proxy") # Empty /\ Trimmed("file") = NoFile
                               THEN InlineSingleProxy ELSE Trimmed("file")
          /\ position = 1 /\ proxies = <<>> /\ ~hasPool /\ contents.lines \in Seq(Texts)
        BY <1>1, <2>1 DEF StartupTypes, ConfigInv, PoolInv
    <2>4. CASE NoPool
        <3>1. pc' = "direct" /\ UNCHANGED <<proxies, hasPool>>
            BY <2>4 DEF NoPool, Goto
        <3>2. NoneAskedFor
            BY <2>3, <2>4 DEF NoPool, NoneAskedFor, NoFile, InlineSingleProxy, NamedFile
        <3>3. StartupTypes'
            BY <1>1, <2>1, <3>1 DEF StartupTypes
        <3>4. PoolInv'
            BY <1>1, <2>1, <2>3, <3>1, <3>2 DEF PoolInv, NoneAskedFor
        <3>5. QED
            BY <2>2, <3>3, <3>4 DEF StartupInv
    <2>5. CASE InlinePool
        <3>1. /\ pc' = "client" /\ proxies' = <<config.proxyURL>> /\ hasPool' = TRUE
              /\ config.poolFile = InlineSingleProxy /\ config.proxyURL # Empty
            BY <2>5 DEF InlinePool, Goto
        <3>2. config.proxyURL \in Texts
            BY <2>3, TextAssumption DEF Trimmed, Settings, Unset
        <3>3. proxies' \in Seq(Texts) /\ proxies' # <<>>
            BY <3>1, <3>2
        <3>4. StartupTypes'
            BY <1>1, <2>1, <3>3 DEF StartupTypes
        <3>5. PoolInv'
            BY <2>1, <3>1, <3>3 DEF PoolInv, PoolBuilt
        <3>6. QED
            BY <2>2, <3>4, <3>5 DEF StartupInv
    <2>6. CASE OpenFile
        <3>1. pc' = "scan" /\ UNCHANGED <<proxies, hasPool>> /\ config.poolFile = NamedFile
            BY <2>6 DEF OpenFile, Goto
        <3>2. Scanned(position - 1)'
            <4>1. position' - 1 = 0 /\ proxies' = <<>>
                BY <2>1, <2>3, <3>1
            <4>2. QED
                BY <4>1, NoLineYet DEF Scanned
        <3>3. position' <= Len(contents'.lines) + 1
            BY <2>1, <2>3
        <3>4. StartupTypes'
            BY <1>1, <2>1, <3>1 DEF StartupTypes
        <3>5. PoolInv'
            BY <2>1, <2>3, <3>1, <3>2, <3>3 DEF PoolInv
        <3>6. QED
            BY <2>2, <3>4, <3>5 DEF StartupInv
    <2>7. CASE OpenFails
        <3>1. pc' = "refused" /\ UNCHANGED <<proxies, hasPool>>
            BY <2>7 DEF OpenFails, Goto
        <3>2. StartupTypes'
            BY <1>1, <2>1, <3>1 DEF StartupTypes
        <3>3. PoolInv'
            BY <2>3, <3>1 DEF PoolInv
        <3>4. QED
            BY <2>2, <3>2, <3>3 DEF StartupInv
    <2>8. QED
        BY <1>5, <2>4, <2>5, <2>6, <2>7
<1>6. CASE Scan
    <2> DEFINE line == contents.lines[position]
    <2>1. /\ pc = "scan" /\ position <= Len(contents.lines) /\ position' = position + 1
          /\ proxies' = IF IsProxyLine(line) THEN Append(proxies, line) ELSE proxies
          /\ UNCHANGED <<pc, given, dotenv, env, contents, config, hasPool, upstream>>
        BY <1>6 DEF Scan
    <2>2. /\ position \in 1 .. Len(contents.lines) /\ position' \in Nat \ {0} /\ position' - 1 = position
          /\ contents.lines \in Seq(Texts) /\ proxies \in Seq(Texts) /\ line \in Texts
          /\ position' <= Len(contents.lines) + 1
        BY <1>1, <2>1 DEF StartupTypes
    <2>3. EnvInv' /\ ConfigInv'
        BY <1>1, <2>1, SettingsStay
    <2>4. Scanned(position - 1)'
        <3>1. ProxyLines(proxies, contents.lines, position - 1)
            BY <1>1, <2>1 DEF PoolInv, Scanned
        <3>2. ProxyLines(proxies', contents.lines, position)
            BY <2>1, <2>2, <3>1, OneMoreLine
        <3>3. QED
            BY <2>1, <2>2, <3>2 DEF Scanned
    <2>5. StartupTypes'
        <3>1. proxies' \in Seq(Texts)
            BY <2>1, <2>2
        <3>2. QED
            BY <1>1, <2>1, <2>2, <3>1 DEF StartupTypes
    <2>6. PoolInv'
        BY <1>1, <2>1, <2>2, <2>4 DEF PoolInv
    <2>7. QED
        BY <2>3, <2>5, <2>6 DEF StartupInv
<1>7. CASE ScanEnds
    <2>1. /\ pc = "scan" /\ position > Len(contents.lines) /\ hasPool' = (pc' = "client")
          /\ pc' \in {"refused", "client"} /\ (pc' = "client" => proxies # <<>>)
          /\ UNCHANGED <<given, dotenv, env, contents, config, position, proxies, upstream>>
        BY <1>7 DEF ScanEnds, Goto
    <2>2. EnvInv' /\ ConfigInv'
        BY <1>1, <2>1, SettingsStay
    <2>3. StartupTypes'
        BY <1>1, <2>1 DEF StartupTypes
    <2>4. Scanned(Len(contents.lines)) /\ config.poolFile = NamedFile
        <3>1. position - 1 = Len(contents.lines)
            BY <1>1, <2>1 DEF StartupTypes, PoolInv
        <3>2. QED
            BY <1>1, <2>1, <3>1 DEF PoolInv
    <2>5. PoolInv'
        BY <2>1, <2>4 DEF PoolInv, PoolBuilt, Scanned
    <2>6. QED
        BY <2>2, <2>3, <2>5 DEF StartupInv
<1>8. CASE PoolClient
    <2>1. /\ pc = "client" /\ pc' \in {"serving", "refused"}
          /\ pc' = "serving" => Buildable(proxies[1]) /\ upstream' = proxies[1]
          /\ UNCHANGED <<given, dotenv, env, contents, config, position, proxies, hasPool>>
        BY <1>8 DEF PoolClient, Goto
    <2>2. EnvInv' /\ ConfigInv'
        BY <1>1, <2>1, SettingsStay
    <2>3. StartupTypes'
        BY <1>1, <2>1 DEF StartupTypes
    <2>4. PoolInv'
        BY <1>1, <2>1 DEF PoolInv, PoolBuilt, Scanned
    <2>5. QED
        BY <2>2, <2>3, <2>4 DEF StartupInv
<1>9. CASE DirectClient
    <2>1. /\ pc = "direct" /\ pc' \in {"serving", "refused"}
          /\ UNCHANGED <<given, dotenv, env, contents, config, position, proxies, hasPool>>
        BY <1>9 DEF DirectClient, Goto
    <2>2. EnvInv' /\ ConfigInv'
        BY <1>1, <2>1, SettingsStay
    <2>3. StartupTypes'
        BY <1>1, <2>1 DEF StartupTypes
    <2>4. PoolInv'
        BY <1>1, <2>1 DEF PoolInv, NoneAskedFor
    <2>5. QED
        BY <2>2, <2>3, <2>4 DEF StartupInv
<1>10. CASE UNCHANGED startupVars
    BY <1>1, <1>10 DEF startupVars, StartupInv, StartupTypes, EnvInv, EnvFollows, Said, ConfigInv, Trimmed,
                       PoolInv, PoolBuilt, Scanned, NoneAskedFor
<1>11. QED
    BY <1>2, <1>3, <1>4, <1>5, <1>6, <1>7, <1>8, <1>9, <1>10 DEF StartupNext

\* What the invariant says of a handler that serves.
LEMMA ServingIsUsable == StartupInv => PoolIsUsable
<1> SUFFICES ASSUME StartupInv, pc = "serving", hasPool
             PROVE  /\ proxies # <<>> /\ Buildable(proxies[1]) /\ upstream = proxies[1]
                    /\ IF config.poolFile = NamedFile THEN PoolIsTheFile
                       ELSE Len(proxies) = 1 /\ FirstSaid("proxy", proxies[1])
    BY DEF PoolIsUsable
<1>1. /\ PoolBuilt /\ Buildable(proxies[1]) /\ upstream = proxies[1]
      /\ StartupTypes /\ EnvFollows(Len(dotenv))
      /\ config.proxyURL = Trimmed("proxy")
    BY DEF StartupInv, PoolInv, EnvInv, ConfigInv
<1>2. CASE config.poolFile = NamedFile
    <2>1. ProxyLines(proxies, contents.lines, Len(contents.lines))
        BY <1>1, <1>2 DEF PoolBuilt, Scanned, NamedFile, InlineSingleProxy
    <2>2. DOMAIN contents.lines = 1 .. Len(contents.lines)
        BY <1>1 DEF StartupTypes
    <2>3. PoolIsTheFile
        BY <2>1, <2>2 DEF ProxyLines, PoolIsTheFile
    <2>4. QED
        BY <1>1, <1>2, <2>3 DEF PoolBuilt
<1>3. CASE config.poolFile # NamedFile
    <2>1. proxies = <<config.proxyURL>> /\ config.proxyURL # Empty
        BY <1>1, <1>3 DEF PoolBuilt
    <2>2. Len(proxies) = 1 /\ proxies[1] = Trimmed("proxy") /\ Trimmed("proxy") # Unset["proxy"]
        BY <1>1, <2>1 DEF Unset
    <2>3. env["proxy"] = proxies[1] /\ env["proxy"] # Unset["proxy"]
        BY <2>2 DEF Trimmed
    <2>4. FirstSaid("proxy", proxies[1])
        BY <1>1, <2>3, FirstSaidIsInEnv DEF Keys
    <2>5. QED
        BY <1>1, <1>3, <2>2, <2>4 DEF PoolBuilt
<1>4. QED
    BY <1>2, <1>3

\* A proxy that was asked for leaves Load no way to a direct client, and the
\* first proxy of a pool is not the empty text.
LEMMA ServingIsNotDirect == StartupInv => ProxySettingsAreUsed
<1> SUFFICES ASSUME StartupInv, pc = "serving",
                    FirstSaid("file", NamedFile) \/ \E text \in Texts : FirstSaid("proxy", text)
             PROVE  hasPool /\ upstream # Empty
    BY DEF ProxySettingsAreUsed
<1>1. /\ StartupTypes /\ EnvFollows(Len(dotenv)) /\ PoolInv
      /\ config.proxyURL = Trimmed("proxy")
      /\ config.poolFile = IF Trimmed("proxy") # Empty /\ Trimmed("file") = NoFile
                           THEN InlineSingleProxy ELSE Trimmed("file")
    BY DEF StartupInv, EnvInv, ConfigInv
<1>2. ~NoneAskedFor
    <2>1. CASE FirstSaid("file", NamedFile)
        <3>1. env["file"] = NamedFile
            BY <1>1, <2>1, FirstSaidIsInEnv DEF Keys
        <3>2. Trimmed("file") = NamedFile
            BY <3>1, TextAssumption DEF Trimmed, FileNames
        <3>3. config.poolFile = NamedFile
            BY <1>1, <3>2 DEF NamedFile, NoFile
        <3>4. QED
            BY <3>3 DEF NoneAskedFor
    <2>2. ASSUME NEW text \in Texts, FirstSaid("proxy", text) PROVE ~NoneAskedFor
        <3>1. env["proxy"] = text /\ text # Unset["proxy"]
            <4>1. env["proxy"] = text
                BY <1>1, <2>2, FirstSaidIsInEnv DEF Keys
            <4>2. QED
                BY <2>2, <4>1 DEF FirstSaid
        <3>2. Trimmed("proxy") = text /\ text # Empty
            BY <3>1, TextAssumption DEF Trimmed, Unset
        <3>3. QED
            BY <1>1, <3>2 DEF NoneAskedFor
    <2>3. QED
        BY <2>1, <2>2
<1>3. hasPool /\ PoolBuilt /\ upstream = proxies[1]
    BY <1>1, <1>2 DEF PoolInv
<1>4. CASE config.poolFile = NamedFile
    <2>1. ProxyLines(proxies, contents.lines, Len(contents.lines))
        BY <1>3, <1>4 DEF PoolBuilt, Scanned, NamedFile, InlineSingleProxy
    <2>2. 1 \in DOMAIN proxies
        BY <1>1, <1>3 DEF PoolBuilt, StartupTypes
    <2>3. IsProxyLine(proxies[1])
        <3>1. PICK from \in [DOMAIN proxies -> 1 .. Len(contents.lines)] :
                /\ Range(from) = {k \in 1 .. Len(contents.lines) : IsProxyLine(contents.lines[k])}
                /\ \A i \in DOMAIN proxies : proxies[i] = contents.lines[from[i]]
            BY <2>1 DEF ProxyLines
        <3>2. from[1] \in Range(from)
            BY <2>2, <3>1 DEF Range
        <3>3. QED
            BY <2>2, <3>1, <3>2
    <2>4. QED
        BY <1>3, <2>3, TextAssumption DEF IsProxyLine
<1>5. CASE config.poolFile # NamedFile
    BY <1>3, <1>5 DEF PoolBuilt
<1>6. QED
    BY <1>3, <1>4, <1>5

-----------------------------------------------------------------------------
(* The life of the process                                                 *)

Untouched == \A c \in Connections : request[c] \in {"unborn", "refused"}

\* Where requests may have been taken, and when the flag is up.
Stages ==
    /\ exitCode = NotExited <=> Running
    /\ process \in {"building", "starting", "binding"} => Untouched
    /\ process = "building" => watcher = "unborn"
    /\ inShutdown => watcher \in {"draining", "done"}

\* What ends, or is about to, has a reason.
Reasons ==
    /\ process = "failing" \/ exitCode = 1 => acceptError \/ Untouched
    /\ exitCode = 0 => inShutdown

ServerInv == ServerTypeOK /\ Stages /\ Reasons

-----------------------------------------------------------------------------

\* The end of the process cuts the requests in progress, of which there are none
\* where the code is 1 and the listener has not failed.
LEMMA ExitKeepsInv ==
    ASSUME ServerInv, Running, NEW code \in {0, 1, 2}, Exit(code),
           code = 1 => acceptError \/ Untouched, code = 0 => inShutdown
    PROVE  ServerInv'
<1>1. /\ process' = "exited" /\ exitCode' = code
      /\ request' = [c \in Connections |-> IF request[c] = "active" THEN "cut" ELSE request[c]]
      /\ UNCHANGED <<watcher, signals, inShutdown, acceptError>>
    BY DEF Exit
<1>2. \A c \in Connections : request'[c] \in Fates
    BY <1>1 DEF ServerInv, ServerTypeOK, Fates
<1>3. ServerTypeOK'
    BY <1>1, <1>2 DEF ServerInv, ServerTypeOK, Processes
<1>4. Untouched => Untouched'
    BY <1>1 DEF Untouched
<1>5. (exitCode = NotExited <=> Running)'
    BY <1>1 DEF Running, NotExited
<1>6. Stages'
    BY <1>1, <1>4, <1>5 DEF ServerInv, Stages
<1>7. Reasons'
    BY <1>1, <1>4 DEF Reasons, NotExited
<1>8. QED
    BY <1>3, <1>6, <1>7 DEF ServerInv

\* Every step of the process keeps the invariant.
LEMMA ServerInvInductive ==
    /\ Init => ServerInv
    /\ ServerInv /\ [Next]_vars => ServerInv'
<1>1. Init => ServerInv
    <2>1. Init => ServerTypeOK
        BY DEF Init, ServerTypeOK, NotExited, Processes, Watchers, Fates
    <2>2. Init => Stages /\ Reasons
        BY DEF Init, Stages, Reasons, Running, NotExited, Untouched
    <2>3. QED
        BY <2>1, <2>2 DEF ServerInv
<1>2. ASSUME ServerInv, [Next]_vars PROVE ServerInv'
    <2>1. CASE BuildHandler \/ UNCHANGED vars
        <3>1. UNCHANGED serverVars
            BY <2>1 DEF BuildHandler, vars
        <3>2. QED
            BY <1>2, <3>1 DEF serverVars, ServerInv, ServerTypeOK, Stages, Reasons, Running, Untouched
    <2>2. CASE HandlerBuilt \/ CheckFlag \/ Listen \/ BindFails
        <3>1. /\ process \in {"building", "starting", "binding"}
              /\ process' \in {"starting", "binding", "serving", "failing"}
              /\ watcher' = watcher \/ (watcher' = "starting" /\ process = "building")
              /\ UNCHANGED <<exitCode, signals, inShutdown, acceptError, request>>
            BY <2>2 DEF HandlerBuilt, CheckFlag, Listen, BindFails
        <3>2. ServerTypeOK'
            BY <1>2, <3>1 DEF ServerInv, ServerTypeOK, Processes, Watchers
        <3>3. Untouched /\ Untouched'
            BY <1>2, <3>1 DEF ServerInv, Stages, Untouched
        <3>4. QED
            BY <1>2, <3>1, <3>2, <3>3 DEF ServerInv, Stages, Reasons, Running
    <2>3. CASE ServeFails \/ AcceptFails
        <3>1. /\ process = "serving" /\ process' \in {"serving", "failing"}
              /\ acceptError' \in {acceptError, TRUE}
              /\ UNCHANGED <<exitCode, watcher, signals, inShutdown, request>>
            BY <2>3 DEF ServeFails, AcceptFails
        <3>2. ServerTypeOK'
            BY <1>2, <3>1 DEF ServerInv, ServerTypeOK, Processes
        <3>3. Stages'
            BY <1>2, <3>1 DEF ServerInv, Stages, Running
        <3>4. exitCode = NotExited
            BY <1>2, <3>1 DEF ServerInv, Stages, Running
        <3>5. process' = "failing" => acceptError'
            <4>1. CASE ServeFails
                BY <4>1 DEF ServeFails
            <4>2. CASE AcceptFails
                BY <4>2 DEF AcceptFails
            <4>3. QED
                BY <2>3, <4>1, <4>2
        <3>6. Reasons'
            BY <3>1, <3>4, <3>5 DEF Reasons, NotExited
        <3>7. QED
            BY <3>2, <3>3, <3>6 DEF ServerInv
    <2>4. CASE BuildFails \/ ServerError
        <3>1. Running /\ (acceptError \/ Untouched) /\ Exit(1)
            BY <1>2, <2>4 DEF BuildFails, ServerError, ServerInv, Stages, Reasons, Running
        <3>2. QED
            BY <1>2, <3>1, ExitKeepsInv
    <2>5. CASE ServerClosed
        <3>1. Running /\ inShutdown /\ Exit(0)
            BY <2>5 DEF ServerClosed, Running
        <3>2. QED
            BY <1>2, <3>1, ExitKeepsInv
    <2>6. CASE SignalKills
        <3>1. Running /\ Exit(2)
            BY <2>6 DEF SignalKills
        <3>2. QED
            BY <1>2, <3>1, ExitKeepsInv
    <2>7. CASE Notify \/ TakeSignal \/ Shutdown \/ ShutdownReturns \/ Signal
        <3>1. /\ Running /\ watcher # "unborn"
              /\ watcher' \in {"waiting", "notified", "draining", "done", watcher}
              /\ signals' \in {0, 1, signals}
              /\ inShutdown' = inShutdown \/ (inShutdown' = TRUE /\ watcher' = "draining")
              /\ watcher \in {"draining", "done"} => watcher' \in {"draining", "done"}
              /\ UNCHANGED <<process, exitCode, acceptError, request>>
            <4>1. CASE Notify
                BY <4>1 DEF Notify
            <4>2. CASE TakeSignal
                BY <4>2 DEF TakeSignal
            <4>3. CASE Shutdown
                BY <4>3 DEF Shutdown
            <4>4. CASE ShutdownReturns
                BY <4>4 DEF ShutdownReturns
            <4>5. CASE Signal
                BY <4>5 DEF Signal
            <4>6. QED
                BY <2>7, <4>1, <4>2, <4>3, <4>4, <4>5
        <3>2. ServerTypeOK'
            BY <1>2, <3>1 DEF ServerInv, ServerTypeOK, Watchers
        <3>3. Stages'
            BY <1>2, <3>1 DEF ServerInv, Stages, Running, Untouched
        <3>4. exitCode = NotExited
            BY <1>2, <3>1 DEF ServerInv, Stages
        <3>5. Reasons'
            BY <1>2, <3>1, <3>4 DEF ServerInv, Reasons, Untouched, NotExited
        <3>6. QED
            BY <3>2, <3>3, <3>5 DEF ServerInv
    <2>8. ASSUME NEW c \in Connections, Arrive(c) PROVE ServerInv'
        <3> DEFINE fate == IF process = "serving" /\ ~inShutdown THEN "active" ELSE "refused"
        <3>1. /\ request' = [request EXCEPT ![c] = fate]
              /\ UNCHANGED <<process, exitCode, watcher, signals, inShutdown, acceptError>>
            BY <2>8 DEF Arrive
        <3>2. fate \in Fates /\ (process # "serving" => fate = "refused")
            BY DEF Fates
        <3> HIDE DEF fate
        <3>3. ServerTypeOK'
            BY <1>2, <3>1, <3>2 DEF ServerInv, ServerTypeOK
        <3>4. process # "serving" /\ Untouched => Untouched'
            BY <1>2, <3>1, <3>2 DEF Untouched, ServerInv, ServerTypeOK
        <3>5. Stages'
            BY <1>2, <3>1, <3>4 DEF ServerInv, Stages, Running
        <3>6. process = "failing" \/ exitCode = 1 => process # "serving"
            BY <1>2 DEF ServerInv, Stages, Running, NotExited
        <3>7. Reasons'
            BY <1>2, <3>1, <3>4, <3>6 DEF ServerInv, Reasons
        <3>8. QED
            BY <3>3, <3>5, <3>7 DEF ServerInv
    <2>9. ASSUME NEW c \in Connections, Answer(c) PROVE ServerInv'
        <3>1. /\ Running /\ request[c] = "active" /\ request' = [request EXCEPT ![c] = "answered"]
              /\ UNCHANGED <<process, exitCode, watcher, signals, inShutdown, acceptError>>
            BY <2>9 DEF Answer
        <3>2. ServerTypeOK'
            BY <1>2, <3>1 DEF ServerInv, ServerTypeOK, Fates
        <3>3. ~Untouched
            BY <3>1 DEF Untouched
        <3>4. Stages' /\ Reasons'
            BY <1>2, <3>1, <3>3 DEF ServerInv, Stages, Reasons, Running
        <3>5. QED
            BY <3>2, <3>4 DEF ServerInv
    <2>10. QED
        BY <1>2, <2>1, <2>2, <2>3, <2>4, <2>5, <2>6, <2>7, <2>8, <2>9 DEF Next, Main, Watch, Clients
<1>3. QED
    BY <1>1, <1>2

-----------------------------------------------------------------------------
(* The theorems                                                            *)

\* Every variable of the process keeps its type: in particular sigCh never
\* holds more than the one signal it has room for.
THEOREM ServerTypeCorrect == Spec => []ServerTypeOK
<1>1. ServerInv => ServerTypeOK
    BY DEF ServerInv
<1>2. QED
    BY <1>1, ServerInvInductive, PTL DEF Spec

\* A process that ends with status 0 was told to stop, and one that ends with
\* status 1 has never served or its listener has failed, in whatever order the
\* startup, the signals, Shutdown, Accept and ListenAndServe come.
THEOREM ServerExitStatusTells == Spec => []ExitStatusTells
<1>1. ServerInv => ExitStatusTells
    BY DEF ServerInv, Stages, Reasons, ExitStatusTells, Untouched
<1>2. QED
    BY <1>1, ServerInvInductive, PTL DEF Spec

\* The process is either in the startup or leaves what that built alone.
LEMMA StartupInvInProcess ==
    /\ Init => StartupInv
    /\ StartupInv /\ [Next]_vars => StartupInv'
<1>1. Init => StartupInv
    BY StartupInvHolds DEF Init
<1>2. ASSUME StartupInv, [Next]_vars PROVE StartupInv'
    <2>1. [StartupNext]_startupVars
        BY <1>2 DEF Next, Main, Watch, Clients, vars, BuildHandler, HandlerBuilt, BuildFails, CheckFlag, Listen,
                    BindFails, AcceptFails, ServeFails, ServerError, ServerClosed, Notify, TakeSignal, Shutdown, ShutdownReturns, Signal, SignalKills,
                    Arrive, Answer, Exit
    <2>2. QED
        BY <1>2, <2>1, StartupInvKept
<1>3. QED
    BY <1>1, <1>2

\* A server that serves through a pool has the proxies of the file, each of them
\* once and in order, or the one proxy that was said first, and the client of
\* the first can be built: what modules ProxyPool and Gateway assume of their
\* constants.
THEOREM ServerPoolIsUsable == Spec => []PoolIsUsable
BY StartupInvInProcess, ServingIsUsable, PTL DEF Spec

\* Whatever the environment, .env and the pool file hold, a proxy or a pool file
\* in the settings the code reads is never dropped for a direct connection.
THEOREM ServerProxySettingsAreUsed == Spec => []ProxySettingsAreUsed
BY StartupInvInProcess, ServingIsNotDirect, PTL DEF Spec
=============================================================================
