------------------------------ MODULE MCServer ------------------------------
(***************************************************************************)
(* One text of each kind that LoadProxyPool and newTransport tell apart.   *)
(***************************************************************************)
EXTENDS Server, SequencesExt

SomeTexts == {"", "#note", "host:1080", "socks5://a", "HTTP://b", "ftp://c"}
SomeIgnored == {"", "#note"}
SomeParsing == SomeTexts \ {"host:1080"}
SomeHosts == {"socks5://a", "HTTP://b", "ftp://c"}
SomeSchemes ==
    "socks5://a" :> "socks5" @@ "HTTP://b" :> "http" @@ "ftp://c" :> "ftp"
        @@ [t \in SomeTexts |-> ""]
SomeSeparators == {"socks5://a", "HTTP://b", "ftp://c"}

Files == {PoolFile("missing", <<>>), PoolFile(Unreadable, <<>>)}
            \cup {PoolFile("read", lines) : lines \in BoundedSeq(SomeTexts, 2)}

\* Every setting of the process with every file of up to two lines and no .env.
Plain ==
    [given : [proxy : SomeTexts, file : {NoFile, InlineSingleProxy, NamedFile}, pool : {NoFile}],
     dotenv : {<<>>}, contents : Files]

Line(key, value) == [key |-> key, value |-> value]

\* Settings of the process that leave something to .env or shadow it, with the
\* one that is not read and a .env of up to two lines.
Layered ==
    [given : [proxy : {"", " ", "socks5://a"}, file : {NoFile, NamedFile, " "}, pool : {NamedFile}],
     dotenv : BoundedSeq({Line("proxy", ""), Line("proxy", "HTTP://b"), Line("proxy", "ftp://c"),
                          Line("file", NamedFile), Line("pool", NamedFile)}, 2),
     contents : {PoolFile("missing", <<>>), PoolFile("read", <<"#note">>), PoolFile("read", <<"HTTP://b">>)}]

SomeEnvironments == Plain \cup Layered
=============================================================================
