------------------------------- MODULE MCUnits -------------------------------
(***************************************************************************)
(* Small instances of the components of Units.                             *)
(***************************************************************************)
EXTENDS Units, TLC

CONSTANTS r1, r2, r3, r4, r5

MCKeyOf == r1 :> "a" @@ r2 :> "a" @@ r3 :> "b" @@ r4 :> "c" @@ r5 :> "d"
MCHash == [a |-> 1, b |-> 1, c |-> 4, d |-> 2]
MCGetPrime == [n \in 0 .. 12 |-> IF n <= 3 THEN 3 ELSE IF n <= 7 THEN 7 ELSE IF n <= 11 THEN 11 ELSE 17]
MCPathOf == r1 :> <<"a">> @@ r2 :> <<"a", "b">> @@ r3 :> <<"a", "b", "c">>
            @@ r4 :> <<"a", "b">> @@ r5 :> <<"a", "">>
MCOrders == << << <<"a", "b">>, <<"a">>, <<"a", "">>, <<"a", "b", "c">> >>,
               << <<"a">>, <<"a", "b", "c">>, <<"a", "b">>, <<"a", "">> >> >>
MCLimits == <<3, 7>>

\* The last three sizes overflow: in the product, in the sum, past a LONG.
MCSizes == {<<2, 1, 2>>, <<2, 0, 1>>, <<4, 0, 1>>, <<9, 0, 2>>, <<4, 14, 1>>, <<6, 0, 1>>}

\* Names that differ in case only or end alike, a value that looks like another
\* variable, and a name that is the module's.
Variables == {[name |-> <<"path">>, value |-> <<"a">>],
              [name |-> <<"PATH">>, value |-> <<"%PORT%", "%PORT%">>],
              [name |-> <<"MY", "PATH">>, value |-> <<"b">>],
              [name |-> <<"URLS">>, value |-> <<"%DEBUG_PORT%">>],
              [name |-> <<"URLS">>, value |-> <<"PATH", "=", "a">>],
              [name |-> <<"PORT">>, value |-> <<"a">>]}
\* Every pair of them, and the three with nearly one name in every order.
MCCollections ==
    UNION {[1 .. n -> Variables] : n \in 0 .. 2}
    \cup {f \in [1 .. 3 -> {v \in Variables : towupper[v.name[Len(v.name)]] = "PATH"}] :
            \A i, j \in 1 .. 3 : i # j => f[i] # f[j]}
MCArguments == {<<"x">>, <<"%PORT%", "%DEBUG_PORT%">>}
Site == <<"MACHINE", "/", "WEBROOT", "/", "APPHOST", "/", "site">>
MCAppConfigPaths == {Site, Site \o <<"/", "app">>}
MCInherited == << <<"OS", "=", "w">>, <<"PATH", "=", "system">>,
                  <<"DEBUG_PORT", "=", "w">> >>
MCtowupper == [x \in {"path", "PATH", "MY", "URLS", "PORT", "OS", "DEBUG_PORT"} |-> IF x = "path" THEN "PATH" ELSE x]

ResponseLines ==
    {Malformed} \cup {[name |-> n, value |-> v] : n \in {"Vary", "Set-Cookie"}, v \in {"a", "b"}}
    \cup {[name |-> "Transfer-Encoding", value |-> v] : v \in {"chunked", "gzip"}}
    \cup {[name |-> n, value |-> "5"] : n \in {"X-Own", "Content-Length", "Server", "Connection"}}
MCResponses == {[status |-> s, lines |-> l] : s \in {101, 200, Malformed},
                                              l \in UNION {[1 .. n -> ResponseLines] : n \in 0 .. 3}}

RequestLines == {[name |-> n, value |-> <<"x">>] :
                    n \in Reserved \cup {"X-Forwarded-For", "X-Forwarded-Proto", "Connection", "Accept"}}
\* IIS joins the lines of one name; Accept stands for those it does not join.
MCRequests == {l \in UNION {[1 .. n -> RequestLines] : n \in 0 .. 2} :
                  \A i, j \in DOMAIN l : i # j => l[i].name # l[j].name \/ l[i].name = "Accept"}
MCUsers == {[type |-> "negotiate", token |-> "h"], [type |-> "ntlm", token |-> Null],
            [type |-> "basic", token |-> "h"]}

MCFunctions == <<"CompleteUpgrade", "QueryCloseStatus", "Receive", "Send", "Shutdown">>

Symmetry == Permutations(Threads)
==============================================================================
