---------------------------- MODULE MCCaddyfile ----------------------------
(* Instances of Caddyfile for TLC.                                           *)
EXTENDS Caddyfile

MCAlphabet == <<"\n", " ", "\"", "#", "(", ")", "*", "/", "@", "\\", Backtick, "a", "b", "c", "d",
                "e", "g", "h", "i", "k", "m", "p", "r", "s", "t", "w", "x", "z", "{", "}">>

\* Segments of labels: plain, with a prefix, with a suffix.
Seg(name) == [prefix |-> <<>>, name |-> name, suffix |-> <<>>]
First(n, name) == [prefix |-> <<n>>, name |-> name, suffix |-> <<>>]
Nth(name, n) == [prefix |-> <<>>, name |-> name, suffix |-> <<n>>]

Caddy == Seg(<<"k">>)
Caddy0 == Nth(<<"k">>, 0)
Caddy1 == Nth(<<"k">>, 1)
Proxy == Seg(<<"r", "p">>)
Match == Seg(<<"@", "m">>)
Dir == Seg(<<"d">>)

\* Site a with a named matcher, a proxy for it and the upstreams of the object.
Matched == <<Caddy>> :> <<"a">>
        @@ <<Caddy, Match, Seg(<<"p">>)>> :> <<"/", "x">>
        @@ <<Caddy, Proxy>> :> <<"@", "m", " ", "{{upstreams}}">>
\* The same site with another upstream for that matcher, an option of the proxy,
\* and arguments with a space, a quote and a line break.
MatchedToo == <<Caddy>> :> <<"a">>
           @@ <<Caddy, Proxy>> :> <<"@", "m", " ", "x">>
           @@ <<Caddy, Proxy, Seg(<<"h">>)>> :> <<"b", " ", "\"", "a", " ", "b", "\"">>
           @@ <<Caddy, Dir>> :> <<Backtick, "a", "\"", "b", Backtick, " ", Backtick, "\n", Backtick, " ", "z">>
\* A proxy for everything.
All == <<Caddy>> :> <<"a">> @@ <<Caddy, Proxy>> :> <<"x">>
\* A global option; two isolated sites, the second of which imports a snippet.
Global == <<Caddy, Seg(<<"e">>)>> :> <<"x", "\\", "x">>
       @@ <<Caddy0>> :> <<"(", "s", ")">> @@ <<Caddy0, Dir>> :> <<"t">>
       @@ <<Caddy1>> :> <<"c">> @@ <<Caddy1, Seg(<<"i">>)>> :> <<"s">>
\* Ordered and isolated directives without a label of their own.
Ordered == <<Caddy>> :> <<"b">>
        @@ <<Caddy, First(2, <<"h">>), Dir>> :> <<>>
        @@ <<Caddy, First(1, <<"h">>), Dir>> :> <<"\"", "\\", "\"", "x", "\"">>
\* What the adapter refuses, and what cannot be evaluated.
Bad == <<Caddy>> :> <<"b">> @@ <<Caddy, Dir>> :> <<"g">>
BadGlobal == <<Caddy, Seg(<<"g">>)>> :> <<>>
Broken == <<Caddy>> :> <<"a">> @@ <<Caddy, Dir>> :> <<"failing">>

LabelMaps == {Matched, MatchedToo, All, Global, Ordered, Bad, BadGlobal, Broken}
MCDockers == {<<l, l1>> : l, l1 \in LabelMaps} \cup {<<BadGlobal, Bad, Matched>>}

\* A site that imports a snippet which comes later, and comments; a closing brace
\* too many.
Whole == <<"a", " ", "{", "\n", " ", "r", "p", " ", "w", "\n", "}", " ", "#", "x", "{", "\n",
           "t", "{", "\n", "i", " ", "h", "\n", "}", "\n",
           "#", "}", "\n", "(", "h", ")", " ", "{", "\n", "d", " ", "\\", "\n", "b", "\n", "}", "\n">>
TooMany == <<"a", " ", "{", "\n", "}", "\n", "}">>

MCTargets == {<<"w">>, <<"c">>}
MCFailing == <<"failing">>
MCRefused == {<<"g">>}
MCFiles == {<<>>, Whole, TooMany}
=============================================================================
