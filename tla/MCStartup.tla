----------------------------- MODULE MCStartup -----------------------------
(* Instances of Startup for TLC: instance m, a controller in every setting,  *)
(* and the server w, of whose addresses the controller network has one.      *)
EXTENDS Startup

CONSTANTS m, w

MCTexts == STRING

NothingSet == [mode |-> "", admin |-> Unset, network |-> "", envFile |-> "", sockets |-> <<>>,
               certs |-> <<>>, apis |-> <<>>, docker |-> NoVariables]
DefaultFlags == [mode |-> "standalone", network |-> "", envFile |-> "", sockets |-> <<>>,
                 certs |-> <<>>, apis |-> <<>>]

With(e) == [env |-> e, flags |-> DefaultFlags]
NetFlag == [DefaultFlags EXCEPT !.network = "net"]

\* How a controller finds Docker.
MCEnvFiles == "file" :> [host |-> "s1", cert |-> "c2", api |-> "v1"]
EnvFile == [NothingSet EXCEPT !.envFile = "file", !.docker.api = "v2"]
TwoSockets == [NothingSet EXCEPT !.envFile = "file", !.sockets = <<"s1", "s2">>, !.certs = <<"c1">>, !.apis = <<"", "v2">>]

MCSettings ==
  m :> {With(EnvFile), With(TwoSockets),
        With([EnvFile EXCEPT !.admin = <<"", "any">>]),
        [env |-> EnvFile, flags |-> NetFlag],
        [env |-> [EnvFile EXCEPT !.mode = "controller"], flags |-> NetFlag],
        With([EnvFile EXCEPT !.mode = "any", !.network = "malformed"])}
  @@ w :> {With([NothingSet EXCEPT !.mode = "server", !.network = "net"]),
           With([NothingSet EXCEPT !.mode = "server", !.admin = Wildcard])}

MCInterfaces == m :> <<"m1">> @@ w :> <<"w0", "w1">>
MCAdmins == {Off, Wildcard}
MCNetworks == "net" :> {"m1", "w1"}

\* Two labels for one index, an empty URL and one that does not parse.
MCRemoteLabels ==
  m :> {[index |-> 1, url |-> "bad"], [index |-> 1, url |-> "r1"], [index |-> 2, url |-> ""],
        [index |-> 3, url |-> "r3"]}
  @@ w :> {}

\* What ConfiguredStaysReachable needs.
ASSUME AdminsAnywhere
=============================================================================
