---------------------------- MODULE MCDedicated ----------------------------
(***************************************************************************)
(* A dedicated VM for TLC, with a few ways of configuring redis.           *)
(***************************************************************************)
EXTENDS Dedicated

MCAtoi == (<<"0">> :> 0) @@ (<<"6379">> :> 6379) @@ (<<"7000">> :> 7000)

PLAIN == Param(<<"port">>, <<"6379">>)
NOPLAIN == Param(<<"port">>, <<"0">>)
TLS == Param(<<"tls-port">>, <<"7000">>)
AOF == Param(<<"appendonly">>, <<"yes">>)
PASS(p) == Param(<<"requirepass">>, <<p>>)
RENAMED == Param(<<"rename-command">>, <<"config", SP, QUOTE, "x", QUOTE>>)

\* As deployed; without appendonly in the default; with TLS only
MCDeployments ==
  {[live |-> <<PLAIN, AOF, PASS("p"), RENAMED>>, default |-> <<PLAIN, AOF, PASS("d")>>,
    script |-> "none"],
   [live |-> <<PLAIN, PASS("p")>>, default |-> <<PLAIN, PASS("d")>>,
    script |-> "busy"],
   [live |-> <<PLAIN, AOF, PASS("p")>>, default |-> <<NOPLAIN, TLS, AOF, PASS("d")>>,
    script |-> "stuck"]}
=============================================================================
