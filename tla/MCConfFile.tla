----------------------------- MODULE MCConfFile -----------------------------
(***************************************************************************)
(* Package redisconf for TLC: every text of up to MaxLength characters, a  *)
(* few whole files, and Set with keys and values of every kind.            *)
(***************************************************************************)
EXTENDS ConfFile

CONSTANT MaxLength

MCAtoi == (<<"0">> :> 0) @@ (<<"00">> :> 0) @@ (<<"6379">> :> 6379) @@ (<<"7000">> :> 7000)

Lines == {<<"port", SP, "0", NL>>, <<"port", SP, "00", NL>>,
          <<"port", SP, "7000", CR, NL>>,
          <<"tls-port", SP, "7000", NL>>, <<"tls-port", SP, NL>>,
          <<"rename-command", SP, "CONFIG", SP, QUOTE, "x", QUOTE, NL>>,
          <<"rename-command", SP, "CONFIG", SP, QUOTE, QUOTE, NL>>,
          <<"rename-command", SP, "CONFIG", NL>>,
          <<HASH, "port", SP, "0", NL>>}

MCTexts == UNION {[1 .. n -> {"k", SP, TAB, HASH, NL, CR}] : n \in 0 .. MaxLength}
             \cup {a \o b : a, b \in Lines}

MCKeys == {<<"k">>, <<"port">>, <<"tls-port">>, <<TAB, "k">>, <<"k", SP, "k">>}

MCValues == {<<>>, <<"0">>, <<"6379">>, <<"6379", NL>>, <<"6379", CR, NL>>,
             <<"k", CR>>, <<NL, "k">>}
=============================================================================
