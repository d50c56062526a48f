-------------------------- MODULE MCSecretsDelivery --------------------------
(***************************************************************************)
(* Instances of SecretsDelivery: two keys, and values that look like the   *)
(* digest's own text.                                                      *)
(***************************************************************************)
EXTENDS SecretsDelivery

MCNames == <<"A", "B">>
MCEq == "="
MCNewline == "nl"
MCSymbols == {"A", "B", "v", MCEq, MCNewline}

Either == {"directory", "resolved"}
Mounted == {"directory"}

OneLine == {<<>>, <<"v">>, <<"v", "B", "=", "v">>}
SeveralLines == {<<"v">>, <<"v", "nl", "B", "=", "v">>}
=============================================================================
