------------------------- MODULE MCMessageFraming -------------------------
(* The bodies of the run: none, a letter, a URL alone, behind a letter,    *)
(* half a URL; complete and incomplete gzip bodies.                        *)
EXTENDS MessageFraming

MCBodies == {<<>>, <<"x">>, <<"u", "v">>, <<"x", "u", "v">>, <<"v", "u">>}
MCZipBodies == {<<"zxu", "zv", "eos">>, <<"zxu", "zv">>, <<>>}
=============================================================================
