--------------------------- MODULE MCSerialShell ---------------------------
(* Instances of SerialShell for TLC: commands that write nothing, a line   *)
(* that matches, or one that does not and one that does; banners that the  *)
(* pattern of the prompt overlooks, or may take for one.                   *)
EXTENDS SerialShell

MCOutputs == {<<"miss">>, <<"hit", "eol">>}
MCBanners == {<<>>, <<"angle", "hash", "eol">>}
=============================================================================
