---------------------------- MODULE MCEditorText ----------------------------
(* Files in the directory /d and out of it, on disk or not, with characters of
   one, two and four bytes. *)
EXTENDS EditorText

MCDir == <<"/", "d">>
MCInside == {<<"/", "d", "/", "f">>, <<"/", "f">>}
MCRelative == {<<"f">>}

MCDisk == <<"f">> :> <<"a", "nl">>

MCTexts == {<<"four", "nl", "two">>, <<"a", "nl">>}
MCInserted == {<<>>, <<"two", "nl">>}
=============================================================================
