---------------------------- MODULE MCTitleFiles ----------------------------
(* Bounds for TLC: two releases of a title of two discs, which the drive     *)
(* lists as one title.                                                        *)
EXTENDS TitleFiles

MCDiscCount == <<2, 2>>
MCTitleOf == <<"same", "same">>
MCOptions == <<{<<TRUE, TRUE>>, <<FALSE, FALSE>>}, {<<FALSE, TRUE>>}>>
MCPlayed == {<<1, 2>>}
=============================================================================
