--------------------------- MODULE MCFetchDialogue ---------------------------
(***************************************************************************)
(* Instance of FetchDialogue for TLC.                                      *)
(***************************************************************************)
EXTENDS FetchDialogue

MCNotations ==
    {Name("a", FALSE, 0), Name("a", TRUE, 1), [Name("a", FALSE, 1) EXCEPT !.blank = TRUE],
     Name("b", FALSE, 2), Name(".b", FALSE, 0), Dot, EmptyName}
=============================================================================
