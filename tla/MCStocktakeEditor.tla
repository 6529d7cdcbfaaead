------------------------- MODULE MCStocktakeEditor -------------------------
(* StocktakeEditor with few counts, edits and revisions.                    *)
EXTENDS StocktakeEditor, TLC
=============================================================================
