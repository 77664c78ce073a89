--------------------------- MODULE MCNewsPipeline ---------------------------
(***************************************************************************)
(* A small instance of NewsPipeline: two of the articles are one story     *)
(* under two urls.                                                         *)
(***************************************************************************)
EXTENDS NewsPipeline

CONSTANTS a1, a2, a3

Headlines == [a \in Article |-> IF a = a3 THEN "other" ELSE "story"]
=============================================================================
