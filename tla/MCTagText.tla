------------------------------- MODULE MCTagText --------------------------------
(* TagText on short texts of any pieces and on longer ones of tags. *)
EXTENDS TagText

MCTokens == (1 :> <<"r">>) @@ (2 :> <<"s", "r">>)

Opening(id) == <<"<">> \o MCTokens[id] \o <<">">>
Closing(id) == <<"<", "/">> \o MCTokens[id] \o <<">">>

TagPieces == {Opening(1), Opening(2), Closing(1), Closing(2), <<"x">>}
Pieces == TagPieces \cup {<<"<">>, <<"<", "x", ">">>}

MCTexts ==
  {FlattenSeq(s) : s \in UNION ({[1..n -> Pieces] : n \in 0..5} \cup {[1..n -> TagPieces] : n \in 6..7})}
================================================================================
