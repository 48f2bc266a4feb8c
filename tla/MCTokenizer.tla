------------------------------ MODULE MCTokenizer -------------------------------
(* Tokenizer on every short text over three sets of characters: one for where words *)
(* begin and end, one for the ends of sentences, one for the signs that come in     *)
(* pairs and for the parts of words.                                                *)
EXTENDS Tokenizer

TextsOver(C, n) == UNION {[1..k -> C] : k \in 0..n}

MCTexts ==
  TextsOver({"a", "d", "0", "b", ",", "-", "%"}, 5)
  \cup TextsOver({"a", "A", ".", "b", ","}, 6)
  \cup TextsOver({"a", "I", "q", "[", "]", "b"}, 5)
  \cup TextsOver({"a", "A", "0", "%", "!"}, 5)
================================================================================
