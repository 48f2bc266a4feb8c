-------------------------------- MODULE MCPredict --------------------------------
(* Predict on short texts: one family of texts for each thing that a word can be. *)
EXTENDS Predict, SequencesExt

Plain == [end |-> 1, kind |-> "plain", press |-> FALSE, stop |-> 0, open |-> FALSE,
          close |-> FALSE, quot |-> 0, isbn |-> FALSE, digits |-> FALSE]

\* The texts of up to n words; as long as it has no place a word's end is its length.
EndOf(t, k) == FoldLeft(+, 0, [i \in 1..k |-> t[i].end])
Placed(t) == [k \in DOMAIN t |-> [t[k] EXCEPT !.end = EndOf(t, k)]]
TextsOf(W, n) == UNION {{Placed(t) : t \in [1..k -> W]} : k \in 0..n}

Neighbours == { Plain, [Plain EXCEPT !.end = 2, !.kind = "ph"],
                [Plain EXCEPT !.kind = "in"], [Plain EXCEPT !.end = 2, !.kind = "paren"] }

Sentences == {[Plain EXCEPT !.press = p, !.stop = n] : p \in BOOLEAN, n \in {0, 2}}
             \cup {[Plain EXCEPT !.stop = 1]}

Brackets == {[Plain EXCEPT !.open = o, !.close = c] : o \in BOOLEAN, c \in BOOLEAN}

Quotations == {[Plain EXCEPT !.quot = n] : n \in 0..2}

Isbns == {[Plain EXCEPT !.isbn = b, !.digits = d] : b \in BOOLEAN, d \in BOOLEAN}

MCTexts == TextsOf(Neighbours, 5) \cup TextsOf(Sentences, 5) \cup TextsOf(Brackets, 5)
           \cup TextsOf(Quotations, 6) \cup TextsOf(Isbns, 4)
================================================================================
