----------------------------- MODULE MCToosType ------------------------------
(* Instances of ToosTypeGame for TLC. *)
EXTENDS ToosTypeGame

Row(i, d) == [id |-> i, diff |-> d, valid |-> TRUE]

\* more sentences than the pool takes; the ones of KO include a bad row
Sentences ==
    [lang \in Languages |->
        IF lang = "EN" THEN <<Row(1, 1), Row(2, 1), Row(3, 2), Row(4, 2), Row(6, 1)>>
        ELSE <<Row(1, 1), [Row(5, 2) EXCEPT !.valid = FALSE]>>]

\* sentence 3 takes the place of the first one in the sample and 4 is left out, so that
\* difficulty 2 has one sentence; the epochs of difficulty 1 alternate
Seeds ==
    {[row |-> [k \in 1 .. 5 |-> IF k = 4 THEN 0 ELSE 3],
      swap |-> [d \in Phases |-> [e \in 1 .. MaxEpochs |-> [i \in 1 .. 3 |-> e % 2]]]]}

Timeouts == <<2, 1>>
Scores == <<1, 2>>
==============================================================================
