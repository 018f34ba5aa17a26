----------------------------- MODULE PixelBoard -----------------------------
(***************************************************************************)
(* src/pixel_board.c: a board of pixels that keeps its scores up to date   *)
(* while it is painted.  score stands for red_score, blue_score and        *)
(* empty_count.                                                            *)
(***************************************************************************)
EXTENDS Integers, FiniteSets

Teams == {"red", "blue"}
Cells(w, h) == (0 .. w - 1) \X (0 .. h - 1)

new_PixelBoard(w, h) ==
    [width |-> w, height |-> h, sequence |-> 0,
     pixels |-> [c \in Cells(w, h) |-> "empty"],
     score |-> [t \in Teams \cup {"empty"} |-> IF t = "empty" THEN w * h ELSE 0]]

PixelBoard_clear(b) ==
    [new_PixelBoard(b.width, b.height) EXCEPT !.sequence = b.sequence + 1]

PixelBoard_paint(b, c, team) ==
    IF b.pixels[c] = team THEN b
    ELSE [b EXCEPT !.pixels[c] = team, !.sequence = @ + 1,
                   !.score[b.pixels[c]] = @ - 1, !.score[team] = @ + 1]

\* The scores are the numbers of pixels of each kind.
ScoresCount(b) ==
    \A t \in DOMAIN b.score :
        b.score[t] = Cardinality({c \in DOMAIN b.pixels : b.pixels[c] = t})
=============================================================================
