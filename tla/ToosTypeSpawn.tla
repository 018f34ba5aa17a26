---------------------------- MODULE ToosTypeSpawn ----------------------------
(***************************************************************************)
(* src/toos_type_spawn.c and src/toos_type_sentence.c: the deck of a       *)
(* typing game.  A sample of the enabled sentences is grouped by           *)
(* difficulty, one for each phase; each difficulty is dealt in epochs,     *)
(* every epoch a shuffle of its group.  The random numbers are a function  *)
(* of the profile's seed: rng gives them, so every deck of a server is     *)
(* drawn from the same ones.                                               *)
(***************************************************************************)
EXTENDS ToosTypeRoom, SequencesExt

CONSTANTS
    Rows,           \* toos_type_sentences of a language, ORDER BY id: [id, diff, valid]
    PoolMax,        \* TOOS_TYPE_MAX_POOL_SIZE
    MaxEpochs       \* bound: epochs of a difficulty

ASSUME SpawnConstants == {PoolMax, MaxEpochs} \subseteq Nat \ {0}

NoDeck == [loaded |-> FALSE, group |-> [d \in Phases |-> <<>>],
           sequence |-> [d \in Phases |-> <<>>]]

\* toos_type_sentence_visit_by_difficulty for each difficulty in turn
Visited(rows) ==
    FoldLeft(LAMBDA s, d : s \o SelectSeq(rows, LAMBDA r : r.diff = d), <<>>,
             SetToSortSeq(Phases, <))

\* every row read, read_sentence_row refuses the ones that break its contract
ReadAll(rows) == \A i \in DOMAIN Visited(rows) : Visited(rows)[i].valid

\* pool_collect_callback: row number k enters the sample, at the place drawn for
\* it once the pool is full, or is left out
pool_collect_callback(pool, row, k, draw) ==
    IF Len(pool) < PoolMax THEN Append(pool, row)
    ELSE IF draw % k >= PoolMax THEN pool
    ELSE [pool EXCEPT ![(draw % k) + 1] = row]

Sample(rows, rng) ==
    LET v == Visited(rows)
    IN  FoldLeftDomain(LAMBDA pool, k : pool_collect_callback(pool, v[k], k, rng.row[k]),
                       <<>>, v)

Grouped(rows, rng) == [d \in Phases |-> SelectSeq(Sample(rows, rng), LAMBDA r : r.diff = d)]

Swap(s, i, j) == [s EXCEPT ![i] = s[j], ![j] = s[i]]

\* append_epoch: Fisher-Yates over the indices of group d, from the last one down
append_epoch(deck, d, rng) ==
    LET n == Len(deck.group[d])
        epoch == Len(deck.sequence[d]) \div n + 1
        shuffled == FoldRightDomain(
                        LAMBDA i, s : Swap(s, i, (rng.swap[d][epoch][i] % i) + 1),
                        [i \in 1 .. n |-> i], [i \in 1 .. n |-> i])
    IN  [deck EXCEPT !.sequence[d] = @ \o shuffled]

\* the deck is usable only if every difficulty has a sentence
DeckBuilds(rows, rng) == ReadAll(rows) /\ \A d \in Phases : Grouped(rows, rng)[d] # <<>>

ToosTypeSpawnEngine_build_deck(rows, rng) ==
    FoldSet(LAMBDA d, deck : append_epoch(deck, d, rng),
            [NoDeck EXCEPT !.loaded = TRUE, !.group = Grouped(rows, rng)], Phases)

\* appends whole epochs until place cursor (from 0) exists; at most one is missing,
\* because a cursor moves one place at a time
ToosTypeSpawnEngine_ensure_cursor(deck, d, cursor, rng) ==
    IF cursor < Len(deck.sequence[d]) THEN deck ELSE append_epoch(deck, d, rng)

ToosTypeSpawnEngine_sentence_at(deck, d, cursor) ==
    deck.group[d][deck.sequence[d][cursor + 1]].id
==============================================================================
