------------------------------- MODULE Routing -------------------------------
(***************************************************************************)
(* path_validator.c and router.c: how the path of a request is brought     *)
(* into canonical form, and which route it is dispatched to.               *)
(*                                                                         *)
(* A path is a sequence of symbols, one for each character; a percent      *)
(* escape is one symbol, "%a", and bytes above 0x7F are named by the class *)
(* the UTF-8 rule tells apart.  Routes are registered first; then a path   *)
(* arrives symbol by symbol.                                               *)
(***************************************************************************)
EXTENDS Integers, Sequences, SequencesExt

CONSTANTS Routes,            \* what may be registered: [method, path]
          PathKinds,         \* what a path is made of, how long it is, and how many routes
                             \* there may be: [symbols, max, routes]
          MAX_SEGMENTS, MAX_SEGMENT_LEN,
          SplitMax           \* segments split_segments keeps (32)

VARIABLES routes, pathKind, path
routeVars == <<routes, pathKind, path>>

Methods == {"GET", "POST", "HEAD"}
LeadBytes == {"C2", "E0", "ED", "F0", "F4"}
ContBytes == {"80", "90", "A0"}

(***************************************************************************)
(* path_validator.c                                                        *)
(***************************************************************************)
Encoded == [c \in {"%a", "%.", "%/"} |-> IF c = "%a" THEN "a" ELSE IF c = "%." THEN "." ELSE "/"]
Decoded(c) == IF c \in DOMAIN Encoded THEN Encoded[c] ELSE c

\* Refused: a broken or a control escape, an encoded slash, the reserved characters
Refused(c) == c \in {"%bad", "%00", "%/", "?", "&", " "}

\* The first i symbols are sequences of UTF-8: the rule looks at one lead byte at a time
RECURSIVE rule_02_check_utf8(_)
rule_02_check_utf8(s) ==
    LET n == IF s = <<>> THEN 0 ELSE
             CASE s[1] = "C2" -> 2 [] s[1] \in {"E0", "ED"} -> 3 [] s[1] \in {"F0", "F4"} -> 4
               [] s[1] \in ContBytes -> 0 [] OTHER -> 1
    IN \/ s = <<>>
       \/ /\ n > 0 /\ n <= Len(s)
          /\ \A k \in 2..n : s[k] \in ContBytes
          /\ <<s[1], IF n > 1 THEN s[2] ELSE "">> \notin
                {<<"E0", "80">>, <<"E0", "90">>, <<"ED", "A0">>, <<"F0", "80">>,
                 <<"F4", "90">>, <<"F4", "A0">>}
          /\ rule_02_check_utf8(SubSeq(s, n + 1, Len(s)))

Started == [ok |-> TRUE, out |-> <<>>, segs |-> 0, len |-> 0]
EndsWith(s, t) == IsSuffix(t, s)

\* The end of a segment: "." is taken back, ".." refused, any other segment counted
CloseDotsKept(v) ==                                        \* mutant: "." is a segment
    CASE v.len = 2 /\ EndsWith(v.out, <<".", ".">>) -> [v EXCEPT !.ok = FALSE]
      [] v.len > 0 -> [v EXCEPT !.segs = @ + 1, !.ok = @ /\ v.segs < MAX_SEGMENTS]
      [] OTHER -> v

CloseSegment(v) ==
    CASE v.len = 1 /\ EndsWith(v.out, <<".">>) -> [v EXCEPT !.out = Front(@)]
      [] v.len = 2 /\ EndsWith(v.out, <<".", ".">>) -> [v EXCEPT !.ok = FALSE]
      [] v.len > 0 -> [v EXCEPT !.segs = @ + 1, !.ok = @ /\ v.segs < MAX_SEGMENTS]
      [] OTHER -> v

Symbol(v, c) ==
    LET d == Decoded(c)
        closed == CloseSegment(v)
    IN CASE ~v.ok \/ Refused(c) -> [v EXCEPT !.ok = FALSE]
         [] d = "/" /\ EndsWith(closed.out, <<"/">>) -> [closed EXCEPT !.len = 0]
         [] d = "/" -> [closed EXCEPT !.out = Append(@, "/"), !.len = 0]
         [] OTHER -> [v EXCEPT !.out = Append(@, d), !.len = @ + 1, !.ok = v.len < MAX_SEGMENT_LEN]

\* [ok, out]: the canonical path, without a trailing slash unless it is the root
PathValidator_validate(raw) ==
    LET v == CloseSegment(FoldLeft(Symbol, Started, raw))
        out == IF Len(v.out) > 1 /\ EndsWith(v.out, <<"/">>) THEN Front(v.out) ELSE v.out
    IN [ok |-> /\ raw # <<>> /\ IsPrefix(<<"/">>, raw) /\ v.ok
               /\ rule_02_check_utf8(out),
        out |-> out]

(***************************************************************************)
(* router.c                                                                *)
(***************************************************************************)
split_segments(p) ==
    LET Cut(segs, c) == CASE c = "/" -> Append(segs, <<>>)
                          [] segs = <<>> -> <<<<c>>>>
                          [] OTHER -> Append(Front(segs), Append(Last(segs), c))
        all == SelectSeq(FoldLeft(Cut, <<>>, p), LAMBDA s : s # <<>>)
    IN SubSeq(all, 1, IF Len(all) < SplitMax THEN Len(all) ELSE SplitMax)

IsParam(seg) == seg[1] = ":"

route_match(route_path, req_path, is_param_pass) ==
    LET r == split_segments(route_path)
        q == split_segments(req_path)
    IN /\ Len(r) = Len(q)
       /\ \A i \in DOMAIN r : \/ is_param_pass /\ IsParam(r[i])
                              \/ ~IsParam(r[i]) /\ r[i] = q[i]

\* The parameters a match of the second pass puts into req->params; a name used twice
\* keeps its last value
params(route_path, req_path) ==
    LET r == split_segments(route_path)
        q == split_segments(req_path)
        at == {i \in DOMAIN r : IsParam(r[i])}
    IN {<<r[i], q[i]>> : i \in {i \in at : \A j \in at : r[j] = r[i] => j <= i}}

\* The first route in the order of registration, 0 if none matches
First(req_path, methods, is_param_pass) ==
    SelectInSeq(routes, LAMBDA r : r.method \in methods /\ route_match(r.path, req_path, is_param_pass))

Earliest(tries) ==
    IF \E i \in DOMAIN tries : tries[i] # 0
    THEN tries[SelectInSeq(tries, LAMBDA t : t # 0)] ELSE 0

find_route_head_helper(req_path) ==
    Earliest(<<First(req_path, {"HEAD"}, FALSE), First(req_path, {"UNKNOWN"}, FALSE),
               First(req_path, {"GET"}, FALSE), First(req_path, {"HEAD"}, TRUE),
               First(req_path, {"UNKNOWN"}, TRUE), First(req_path, {"GET"}, TRUE)>>)

find_route(method, req_path) ==
    Earliest(<<First(req_path, {method, "UNKNOWN"}, FALSE), First(req_path, {method, "UNKNOWN"}, TRUE)>>)

\* The status, and for 200 the route whose handler runs and what it finds in params: only
\* the second pass writes them
impl_dispatch(method, raw) ==
    LET v == PathValidator_validate(raw)
        i == IF method = "HEAD" THEN find_route_head_helper(v.out) ELSE find_route(method, v.out)
    IN CASE ~v.ok -> [status |-> 400]
         [] v.ok /\ i = 0 -> [status |-> 404]
         [] OTHER -> [status |-> 200, route |-> i, params |-> params(routes[i].path, v.out)]

RouteInit == routes = <<>> /\ path = <<>> /\ pathKind \in PathKinds

impl_addRoute ==
    /\ path = <<>> /\ Len(routes) < pathKind.routes
    /\ \E r \in Routes : routes' = Append(routes, r)
    /\ UNCHANGED <<path, pathKind>>

Arrives ==
    /\ Len(path) < pathKind.max
    /\ path = <<>> \/ FoldLeft(Symbol, Started, path).ok
    /\ \E c \in IF path = <<>> THEN {"/", "a"} ELSE pathKind.symbols : path' = Append(path, c)
    /\ UNCHANGED <<routes, pathKind>>

RouteNext == impl_addRoute \/ Arrives

(***************************************************************************)
(* Properties.                                                             *)
(***************************************************************************)
\* The reference: cut the path at its slashes, decode each piece, drop the empty pieces
\* and the single dots.
Pieces ==
    LET cuts == {0} \cup {i \in DOMAIN path : path[i] = "/"} \cup {Len(path) + 1}
        Ends(i) == CHOOSE j \in cuts : j > i /\ \A k \in cuts : k > i => j <= k
        starts == SetToSortSeq(cuts \ {Len(path) + 1}, <)
        Piece(i) == [k \in 1..Ends(i) - i - 1 |-> Decoded(path[i + k])]
    IN SelectSeq([n \in DOMAIN starts |-> Piece(starts[n])], LAMBDA p : p \notin {<<>>, <<".">>})

\* Well-formed UTF-8 by the ranges of its second byte
Legal(s) == LET Seconds == [C2 |-> {"80", "90", "A0"}, E0 |-> {"A0"}, ED |-> {"80", "90"},
                            F0 |-> {"90", "A0"}, F4 |-> {"80"}]
                Size == [C2 |-> 2, E0 |-> 3, ED |-> 3, F0 |-> 4, F4 |-> 4]
                Starts == {i \in DOMAIN s : s[i] \in LeadBytes}
            IN /\ \A i \in Starts : /\ i + Size[s[i]] - 1 <= Len(s)
                                    /\ s[i + 1] \in Seconds[s[i]]
                                    /\ \A k \in 1..Size[s[i]] - 1 : s[i + k] \in ContBytes
               /\ \A i \in DOMAIN s : s[i] \in ContBytes =>
                     \E j \in Starts : j < i /\ i < j + Size[s[j]]

Served(pieces) ==
    /\ path # <<>> /\ path[1] = "/"
    /\ \A i \in DOMAIN path : ~Refused(path[i])
    /\ \A i \in DOMAIN pieces : /\ pieces[i] # <<".", ".">> /\ Len(pieces[i]) <= MAX_SEGMENT_LEN
                                /\ Legal(pieces[i])
    /\ Len(pieces) <= MAX_SEGMENTS

\* A path is accepted exactly if every piece of it is, and its canonical form is its
\* pieces: no encoded slash, no escape, empty piece, dot or trailing slash gets through.
CanonicalPath(v, pieces) ==
    /\ v.ok <=> Served(pieces)
    /\ v.ok => /\ split_segments(v.out) = pieces
               /\ v.out = IF pieces = <<>> THEN <<"/">>
                          ELSE FlattenSeq([i \in DOMAIN pieces |-> <<"/">> \o pieces[i]])

\* The priority of route r for a request: lower wins, 9 never matches
Rank(r, method, pieces) ==
    LET segs == split_segments(r.path)
        fits == /\ Len(segs) = Len(pieces)
                /\ \A i \in DOMAIN segs : IsParam(segs[i]) \/ segs[i] = pieces[i]
        dynamic == IF \E i \in DOMAIN segs : IsParam(segs[i]) THEN 3 ELSE 0
    IN CASE ~fits -> 9
         [] method = "HEAD" /\ r.method = "HEAD" -> dynamic
         [] method = "HEAD" /\ r.method = "UNKNOWN" -> dynamic + 1
         [] method = "HEAD" /\ r.method = "GET" -> dynamic + 2
         [] method # "HEAD" /\ r.method \in {method, "UNKNOWN"} -> dynamic
         [] OTHER -> 9

\* The answer d to a request that is served: the route of best rank, and its parameters
Best(d, rank, pieces) ==
    IF \A i \in DOMAIN routes : rank[i] = 9 THEN d.status = 404
    ELSE /\ d.status = 200 /\ rank[d.route] < 9
         /\ \A i \in DOMAIN routes : \/ rank[d.route] < rank[i]
                                     \/ rank[d.route] = rank[i] /\ d.route <= i
         /\ \A p \in d.params : \E i \in DOMAIN pieces :
               p = <<split_segments(routes[d.route].path)[i], pieces[i]>>

\* A served request reaches the handler of best rank, static routes before dynamic ones
\* and, for HEAD, explicit ones before the fallback to GET, then the order of
\* registration; its parameters are the pieces of this path.  404 means no route fits.
RoutedRight(pieces) ==
    Served(pieces) => \A method \in Methods :
        Best(impl_dispatch(method, path),
             [i \in DOMAIN routes |-> Rank(routes[i], method, pieces)], pieces)

\* A request is refused, or served under its canonical path by the route that fits best.
PathsRouted ==
    path # <<>> => CanonicalPath(PathValidator_validate(path), Pieces) /\ RoutedRight(Pieces)
=============================================================================
