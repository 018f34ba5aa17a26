-------------------------------- MODULE MCWeb --------------------------------
(***************************************************************************)
(* The applications behind the HTTP server (the web board and the pixel    *)
(* rooms) and what they stand on: the reader of requests, paths and        *)
(* routes, forms, JSON, the codec of SNMP and the containers.  They share  *)
(* no state: a behaviour is one of a single part, chosen in the initial    *)
(* state.  The board is followed up to the first query that is misread:    *)
(* after it the properties about files say nothing.                        *)
(***************************************************************************)
EXTENDS Board, GameRoomHandler, HttpRequestReader, Routing, Multipart, Json, Asn1, Collections

VARIABLE part

vars == <<part, boardVars, roomVars, readVars, routeVars, parts, jsonVars, asn1Vars, collVars>>

TwoSizes == {<<2, 1>>, <<1, 1>>}
Wide == <<2, 1>>

MCRequests ==
    {<<"GET", "end">>, <<"POST", "length:2", "end", "GET", "end">>,
     <<"POST", "length:1", "close", "end", "x">>, <<"POST", "length:1", "length:2", "end", "x">>,
     <<"line:long", "end">>, <<"GET", "name:bad", "end">>, <<"POST", "length:big", "end">>,
     <<"GET", "upgrade", "end">>, <<"text", "2", "x", "y">>, <<"ping", "0">>, <<"close", "0">>}

MCRoutes == {[method |-> "GET", path |-> <<"/", "a">>], [method |-> "GET", path |-> <<"/", ":", "p">>],
  [method |-> "UNKNOWN", path |-> <<"/", "a", "/", ":", "p">>], [method |-> "HEAD", path |-> <<"/", ":", "q">>],
  [method |-> "POST", path |-> <<"/", ":", "p", "/", ":", "p">>], [method |-> "UNKNOWN", path |-> <<"/">>]}
MCPathKinds == {[symbols |-> {"/", ".", "a", "b", "%a"}, max |-> 4, routes |-> 2],
 [symbols |-> {"/", ".", "a", "%a", "%.", "%/", "?"}, max |-> 6, routes |-> 0],
 [symbols |-> {"/", "C2", "E0", "ED", "F0", "F4", "80", "90", "A0"}, max |-> 5, routes |-> 0]}

MCKinds ==
    {[symbols |-> {"{", "}", "[", "]", ":", "\""}, max |-> 7],
     [symbols |-> {"{", "}", ",", ":", "\"", "short"}, max |-> 7],
     [symbols |-> {"\"", "\\", "a", "uHI", "uLO", "uBMP"}, max |-> 6],
     [symbols |-> {"\"", "\\", "a", "n", "nl", "ctl", "uNUL"}, max |-> 6],
     [symbols |-> {"\"", "C2", "E0", "ED", "80", "90", "A0"}, max |-> 6],
     [symbols |-> {"\"", "F0", "F4", "80", "90", "A0"}, max |-> 6],
     [symbols |-> {"[", "]", ",", "nl", "true", "a"} \cup Numbers, max |-> 5]}

MCHash(k) == CASE k = "k1" -> 1 [] k = "k2" -> 4 [] OTHER -> 8

(* The parts that stand still are in one initial state.                    *)
Init ==
    /\ part \in {"board", "rooms", "reader", "router", "form", "json", "asn1", "collections"}
    /\ BoardInit /\ (part = "board" \/ (backend = "PGSQL" /\ db.skin = None))
    /\ RoomInit
    /\ IF part = "reader" THEN ReadInit ELSE ReadInit /\ sent = <<<<"GET", "end">>>> /\ polite
    /\ RouteInit /\ (part = "router" \/ pathKind.max = 5)
    /\ FormInit
    /\ JsonInit /\ (part = "json" \/ kind.max = 5)
    /\ Asn1Init
    /\ CollInit /\ (part = "collections" \/ form = "ArrayList")

Next ==
    \/ /\ part = "board" /\ BoardNext
       /\ UNCHANGED <<part, roomVars, readVars, routeVars, parts, jsonVars, asn1Vars, collVars>>
    \/ /\ part = "rooms" /\ RoomNext
       /\ UNCHANGED <<part, boardVars, readVars, routeVars, parts, jsonVars, asn1Vars, collVars>>
    \/ /\ part = "reader" /\ ReadNext
       /\ UNCHANGED <<part, boardVars, roomVars, routeVars, parts, jsonVars, asn1Vars, collVars>>
    \/ /\ part = "router" /\ RouteNext
       /\ UNCHANGED <<part, boardVars, roomVars, readVars, parts, jsonVars, asn1Vars, collVars>>
    \/ /\ part = "form" /\ FormNext
       /\ UNCHANGED <<part, boardVars, roomVars, readVars, routeVars, jsonVars, asn1Vars, collVars>>
    \/ /\ part = "json" /\ JsonNext
       /\ UNCHANGED <<part, boardVars, roomVars, readVars, routeVars, parts, asn1Vars, collVars>>
    \/ /\ part = "asn1" /\ Asn1Next
       /\ UNCHANGED <<part, boardVars, roomVars, readVars, routeVars, parts, jsonVars, collVars>>
    \/ /\ part = "collections" /\ CollNext
       /\ UNCHANGED <<part, boardVars, roomVars, readVars, routeVars, parts, jsonVars, asn1Vars>>

Spec == Init /\ [][Next]_vars

Followed == ~misread
=============================================================================
