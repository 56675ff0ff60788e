---------------------------- MODULE MCHttpWorker ----------------------------
(* Routes and requests for TLC. *)
EXTENDS HttpWorker, TLC

handler(n, s, set, calls, throws) ==
    [name |-> n, status |-> s, sets |-> set, calls |-> calls, throws |-> throws]

h1 == handler("h1", 201, {"A", "B"}, TRUE, FALSE)
h2 == handler("h2", 200, {"A", "Content-Type"}, FALSE, FALSE)
h3 == handler("h3", 200, {"Connection"}, TRUE, FALSE)
boom == handler("boom", 200, {"A"}, FALSE, TRUE)

route(m, p, h) == [method |-> m, pattern |-> p, handler |-> h]

(* /a/:x/b  /:y/:x  /:x  /a/  and a POST route. *)
MCRoutes == {
    route("GET", <<"/", "a", "/", ":", "x", "/", "b">>, h1),
    route("GET", <<"/", ":", "y", "/", ":", "x">>, h2),
    route("GET", <<"/", ":", "x">>, h1),
    route("GET", <<"/", "a", "/">>, h3),
    route("POST", <<"/", "a", "/", ":", "y">>, h2)}

Throwing == {route("GET", <<"/", "b">>, boom)}
MCThrowing == MCRoutes \cup Throwing

MCPaths == {<<"/">>, <<"/", "a">>, <<"/", "b">>, <<"/", "a", "/">>, <<"/", "a", "/", "b">>,
            <<"/", "a", "b">>, <<"/", "a", "/", "b", "/">>, <<"/", "b", "/", "a">>,
            <<"/", "a", "/", "a", "/", "b">>, <<"/", "a", "/", "b", "/", "a">>,
            <<"/", "a", "?", "b", "/", "a">>}

MCRequests == [method : {"GET", "POST"}, target : MCPaths, headers : {{}, {"H"}}, close : {TRUE}]
              \cup [method : {"GET"}, target : MCPaths, headers : {{"H"}}, close : {FALSE}]

ASSUME OneReading == PlainTexts

MCSize == "A" :> 3 @@ "B" :> 4 @@ "Content-Type" :> 3 @@ "Connection" :> 2
=============================================================================
