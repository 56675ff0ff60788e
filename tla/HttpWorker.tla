----------------------------- MODULE HttpWorker -----------------------------
(***************************************************************************)
(* How a worker thread of the HTTP server answers one request after the    *)
(* other (runtime/runtime.c, http_server_add_route, route_matches,         *)
(* tinox_handle_one).  The maps a handler sees (path parameters, request   *)
(* headers, response headers) and the error slot of the language belong to *)
(* the thread and are used again for the next request, whoever sent it.    *)
(*                                                                         *)
(* Patterns and paths are sequences of characters; a parameter is ':' and  *)
(* a name up to the next '/'.  Of a handler only its use of the thread's   *)
(* state counts: whether it throws, whether it calls something that may    *)
(* throw before it sets its response, and which headers it sets.           *)
(***************************************************************************)
EXTENDS Naturals, Sequences, FiniteSets, SequencesExt

CONSTANTS
    Routes,       \* the routes a program may register
    Requests,     \* the requests clients may send
    MaxRoutes,    \* TINOX_MAX_ROUTES
    HdrBuf,       \* the size of hdr_buf
    Size,         \* the bytes each response header takes
    NoErr, NoHandler

ASSUME HttpAssumption ==
    /\ HdrBuf \in Nat \ {0}
    /\ Size["Content-Type"] \in Nat
    /\ \A r \in Routes :
          /\ r.handler # NoHandler /\ r.handler.name # NoErr
          /\ IsFiniteSet(r.handler.sets)
          /\ \A h \in r.handler.sets : Size[h] \in Nat

VARIABLES
    routes,       \* srv->routes
    listening,    \* tinox_HttpServer_listen has been called
    thread,       \* the thread-local state
    request,      \* the request answered last
    response      \* its response

vars == <<routes, listening, thread, request, response>>

Default == "Content-Type"
Empty == [x \in {} |-> x]
FreshThread == [params |-> Empty, headers |-> {}, query |-> << >>, out |-> {}, err |-> NoErr]
NoResponse == [sent |-> FALSE]

-----------------------------------------------------------------------------
(* Where the segment of s that position i is in ends: at a '/' or the end. *)
SegEnd(s, i) == Min({k \in i .. Len(s) : s[k] = "/"} \cup {Len(s) + 1})
Slashes(s, i) == \A k \in i .. Len(s) : s[k] = "/"

(* The request target: the path and, behind the first '?', the query. *)
Marks(t) == {i \in DOMAIN t : t[i] = "?"}
Path(t) == IF Marks(t) = {} THEN t ELSE SubSeq(t, 1, Min(Marks(t)) - 1)
Query(t) == IF Marks(t) = {} THEN << >> ELSE SubSeq(t, Min(Marks(t)) + 1, Len(t))

(* tinox_map_set of one parameter, and of those set after it. *)
One(name, val) == [n \in {name} |-> val]
Bind(params, later) ==
    [n \in DOMAIN params \cup DOMAIN later |-> IF n \in DOMAIN later THEN later[n] ELSE params[n]]

(* One round of the loop of route_matches: at a ':' the parameter takes the *)
(* rest of the path's segment, another character must be the same.          *)
Round(pattern, path, at) ==
    LET i    == at.i
        j    == at.j
        pend == SegEnd(pattern, i + 1)
        vend == SegEnd(path, j)
    IN  IF ~at.ok \/ i > Len(pattern) \/ j > Len(path) THEN at
        ELSE CASE pattern[i] = ":" ->
                    [at EXCEPT !.i = pend, !.j = vend,
                               !.params = Bind(@, One(SubSeq(pattern, i + 1, pend - 1),
                                                      SubSeq(path, j, vend - 1)))]
               [] pattern[i] # ":" /\ pattern[i] = path[j] ->
                    [at EXCEPT !.i = @ + 1, !.j = @ + 1]
               [] OTHER -> [at EXCEPT !.ok = FALSE]

(* The loop, whose rounds are at most as many as the pattern has characters. *)
Walk(pattern, path, params) ==
    LET at[n \in 0 .. Len(pattern)] ==
          IF n = 0 THEN [i |-> 1, j |-> 1, params |-> params, ok |-> TRUE]
          ELSE Round(pattern, path, at[n - 1])
    IN  at

(* route_matches: the two strings are walked together; params is filled on *)
(* the way, also when the match fails later.                               *)
Matches(pattern, path, params) ==
    LET end == Walk(pattern, path, params)[Len(pattern)]
    IN  [ok |-> end.ok /\ Slashes(pattern, end.i) /\ Slashes(path, end.j), params |-> end.params]

Unrouted == [handler |-> NoHandler, params |-> Empty]

(* Mutant: the parameters bound by a route that fails are kept. *)
TryRouteKeeps(found, r, req) ==
    IF found.handler # NoHandler \/ r.method # req.method THEN found
    ELSE LET m == Matches(r.pattern, Path(req.target), found.params)
         IN  [handler |-> IF m.ok THEN r.handler ELSE NoHandler, params |-> m.params]

(* One round of the route loop of tinox_handle_one; what a route that does *)
(* not match has bound is reset.                                           *)
TryRoute(found, r, req) ==
    IF found.handler # NoHandler \/ r.method # req.method THEN found
    ELSE LET m == Matches(r.pattern, Path(req.target), found.params)
         IN  IF m.ok THEN [handler |-> r.handler, params |-> m.params] ELSE Unrouted

(* What the loop has found after its first i rounds, for every i. *)
Routing(req) ==
    LET found[i \in 0 .. Len(routes)] ==
          IF i = 0 THEN Unrouted ELSE TryRoute(found[i - 1], routes[i], req)
    IN  found

-----------------------------------------------------------------------------
(* The call of the handler.  A handler that throws, or that makes a call   *)
(* which may throw while the slot is set, returns there and then.          *)
RunHandler(h, th) ==
    LET stopped == h.throws \/ (h.calls /\ th.err # NoErr)
    IN  [thread |-> [th EXCEPT !.err = IF h.throws THEN h.name ELSE @,
                               !.out = IF stopped THEN @ ELSE @ \cup h.sets],
         status |-> IF stopped THEN 200 ELSE h.status,
         body |-> IF stopped THEN << >> ELSE <<h.name, th.params, th.headers, th.query>>]

NoHeaders == [used |-> 0, names |-> << >>]

(* One header goes to hdr_buf if it fits. *)
Put(buf, h) == IF buf.used + Size[h] < HdrBuf
               THEN [used |-> buf.used + Size[h], names |-> Append(buf.names, h)]
               ELSE buf

(* hdr_buf after the first i headers of the map, in the order of the table. *)
Filled(order) ==
    LET buf[i \in 0 .. Len(order)] == IF i = 0 THEN NoHeaders ELSE Put(buf[i - 1], order[i])
    IN  buf

(* Mutant: the fallback header is written without a check (bug 95). *)
EmitUnchecked(out) ==
    LET order == SetToSeq(out)
        own == Filled(order)[Len(order)]
    IN  IF Default \in out THEN own
        ELSE [used |-> own.used + Size[Default], names |-> Append(own.names, Default)]

(* The response headers: those of the map that fit into hdr_buf, and a     *)
(* default content type if there is none.                                  *)
Emit(out) ==
    LET order == SetToSeq(out)
        own == Filled(order)[Len(order)]
    IN  IF Default \in out THEN own ELSE Put(own, Default)

(* The header lines of the response: hdr_buf, and behind it two that are    *)
(* written whatever the handler has set.                                   *)
Framing == <<"Content-Length", "Connection">>
Lines(out) == Emit(out).names \o Framing

(* Mutant: the response headers are not cleared. *)
AnswerKeepsHeaders(th, req) ==
    LET routed == Routing(req)[Len(routes)]
        ready == [th EXCEPT !.params = routed.params, !.headers = req.headers,
                            !.query = Query(req.target)]
        h == routed.handler
        ran == IF h = NoHandler THEN [thread |-> ready, status |-> 404, body |-> << >>]
               ELSE RunHandler(h, ready)
    IN  [thread |-> ran.thread,
         response |-> [sent |-> TRUE, handler |-> h, status |-> ran.status, body |-> ran.body,
                       headers |-> Emit(ran.thread.out), lines |-> Lines(ran.thread.out),
                       keep |-> ~req.close]]

(* tinox_handle_one after the request has been read: the maps are reset,   *)
(* the error slot is not.                                                  *)
Answer(th, req) ==
    LET routed == Routing(req)[Len(routes)]
        ready == [th EXCEPT !.params = routed.params, !.headers = req.headers,
                            !.query = Query(req.target), !.out = {}]
        h == routed.handler
        ran == IF h = NoHandler THEN [thread |-> ready, status |-> 404, body |-> << >>]
               ELSE RunHandler(h, ready)
    IN  [thread |-> ran.thread,
         response |-> [sent |-> TRUE, handler |-> h, status |-> ran.status, body |-> ran.body,
                       headers |-> Emit(ran.thread.out), lines |-> Lines(ran.thread.out),
                       keep |-> ~req.close]]

-----------------------------------------------------------------------------
(* tinox_HttpServer_new and thread_local_init. *)
Init ==
    /\ routes = << >>
    /\ listening = FALSE
    /\ thread = FreshThread
    /\ request = << >>
    /\ response = NoResponse

(* http_server_add_route: a route beyond the limit is dropped. *)
AddRoute(r) ==
    /\ ~listening
    /\ Len(routes) < MaxRoutes
    /\ routes' = Append(routes, r)
    /\ UNCHANGED <<listening, thread, request, response>>

Listen ==
    /\ ~listening
    /\ listening' = TRUE
    /\ UNCHANGED <<routes, thread, request, response>>

(* tinox_handle_one with a request. *)
HandleOne(req) ==
    /\ listening
    /\ LET a == Answer(thread, req) IN thread' = a.thread /\ response' = a.response
    /\ request' = <<req>>
    /\ UNCHANGED <<routes, listening>>

(* tinox_handle_one when the client has hung up. *)
HandleNone ==
    /\ listening
    /\ response' = NoResponse
    /\ request' = << >>
    /\ UNCHANGED <<routes, listening, thread>>

Next ==
    \/ \E r \in Routes : AddRoute(r)
    \/ Listen
    \/ \E req \in Requests : HandleOne(req)
    \/ HandleNone

Spec == Init /\ [][Next]_vars

-----------------------------------------------------------------------------
(* What a route table means.  A segment begins behind a slash and is not    *)
(* empty, so trailing slashes do not count.  A pattern fits a path with as  *)
(* many segments, where each that is no parameter is the same.              *)
Starts(s) == {i \in 1 .. Len(s) - 1 : s[i] = "/" /\ s[i + 1] # "/"}
Segment(s, i) == SubSeq(s, i + 1, SegEnd(s, i + 1) - 1)
Nth(s, i) == Cardinality({k \in 1 .. i : s[k] = "/"})

Params(pattern) == {i \in Starts(pattern) : pattern[i + 1] = ":"}
Name(pattern, i) == SubSeq(pattern, i + 2, SegEnd(pattern, i + 2) - 1)

Fits(pattern, path) ==
    /\ \A i \in Starts(pattern) : \E j \in Starts(path) :
          /\ Nth(pattern, i) = Nth(path, j)
          /\ i \in Params(pattern) \/ Segment(pattern, i) = Segment(path, j)
    /\ \A j \in Starts(path) : \E i \in Starts(pattern) : Nth(pattern, i) = Nth(path, j)

(* Of two parameters of one name the last has its say. *)
Partner(pattern, path, i) == CHOOSE j \in Starts(path) : Nth(pattern, i) = Nth(path, j)
BoundOf(pattern, path, ps) ==
    [x \in {Name(pattern, i) : i \in ps} |->
        Segment(path, Partner(pattern, path, Max({i \in ps : Name(pattern, i) = x})))]
Bound(pattern, path) == BoundOf(pattern, path, Params(pattern))

(* Texts that have one reading: they begin with a slash and no segment is   *)
(* empty (route_matches takes an empty one for the value of a parameter and *)
(* for trailing slashes), and in a pattern only a segment begins with ':'.  *)
Plain(s) ==
    /\ s \in Seq(STRING) /\ s # << >> /\ s[1] = "/"
    /\ \A i \in 1 .. Len(s) - 1 : s[i] # "/" \/ s[i + 1] # "/"
PlainTexts ==
    /\ \A r \in Routes : Plain(r.pattern) /\ \A i \in DOMAIN r.pattern :
                            r.pattern[i] = ":" => r.pattern[i - 1] = "/"
    /\ \A req \in Requests : Plain(Path(req.target))

Fitting(req) == {i \in DOMAIN routes : routes[i].method = req.method
                                       /\ Fits(routes[i].pattern, Path(req.target))}

(* A request reaches the first registered route that fits it, the handler  *)
(* sees that route's parameters and no others (nothing is left of a route  *)
(* tried before or of an earlier request), and a request no route fits is  *)
(* answered 404.                                                           *)
RoutedRight ==
    \A i \in DOMAIN request :
        LET req == request[i]
            fit == Fitting(req)
        IN  IF fit = {} THEN response.handler = NoHandler /\ response.status = 404
            ELSE LET r == routes[Min(fit)]
                 IN  /\ response.handler = r.handler
                     /\ thread.params = Bound(r.pattern, Path(req.target))

(* hdr_buf does not overflow, and a header is sent twice only if it is one *)
(* of the two the server writes itself and the handler sets it as well.    *)
HeadersFit ==
    response.sent =>
        /\ response.headers.used < HdrBuf
        /\ \A i, j \in DOMAIN response.lines :
              i < j /\ response.lines[i] = response.lines[j] =>
                  response.lines[i] \in ToSet(Framing) \cap thread.out

(* Every request is answered by the right handler, with its parameters, or *)
(* 404, and with headers that fit their buffer (tinox_handle_one).         *)
AnswersRight == RoutedRight /\ HeadersFit

(* A response does not depend on what the thread did before: it is the one *)
(* a thread gives that answers its first request.                          *)
Independent ==
    \A i \in DOMAIN request : response = Answer(FreshThread, request[i]).response
=============================================================================
