-------------------------- MODULE HttpWorkerProofs --------------------------
(***************************************************************************)
(* What a worker thread guarantees for every program, that is, every set   *)
(* of routes and handlers, and for every sequence of requests.             *)
(***************************************************************************)
EXTENDS HttpWorker, NatFacts

ThreadFields == {"params", "headers", "query", "out", "err"}

(* A handler of the program, or none. *)
Handlers == {NoHandler} \cup {r.handler : r \in Routes}

(* f is what the n rounds of the route loop have found. *)
Rounds(f, n, req) ==
  f[0] = Unrouted /\ \A i \in 1 .. n : f[i] = TryRoute(f[i - 1], routes[i], req)

(* The recursive function of Routing exists, so its equations hold. *)
LEMMA RoutingRounds ==
  ASSUME routes \in Seq(Routes), NEW req
  PROVE  Rounds(Routing(req), Len(routes), req)
<1> DEFINE Is(v, n) == v = [i \in 0 .. n |->
                              IF i = 0 THEN Unrouted ELSE TryRoute(v[i - 1], routes[i], req)]
           Bad == {n \in Nat : ~ \E v : Is(v, n)}
<1>1. Len(routes) \in Nat
  OBVIOUS
<1>2. Bad = {}
  <2> SUFFICES ASSUME Bad # {} PROVE FALSE
    OBVIOUS
  <2>1. Bad \in SUBSET Nat
    OBVIOUS
  <2> HIDE DEF Bad
  <2>2. PICK m \in Bad : \A x \in Bad : m <= x
    BY <2>1, LeastElement
  <2> USE DEF Bad
  <2>3. m \in Nat /\ ~ \E v : Is(v, m)
    BY <2>2
  <2>4. m # 0
    <3>1. Is([i \in 0 .. 0 |-> Unrouted], 0)
      OBVIOUS
    <3> QED BY <2>3, <3>1
  <2>5. m - 1 \in Nat /\ ~(m <= m - 1)
    BY <2>3, <2>4
  <2>6. PICK v : Is(v, m - 1)
    BY <2>2, <2>5
  <2> DEFINE x == TryRoute(v[m - 1], routes[m], req)
             w == [i \in 0 .. m |-> IF i = m THEN x ELSE v[i]]
  <2>7. \A i \in 0 .. m : i # 0 => i - 1 \in 0 .. m - 1 /\ w[i - 1] = v[i - 1]
    BY <2>3
  <2>8. ASSUME NEW i \in 0 .. m
        PROVE  w[i] = IF i = 0 THEN Unrouted ELSE TryRoute(w[i - 1], routes[i], req)
    <3>1. CASE i = m
      BY <2>4, <2>7, <3>1
    <3>2. CASE i # m
      <4>1. i \in 0 .. m - 1
        BY <2>3, <3>2
      <4>2. v[i] = IF i = 0 THEN Unrouted ELSE TryRoute(v[i - 1], routes[i], req)
        BY <2>6, <4>1
      <4>3. w[i] = v[i]
        BY <3>2
      <4> QED BY <2>7, <4>2, <4>3
    <3> QED BY <3>1, <3>2
  <2> HIDE DEF x
  <2>9. Is(w, m)
    BY <2>8
  <2> QED BY <2>3, <2>9
<1>3. \E v : Is(v, Len(routes))
  BY <1>1, <1>2
<1>4. PICK f : f = Routing(req)
  OBVIOUS
<1>5. Is(f, Len(routes))
  BY <1>3, <1>4 DEF Routing
<1>6. PICK N \in Nat : N = Len(routes)
  BY <1>1
<1>7. f[0] = Unrouted /\ \A i \in 1 .. N : f[i] = TryRoute(f[i - 1], routes[i], req)
  BY <1>5, <1>6
<1> QED BY <1>4, <1>6, <1>7 DEF Rounds

(* The route loop finds a handler of the program, or none. *)
LEMMA RoutingFinds ==
  ASSUME routes \in Seq(Routes), NEW req
  PROVE  Routing(req)[Len(routes)].handler \in Handlers
<1>1. PICK f : f = Routing(req)
  OBVIOUS
<1>2. PICK N \in Nat : N = Len(routes)
  OBVIOUS
<1>3. f[0] = Unrouted /\ \A i \in 1 .. N : f[i] = TryRoute(f[i - 1], routes[i], req)
  BY <1>1, <1>2, RoutingRounds DEF Rounds
<1> DEFINE Off == {n \in Nat : n <= N /\ f[n].handler \notin Handlers}
<1>4. Off = {}
  <2> SUFFICES ASSUME Off # {} PROVE FALSE
    OBVIOUS
  <2>1. Off \in SUBSET Nat
    OBVIOUS
  <2> HIDE DEF Off
  <2>2. PICK m \in Off : \A x \in Off : m <= x
    BY <2>1, LeastElement
  <2> USE DEF Off
  <2>3. m \in Nat /\ m <= N /\ f[m].handler \notin Handlers
    BY <2>2
  <2>4. m # 0
    BY <1>3, <2>3 DEF Unrouted, Handlers
  <2>5. m - 1 \in Nat /\ m - 1 <= N /\ ~(m <= m - 1) /\ m \in 1 .. N
    BY <1>2, <2>3, <2>4
  <2>6. f[m - 1].handler \in Handlers
    BY <2>2, <2>5
  <2>7. routes[m] \in Routes
    BY <1>2, <2>5
  <2>8. f[m] = TryRoute(f[m - 1], routes[m], req)
    BY <1>3, <2>5
  <2>9. TryRoute(f[m - 1], routes[m], req).handler \in Handlers
    BY <2>6, <2>7 DEF TryRoute, Handlers, Unrouted
  <2> QED BY <2>3, <2>8, <2>9
<1> QED BY <1>1, <1>2, <1>4

(* Route i answers the request: its method is the request's and            *)
(* route_matches, started without parameters, succeeds.                    *)
Hit(i, req) == /\ routes[i].method = req.method
               /\ Matches(routes[i].pattern, Path(req.target), Empty).ok

(* What the first n rounds must have found: the first of the routes that    *)
(* answers, with the parameters of its own match, or none.                  *)
First(found, n, req) ==
  \/ found = Unrouted /\ \A i \in 1 .. n : ~Hit(i, req)
  \/ \E i \in 1 .. n :
        /\ Hit(i, req) /\ \A j \in 1 .. i - 1 : ~Hit(j, req)
        /\ found.handler = routes[i].handler
        /\ found.params = Matches(routes[i].pattern, Path(req.target), Empty).params

(* Every round starts without parameters, because the round before it has   *)
(* either succeeded, which ends the loop, or reset them.                    *)
LEMMA RoutingFirst ==
  ASSUME routes \in Seq(Routes), NEW req
  PROVE  First(Routing(req)[Len(routes)], Len(routes), req)
<1>1. PICK f : f = Routing(req)
  OBVIOUS
<1>2. PICK N \in Nat : N = Len(routes)
  OBVIOUS
<1>3. f[0] = Unrouted /\ \A i \in 1 .. N : f[i] = TryRoute(f[i - 1], routes[i], req)
  BY <1>1, <1>2, RoutingRounds DEF Rounds
<1> DEFINE Off == {n \in Nat : n <= N /\ ~First(f[n], n, req)}
<1>4. Off = {}
  <2> SUFFICES ASSUME Off # {} PROVE FALSE
    OBVIOUS
  <2>1. Off \in SUBSET Nat
    OBVIOUS
  <2> HIDE DEF Off
  <2>2. PICK m \in Off : \A x \in Off : m <= x
    BY <2>1, LeastElement
  <2> USE DEF Off
  <2>3. m \in Nat /\ m <= N /\ ~First(f[m], m, req)
    BY <2>2
  <2>4. m # 0
    BY <1>3, <2>3 DEF First
  <2>5. m - 1 \in Nat /\ m - 1 <= N /\ ~(m <= m - 1) /\ m \in 1 .. N
    BY <1>2, <2>3, <2>4
  <2>6. First(f[m - 1], m - 1, req)
    BY <2>2, <2>5
  <2>7. \A i \in 1 .. m : i = m \/ i \in 1 .. m - 1
    BY <2>3
  <2>8. f[m] = TryRoute(f[m - 1], routes[m], req)
    BY <1>3, <2>5
  <2>9. routes[m].handler # NoHandler
    BY <1>2, <2>5, HttpAssumption
  <2>10. CASE f[m - 1] = Unrouted /\ \A i \in 1 .. m - 1 : ~Hit(i, req)
    <3>1. PICK x : x = Matches(routes[m].pattern, Path(req.target), Empty)
      OBVIOUS
    <3>2. f[m - 1].handler = NoHandler /\ f[m - 1].params = Empty
      BY <2>10 DEF Unrouted
    <3>3. CASE Hit(m, req)
      <4>1. x.ok /\ routes[m].method = req.method
        BY <3>1, <3>3 DEF Hit
      <4>2. f[m].handler = routes[m].handler /\ f[m].params = x.params
        BY <2>8, <3>1, <3>2, <4>1 DEF TryRoute
      <4>3. m \in 1 .. m
        BY <2>3, <2>4
      <4> QED BY <2>3, <2>10, <3>1, <3>3, <4>2, <4>3 DEF First
    <3>4. CASE ~Hit(m, req)
      <4>1. ~x.ok \/ routes[m].method # req.method
        BY <3>1, <3>4 DEF Hit
      <4>2. f[m] = Unrouted
        BY <2>8, <2>10, <3>1, <3>2, <4>1 DEF TryRoute
      <4> QED BY <2>3, <2>7, <2>10, <3>4, <4>2 DEF First
    <3> QED BY <3>3, <3>4
  <2>11. CASE \E i \in 1 .. m - 1 :
                 /\ Hit(i, req) /\ \A j \in 1 .. i - 1 : ~Hit(j, req)
                 /\ f[m - 1].handler = routes[i].handler
                 /\ f[m - 1].params = Matches(routes[i].pattern, Path(req.target), Empty).params
    <3>1. PICK i \in 1 .. m - 1 :
                 /\ Hit(i, req) /\ \A j \in 1 .. i - 1 : ~Hit(j, req)
                 /\ f[m - 1].handler = routes[i].handler
                 /\ f[m - 1].params = Matches(routes[i].pattern, Path(req.target), Empty).params
      BY <2>11
    <3>2. i \in 1 .. N /\ i \in 1 .. m
      BY <1>2, <2>3, <3>1
    <3>3. routes[i].handler # NoHandler
      BY <1>2, <3>2, HttpAssumption
    <3>4. f[m] = f[m - 1]
      BY <2>8, <3>1, <3>3 DEF TryRoute
    <3> QED BY <2>3, <3>1, <3>2, <3>4 DEF First
  <2> QED BY <2>6, <2>10, <2>11 DEF First
<1> QED BY <1>1, <1>2, <1>4

-----------------------------------------------------------------------------
(* The thread's record, with no error left in the slot. *)
Calm(th) == th = [k \in ThreadFields |-> th[k]] /\ th.err = NoErr

(* What tinox_handle_one has prepared when it calls the handler. *)
Ready(th, routed, req) ==
  [th EXCEPT !.params = routed.params, !.headers = req.headers,
             !.query = Query(req.target), !.out = {}]

(* The three maps are reset, so only the error slot could tell threads apart. *)
LEMMA ReadyAlike ==
  ASSUME NEW th, Calm(th), NEW routed, NEW req
  PROVE  Ready(th, routed, req) = Ready(FreshThread, routed, req)
<1>1. Calm(FreshThread)
  BY DEF Calm, FreshThread, ThreadFields
<1>2. \A t : Calm(t) =>
         Ready(t, routed, req)
           = [k \in ThreadFields |-> CASE k = "params" -> routed.params
                                       [] k = "headers" -> req.headers
                                       [] k = "query" -> Query(req.target)
                                       [] k = "out" -> {}
                                       [] k = "err" -> NoErr]
  <2> SUFFICES ASSUME NEW t, Calm(t)
               PROVE  Ready(t, routed, req)
                        = [k \in ThreadFields |-> CASE k = "params" -> routed.params
                                                    [] k = "headers" -> req.headers
                                                    [] k = "query" -> Query(req.target)
                                                    [] k = "out" -> {}
                                                    [] k = "err" -> NoErr]
    OBVIOUS
  <2>1. PICK q : q = Query(req.target)
    OBVIOUS
  <2> QED BY <2>1 DEF Calm, Ready, ThreadFields
<1> QED BY <1>1, <1>2

(* The response of a thread without an error is that of a fresh thread. *)
LEMMA AnswersAlike ==
  ASSUME NEW th, Calm(th), NEW req
  PROVE  Answer(th, req).response = Answer(FreshThread, req).response
<1>1. PICK routed : routed = Routing(req)[Len(routes)]
  OBVIOUS
<1>2. PICK x : x = Ready(th, routed, req)
  OBVIOUS
<1>3. x = Ready(FreshThread, routed, req)
  BY <1>2, ReadyAlike
<1> DEFINE Ran(y) == IF routed.handler = NoHandler
                     THEN [thread |-> y, status |-> 404, body |-> << >>]
                     ELSE RunHandler(routed.handler, y)
           Resp(y) == [sent |-> TRUE, handler |-> routed.handler, status |-> Ran(y).status,
                       body |-> Ran(y).body, headers |-> Emit(Ran(y).thread.out),
                       lines |-> Lines(Ran(y).thread.out), keep |-> ~req.close]
<1>4. \A t : Answer(t, req).response = Resp(Ready(t, routed, req))
  BY <1>1 DEF Answer, Ready
<1> HIDE DEF Resp
<1> QED BY <1>2, <1>3, <1>4

(* No handler of the program lets an error out. *)
NoneThrows == \A r \in Routes : ~r.handler.throws

(* How an answer leaves the record of thread th: an error that was in the   *)
(* slot is still there, and one is added only when the handler throws.      *)
Leaves(th, t) ==
  /\ t = [k \in ThreadFields |-> t[k]]
  /\ t.err = NoErr => th.err = NoErr
  /\ t.out = {} \/ \E r \in Routes : t.out = r.handler.sets
  /\ th.err = NoErr /\ NoneThrows => t.err = NoErr

(* Nothing else becomes of the thread when it answers. *)
LEMMA AnswerThread ==
  ASSUME NEW th, th = [k \in ThreadFields |-> th[k]], NEW req, routes \in Seq(Routes)
  PROVE  Leaves(th, Answer(th, req).thread)
<1>0. PICK a : a = Answer(th, req)
  OBVIOUS
<1>1. PICK routed : routed = Routing(req)[Len(routes)]
  OBVIOUS
<1>2. PICK h \in Handlers : h = routed.handler
  BY <1>1, RoutingFinds
<1>3. PICK x : x = Ready(th, routed, req)
  OBVIOUS
<1>4. x = [k \in ThreadFields |-> x[k]] /\ x.err = th.err /\ x.out = {}
  <2>1. PICK q : q = Query(req.target)
    OBVIOUS
  <2> QED BY <1>3, <2>1 DEF Ready, ThreadFields
<1>5. a.thread = IF h = NoHandler THEN x ELSE RunHandler(h, x).thread
  BY <1>0, <1>1, <1>2, <1>3 DEF Answer, Ready
<1>6. CASE h = NoHandler
  BY <1>0, <1>4, <1>5, <1>6 DEF Leaves
<1>7. CASE h # NoHandler
  <2>1. PICK r \in Routes : h = r.handler
    BY <1>2, <1>7 DEF Handlers
  <2>2. h.name # NoErr
    BY <2>1, HttpAssumption
  <2>3. PICK y : y = a.thread
    OBVIOUS
  <2>4. PICK s : s = IF h.throws \/ (h.calls /\ x.err # NoErr) THEN x.out ELSE x.out \cup h.sets
    OBVIOUS
  <2>5. y = [x EXCEPT !.err = IF h.throws THEN h.name ELSE @, !.out = s]
    BY <1>5, <1>7, <2>3, <2>4 DEF RunHandler
  <2>6. y = [k \in ThreadFields |-> y[k]] /\ y.out = s
        /\ y.err = IF h.throws THEN h.name ELSE x.err
    BY <1>4, <2>5 DEF ThreadFields
  <2>7. s = {} \/ s = h.sets
    BY <1>4, <2>4
  <2> QED BY <1>0, <1>4, <2>1, <2>2, <2>3, <2>6, <2>7 DEF Leaves, NoneThrows
<1> QED BY <1>6, <1>7

-----------------------------------------------------------------------------
(* A buffer that has not overflowed and holds no header of T twice. *)
Sound(buf, T) ==
  /\ buf.used \in Nat /\ buf.used < HdrBuf
  /\ buf.names \in Seq(T) /\ IsInjective(buf.names)

(* The headers of c are those of buf and perhaps h. *)
Adds(c, buf, h) ==
  \A k \in 1 .. Len(c.names) : \/ c.names[k] = h
                                \/ \E j \in 1 .. Len(buf.names) : c.names[k] = buf.names[j]

(* One more header that is not there yet. *)
LEMMA PutFits ==
  ASSUME NEW T, NEW buf, Sound(buf, T), NEW h \in T, Size[h] \in Nat,
         \A k \in 1 .. Len(buf.names) : buf.names[k] # h
  PROVE  Sound(Put(buf, h), T) /\ Adds(Put(buf, h), buf, h)
<1>1. PICK b : b = Put(buf, h)
  OBVIOUS
<1>2. CASE ~(buf.used + Size[h] < HdrBuf)
  BY <1>2 DEF Put, Sound, Adds
<1>3. CASE buf.used + Size[h] < HdrBuf
  <2>1. PICK s \in Seq(T) : s = buf.names
    BY DEF Sound
  <2>2. PICK n \in Nat : n = Len(s)
    OBVIOUS
  <2>3. PICK r : r = Append(s, h)
    OBVIOUS
  <2>4. /\ r \in Seq(T) /\ Len(r) = n + 1 /\ r[n + 1] = h /\ DOMAIN r = 1 .. n + 1
        /\ \A i \in 1 .. n : r[i] = s[i]
    BY <2>2, <2>3
  <2>5. b.used = buf.used + Size[h] /\ b.names = r
    BY <1>1, <1>3, <2>1, <2>3 DEF Put
  <2>6. \A i, j \in 1 .. n : s[i] = s[j] => i = j
    BY <2>1, <2>2 DEF Sound, IsInjective
  <2>7. \A i \in 1 .. n : s[i] # h
    BY <2>1, <2>2
  <2>8. ASSUME NEW i \in 1 .. n + 1, NEW j \in 1 .. n + 1, r[i] = r[j]
        PROVE  i = j
    <3>1. \A m \in 1 .. n + 1 : m = n + 1 \/ m \in 1 .. n
      BY <2>2
    <3> QED BY <2>4, <2>6, <2>7, <2>8, <3>1
  <2>9. IsInjective(r)
    BY <2>4, <2>8 DEF IsInjective
  <2>10. b.used \in Nat /\ b.used < HdrBuf
    BY <1>3, <2>5 DEF Sound
  <2>11. \A k \in 1 .. Len(r) : r[k] = h \/ \E j \in 1 .. n : r[k] = s[j]
    <3>1. \A m \in 1 .. n + 1 : m = n + 1 \/ m \in 1 .. n
      BY <2>2
    <3> QED BY <2>4, <3>1
  <2>12. Sound(b, T)
    BY <2>4, <2>5, <2>9, <2>10 DEF Sound
  <2>13. Adds(b, buf, h)
    BY <2>1, <2>2, <2>5, <2>11 DEF Adds
  <2> QED BY <1>1, <2>12, <2>13
<1> QED BY <1>2, <1>3

(* The loop over the handler's headers: after i of them, hdr_buf is sound   *)
(* and holds only those.                                                    *)
LEMMA FilledFits ==
  ASSUME NEW T, NEW order \in Seq(T), IsInjective(order), \A h \in T : Size[h] \in Nat
  PROVE  LET own == Filled(order)[Len(order)]
         IN  Sound(own, T)
<1> DEFINE Is(v, n) == v = [i \in 0 .. n |->
                              IF i = 0 THEN NoHeaders ELSE Put(v[i - 1], order[i])]
           Bad == {n \in Nat : ~ \E v : Is(v, n)}
<1>1. Len(order) \in Nat
  OBVIOUS
<1>2. Bad = {}
  <2> SUFFICES ASSUME Bad # {} PROVE FALSE
    OBVIOUS
  <2>1. Bad \in SUBSET Nat
    OBVIOUS
  <2> HIDE DEF Bad
  <2>2. PICK m \in Bad : \A x \in Bad : m <= x
    BY <2>1, LeastElement
  <2> USE DEF Bad
  <2>3. m \in Nat /\ ~ \E v : Is(v, m)
    BY <2>2
  <2>4. m # 0
    <3>1. Is([i \in 0 .. 0 |-> NoHeaders], 0)
      OBVIOUS
    <3> QED BY <2>3, <3>1
  <2>5. m - 1 \in Nat /\ ~(m <= m - 1)
    BY <2>3, <2>4
  <2>6. PICK v : Is(v, m - 1)
    BY <2>2, <2>5
  <2> DEFINE x == Put(v[m - 1], order[m])
             w == [i \in 0 .. m |-> IF i = m THEN x ELSE v[i]]
  <2>7. \A i \in 0 .. m : i # 0 => i - 1 \in 0 .. m - 1 /\ w[i - 1] = v[i - 1]
    BY <2>3
  <2>8. ASSUME NEW i \in 0 .. m
        PROVE  w[i] = IF i = 0 THEN NoHeaders ELSE Put(w[i - 1], order[i])
    <3>1. CASE i = m
      BY <2>4, <2>7, <3>1
    <3>2. CASE i # m
      <4>1. i \in 0 .. m - 1
        BY <2>3, <3>2
      <4>2. v[i] = IF i = 0 THEN NoHeaders ELSE Put(v[i - 1], order[i])
        BY <2>6, <4>1
      <4>3. w[i] = v[i]
        BY <3>2
      <4> QED BY <2>7, <4>2, <4>3
    <3> QED BY <3>1, <3>2
  <2> HIDE DEF x
  <2>9. Is(w, m)
    BY <2>8
  <2> QED BY <2>3, <2>9
<1>3. \E v : Is(v, Len(order))
  BY <1>1, <1>2
<1>4. PICK f : f = Filled(order)
  OBVIOUS
<1>5. Is(f, Len(order))
  BY <1>3, <1>4 DEF Filled
<1>6. PICK N \in Nat : N = Len(order)
  BY <1>1
<1>7. f[0] = NoHeaders /\ \A i \in 1 .. N : f[i] = Put(f[i - 1], order[i])
  BY <1>5, <1>6
<1> DEFINE Good(n) == /\ Sound(f[n], T)
                      /\ \A k \in 1 .. Len(f[n].names) : \E j \in 1 .. n : f[n].names[k] = order[j]
           Off == {n \in Nat : n <= N /\ ~Good(n)}
<1>8. Off = {}
  <2> SUFFICES ASSUME Off # {} PROVE FALSE
    OBVIOUS
  <2>1. Off \in SUBSET Nat
    OBVIOUS
  <2> HIDE DEF Off, Good
  <2>2. PICK m \in Off : \A x \in Off : m <= x
    BY <2>1, LeastElement
  <2>3. m \in Nat /\ m <= N /\ ~Good(m)
    BY <2>2 DEF Off
  <2>4. Good(0)
    <3>1. Sound(NoHeaders, T) /\ Len(NoHeaders.names) = 0
      BY HttpAssumption DEF Sound, NoHeaders, IsInjective
    <3> QED BY <1>7, <3>1 DEF Good
  <2>5. m # 0
    BY <2>3, <2>4
  <2>6. m - 1 \in Nat /\ m - 1 <= N /\ ~(m <= m - 1) /\ m \in 1 .. N
    BY <1>6, <2>3, <2>5
  <2>7. Good(m - 1)
    BY <2>2, <2>6 DEF Off
  <2>8. PICK b : b = f[m - 1]
    OBVIOUS
  <2>9. PICK h \in T : h = order[m]
    BY <1>6, <2>6
  <2>10. Sound(b, T) /\ \A k \in 1 .. Len(b.names) : \E j \in 1 .. m - 1 : b.names[k] = order[j]
    BY <2>7, <2>8 DEF Good
  <2>11. \A j \in 1 .. m - 1 : j \in 1 .. m /\ j # m /\ j \in 1 .. N
    BY <1>6, <2>3
  <2>12. \A j \in 1 .. N : order[j] = order[m] => j = m
    BY <1>6, <2>6 DEF IsInjective
  <2>13. \A k \in 1 .. Len(b.names) : b.names[k] # h
    BY <2>9, <2>10, <2>11, <2>12
  <2>14. Sound(Put(b, h), T) /\ Adds(Put(b, h), b, h)
    <3>1. Size[h] \in Nat
      BY <2>9
    <3> QED BY <2>10, <2>13, <3>1, PutFits, Zenon
  <2>15. f[m] = Put(b, h)
    BY <1>7, <2>6, <2>8, <2>9
  <2>16. m \in 1 .. m
    BY <2>6
  <2>17. PICK c : c = Put(b, h)
    OBVIOUS
  <2>18. \A k \in 1 .. Len(c.names) : \E j \in 1 .. m : c.names[k] = order[j]
    BY <2>9, <2>10, <2>11, <2>14, <2>16, <2>17 DEF Adds
  <2>19. Good(m)
    BY <2>14, <2>15, <2>17, <2>18 DEF Good
  <2> QED BY <2>3, <2>19
<1>9. Good(N)
  BY <1>6, <1>8
<1>10. Sound(f[N], T)
  BY <1>9 DEF Good
<1> QED BY <1>4, <1>6, <1>10

(* Whatever headers a handler sets, hdr_buf does not overflow and holds no  *)
(* header twice.                                                            *)
LEMMA EmitFits ==
  ASSUME NEW out, IsFiniteSet(out), \A h \in out \cup {Default} : Size[h] \in Nat
  PROVE  Sound(Emit(out), out \cup {Default})
<1>1. PICK n \in Nat : n = Cardinality(out)
  BY FS_CardinalityType
<1>2. \E f \in [1 .. n -> out] : IsInjective(f)
  BY <1>1, FS_CardinalityType DEF ExistsBijection, Bijection, Injection
<1>3. PICK order : order = SetToSeq(out)
  OBVIOUS
<1>4. order \in [1 .. n -> out] /\ IsInjective(order)
  BY <1>1, <1>2, <1>3 DEF SetToSeq
<1>5. order \in Seq(out)
  BY <1>4
<1>6. PICK own : own = Filled(order)[Len(order)]
  OBVIOUS
<1>7. Sound(own, out)
  <2>1. \A h \in out : Size[h] \in Nat
    OBVIOUS
  <2> QED BY <1>4, <1>5, <1>6, <2>1, FilledFits
<1>8. Emit(out) = IF Default \in out THEN own ELSE Put(own, Default)
  BY <1>3, <1>6 DEF Emit
<1>9. CASE Default \in out
  <2>1. out \cup {Default} = out
    BY <1>9
  <2> QED BY <1>7, <1>8, <1>9, <2>1
<1>10. CASE Default \notin out
  <2> DEFINE T == out \cup {Default}
  <2>1. Sound(own, T)
    <3>1. own.names \in Seq(T)
      BY <1>7 DEF Sound
    <3> QED BY <1>7, <3>1 DEF Sound
  <2>2. \A k \in 1 .. Len(own.names) : own.names[k] # Default
    <3>1. \A k \in 1 .. Len(own.names) : own.names[k] \in out
      BY <1>7 DEF Sound
    <3> QED BY <1>10, <3>1
  <2>3. Default \in T /\ Size[Default] \in Nat
    OBVIOUS
  <2> HIDE DEF T
  <2>4. Sound(Put(own, Default), T)
    BY <2>1, <2>2, <2>3, PutFits
  <2> QED BY <1>8, <1>10, <2>4 DEF T
<1> QED BY <1>9, <1>10

(* The lines of a response: what comes twice is one of the two the server   *)
(* adds, and the handler has set it.                                        *)
LEMMA LinesTwice ==
  ASSUME NEW out, Sound(Emit(out), out \cup {Default}),
         NEW i \in DOMAIN Lines(out), NEW j \in DOMAIN Lines(out), i < j, Lines(out)[i] = Lines(out)[j]
  PROVE  Lines(out)[i] \in ToSet(Framing) \cap out
<1>1. PICK s, T : s = Emit(out).names /\ T = out \cup {Default}
  OBVIOUS
<1>2. s \in Seq(T) /\ IsInjective(s) /\ Lines(out) = s \o Framing
  BY <1>1 DEF Sound, Lines
<1>3. PICK n \in Nat : n = Len(s) /\ DOMAIN s = 1 .. n
  BY <1>2
<1>4. /\ DOMAIN Lines(out) = 1 .. (n + 2)
      /\ \A k \in 1 .. n : Lines(out)[k] = s[k]
      /\ Lines(out)[n + 1] = "Content-Length" /\ Lines(out)[n + 2] = "Connection"
  BY <1>2, <1>3 DEF Framing
<1>5. ToSet(Framing) = {"Content-Length", "Connection"}
  <2>1. DOMAIN Framing = {1, 2} /\ Framing[1] = "Content-Length" /\ Framing[2] = "Connection"
    BY DEF Framing
  <2> QED BY <2>1 DEF ToSet
<1>6. i \in 1 .. n
  BY <1>4
<1>7. j \notin 1 .. n
  BY <1>2, <1>3, <1>4, <1>6 DEF IsInjective
<1>8. j = n + 1 \/ j = n + 2
  BY <1>4, <1>7
<1>9. Lines(out)[i] \in {"Content-Length", "Connection"}
  BY <1>4, <1>8
<1>10. s[i] \in T
  BY <1>2, <1>3, <1>6
<1>11. Lines(out)[i] \in out
  BY <1>1, <1>4, <1>6, <1>9, <1>10 DEF Default
<1> QED BY <1>5, <1>9, <1>11

-----------------------------------------------------------------------------
(* The thread as long as nothing was thrown, the request answered last, and *)
(* a route table that no longer changes once a request was answered.        *)
Shape == /\ routes \in Seq(Routes)
         /\ thread = [k \in ThreadFields |-> thread[k]]
         /\ request # << >> => listening
         /\ request = << >> => DOMAIN request = {}
Unmixed == thread.err = NoErr => Independent

HInv == Shape /\ Unmixed /\ HeadersFit

(* A server before its first route. *)
LEMMA InitHInv == Init => HInv
<1> SUFFICES ASSUME Init PROVE HInv
  OBVIOUS
<1>1. Shape
  <2>1. FreshThread = [k \in ThreadFields |-> FreshThread[k]]
    BY DEF FreshThread, ThreadFields
  <2>2. << >> \in Seq(Routes)
    OBVIOUS
  <2>3. DOMAIN << >> = {}
    OBVIOUS
  <2> QED BY <2>1, <2>2, <2>3 DEF Init, Shape
<1>2. Independent /\ HeadersFit
  BY DEF Init, Independent, HeadersFit, NoResponse
<1> QED BY <1>1, <1>2 DEF HInv, Unmixed

(* One request: what it answers with depends on the slot alone. *)
LEMMA HandleHInv ==
  ASSUME HInv, NEW req, HandleOne(req)
  PROVE  HInv'
<1>1. PICK a : a = Answer(thread, req)
  OBVIOUS
<1>2. /\ thread' = a.thread /\ response' = a.response /\ request' = <<req>>
      /\ UNCHANGED <<routes, listening>> /\ listening
  BY <1>1 DEF HandleOne
<1>3. Leaves(thread, a.thread)
  BY <1>1, AnswerThread DEF HInv, Shape
<1>4. Shape'
  BY <1>2, <1>3 DEF HInv, Shape, Leaves
<1>5. Unmixed'
  <2> SUFFICES ASSUME thread'.err = NoErr PROVE Independent'
    BY DEF Unmixed
  <2>1. Calm(thread)
    BY <1>2, <1>3 DEF HInv, Shape, Calm, Leaves
  <2>2. a.response = Answer(FreshThread, req).response
    BY <1>1, <2>1, AnswersAlike
  <2>3. \A i \in DOMAIN request' : request'[i] = req
    BY <1>2
  <2>4. \A x : Answer(FreshThread, x)' = Answer(FreshThread, x)
    BY <1>2 DEF Answer, Routing, FreshThread
  <2> QED BY <1>2, <2>2, <2>3, <2>4 DEF Independent
<1>6. HeadersFit'
  <2>1. PICK out : out = a.thread.out
    OBVIOUS
  <2>2. IsFiniteSet(out) /\ \A h \in out \cup {Default} : Size[h] \in Nat
    BY <1>3, <2>1, HttpAssumption, FS_EmptySet DEF Default, Leaves
  <2>3. a.response.headers = Emit(out) /\ a.response.lines = Lines(out)
    BY <1>1, <2>1 DEF Answer
  <2>4. Sound(Emit(out), out \cup {Default})
    BY <2>2, EmitFits
  <2>5. Emit(out).used < HdrBuf
    BY <2>4 DEF Sound
  <2>6. thread'.out = out
    BY <1>2, <2>1
  <2> QED BY <1>2, <2>3, <2>4, <2>5, <2>6, LinesTwice DEF HeadersFit
<1> QED BY <1>4, <1>5, <1>6 DEF HInv

(* The other steps answer nothing. *)
LEMMA NextHInv == HInv /\ [Next]_vars => HInv'
<1> SUFFICES ASSUME HInv, [Next]_vars PROVE HInv'
  OBVIOUS
<1>1. ASSUME NEW r \in Routes, AddRoute(r) PROVE HInv'
  <2>1. /\ routes' = Append(routes, r) /\ UNCHANGED <<listening, thread, request, response>>
        /\ request = << >>
    BY <1>1 DEF AddRoute, HInv, Shape
  <2>2. Shape'
    <3>1. Append(routes, r) \in Seq(Routes)
      BY DEF HInv, Shape
    <3> QED BY <2>1, <3>1 DEF HInv, Shape
  <2>3. Independent'
    BY <2>1 DEF Independent, HInv, Shape
  <2> QED BY <2>1, <2>2, <2>3 DEF HInv, Unmixed, HeadersFit
<1>2. CASE Listen \/ UNCHANGED vars
  <2>1. UNCHANGED <<routes, thread, request, response>> /\ (listening => listening')
    BY <1>2 DEF Listen, vars
  <2>2. Independent' <=> Independent
    BY <2>1 DEF Independent, Answer, Routing, FreshThread
  <2> QED BY <2>1, <2>2 DEF HInv, Shape, Unmixed, HeadersFit
<1>3. CASE HandleNone
  <2>1. UNCHANGED <<routes, thread, listening>> /\ request' = << >> /\ response' = NoResponse
    BY <1>3 DEF HandleNone
  <2>2. Independent' /\ HeadersFit'
    BY <2>1 DEF Independent, HeadersFit, NoResponse
  <2> QED BY <2>1, <2>2 DEF HInv, Shape, Unmixed
<1>4. ASSUME NEW req \in Requests, HandleOne(req) PROVE HInv'
  BY <1>4, HandleHInv
<1> QED BY <1>1, <1>2, <1>3, <1>4 DEF Next

-----------------------------------------------------------------------------
(* Whatever the handlers do, throwing included: a response in whose wake     *)
(* the thread's error slot is empty is the one a fresh thread gives.  The    *)
(* three maps and the pending headers are never the reason for another.      *)
THEOREM IndependentUntilThrown == Spec => []Unmixed
<1>1. HInv => Unmixed
  BY DEF HInv
<1> QED BY <1>1, InitHInv, NextHInv, PTL DEF Spec

(* Where no handler lets an error out, no request is answered differently    *)
(* for what its worker thread answered before: tinox_handle_one resets all   *)
(* of the thread's state that a handler can read.                            *)
THEOREM RequestsAreIndependent ==
  ASSUME NoneThrows
  PROVE  Spec => []Independent
<1> DEFINE NInv == HInv /\ thread.err = NoErr
<1>1. Init => NInv
  BY InitHInv DEF Init, FreshThread
<1>2. NInv /\ [Next]_vars => NInv'
  <2> SUFFICES ASSUME NInv, [Next]_vars PROVE thread'.err = NoErr
    BY NextHInv
  <2>1. CASE UNCHANGED thread
    BY <2>1
  <2>2. ASSUME NEW req \in Requests, HandleOne(req) PROVE thread'.err = NoErr
    <3>1. PICK a : a = Answer(thread, req)
      OBVIOUS
    <3>2. Leaves(thread, a.thread)
      BY <3>1, AnswerThread DEF HInv, Shape
    <3>3. thread' = a.thread
      BY <2>2, <3>1 DEF HandleOne
    <3> QED BY NoneThrows, <3>2, <3>3 DEF Leaves
  <2>3. UNCHANGED thread \/ \E req \in Requests : HandleOne(req)
    BY DEF Next, vars, AddRoute, Listen, HandleNone
  <2> QED BY <2>1, <2>2, <2>3
<1>3. NInv => Independent
  BY DEF HInv, Unmixed
<1> QED BY <1>1, <1>2, <1>3, PTL DEF Spec

(* The response headers always fit hdr_buf, for every size of the buffer and *)
(* of the headers, the fallback Content-Type too, and none is sent twice but *)
(* a Content-Length or Connection the handler sets beside the server's own.  *)
THEOREM HeadersNeverOverflow == Spec => []HeadersFit
<1>1. HInv => HeadersFit
  BY DEF HInv
<1> QED BY <1>1, InitHInv, NextHInv, PTL DEF Spec

-----------------------------------------------------------------------------
(* A request was answered by the first registered route with its method     *)
(* that route_matches accepts, and the parameters the handler has seen are  *)
(* those of that match alone: nothing of a route tried before, nothing of   *)
(* an earlier request.  Without such a route the answer was 404.            *)
FirstRouteAnswers ==
  \A k \in DOMAIN request :
     \/ /\ \A i \in 1 .. Len(routes) : ~Hit(i, request[k])
        /\ response.handler = NoHandler /\ response.status = 404
     \/ \E i \in 1 .. Len(routes) :
           /\ Hit(i, request[k]) /\ \A j \in 1 .. i - 1 : ~Hit(j, request[k])
           /\ response.handler = routes[i].handler
           /\ thread.params
                = Matches(routes[i].pattern, Path(request[k].target), Empty).params

(* The response names the handler of the route that was found, and nothing  *)
(* writes the parameters after the route loop.                              *)
LEMMA AnswerRouted ==
  ASSUME NEW th, th = [k \in ThreadFields |-> th[k]], NEW req, routes \in Seq(Routes),
         NEW routed, routed = Routing(req)[Len(routes)]
  PROVE  /\ Answer(th, req).response.handler = routed.handler
         /\ Answer(th, req).thread.params = routed.params
         /\ routed.handler = NoHandler => Answer(th, req).response.status = 404
<1>1. PICK a : a = Answer(th, req)
  OBVIOUS
<1>2. PICK x : x = Ready(th, routed, req)
  OBVIOUS
<1>3. x = [k \in ThreadFields |-> x[k]] /\ x.params = routed.params
  <2>1. PICK q : q = Query(req.target)
    OBVIOUS
  <2> QED BY <1>2, <2>1 DEF Ready, ThreadFields
<1>4. /\ a.thread = IF routed.handler = NoHandler THEN x ELSE RunHandler(routed.handler, x).thread
      /\ a.response.handler = routed.handler
      /\ routed.handler = NoHandler => a.response.status = 404
  BY <1>1, <1>2 DEF Answer, Ready
<1>5. RunHandler(routed.handler, x).thread.params = x.params
  BY <1>3 DEF RunHandler, ThreadFields
<1> QED BY <1>1, <1>3, <1>4, <1>5

(* The routing of tinox_handle_one, for every route table and every         *)
(* sequence of requests, throwing handlers and any pattern included.        *)
THEOREM FirstRouteWins == Spec => []FirstRouteAnswers
<1> DEFINE RInv == HInv /\ FirstRouteAnswers
<1>1. Init => RInv
  BY InitHInv DEF Init, FirstRouteAnswers
<1>2. RInv /\ [Next]_vars => RInv'
  <2> SUFFICES ASSUME RInv, [Next]_vars PROVE FirstRouteAnswers'
    BY NextHInv
  <2>1. CASE request' = << >>
    BY <2>1 DEF FirstRouteAnswers
  <2>2. CASE UNCHANGED <<routes, thread, request, response>>
    BY <2>2 DEF FirstRouteAnswers, Hit
  <2>3. ASSUME NEW req \in Requests, HandleOne(req) PROVE FirstRouteAnswers'
    <3>1. PICK routed : routed = Routing(req)[Len(routes)]
      OBVIOUS
    <3>2. First(routed, Len(routes), req)
      BY <3>1, RoutingFirst DEF HInv, Shape
    <3>3. PICK a : a = Answer(thread, req)
      OBVIOUS
    <3>4. /\ a.response.handler = routed.handler /\ a.thread.params = routed.params
          /\ routed.handler = NoHandler => a.response.status = 404
      BY <3>1, <3>3, AnswerRouted DEF HInv, Shape
    <3>5. /\ thread' = a.thread /\ response' = a.response /\ request' = <<req>>
          /\ routes' = routes
      BY <2>3, <3>3 DEF HandleOne
    <3>6. \A k \in DOMAIN request' : request'[k] = req
      BY <3>5
    <3>7. \A i : Hit(i, req)' <=> Hit(i, req)
      BY <3>5 DEF Hit
    <3>8. CASE routed = Unrouted /\ \A i \in 1 .. Len(routes) : ~Hit(i, req)
      BY <3>4, <3>5, <3>6, <3>8 DEF FirstRouteAnswers, Hit, Unrouted
    <3>9. CASE routed # Unrouted \/ \E i \in 1 .. Len(routes) : Hit(i, req)
      <4>1. PICK i \in 1 .. Len(routes) :
               /\ Hit(i, req) /\ \A j \in 1 .. i - 1 : ~Hit(j, req)
               /\ routed.handler = routes[i].handler
               /\ routed.params = Matches(routes[i].pattern, Path(req.target), Empty).params
        BY <3>2, <3>9 DEF First
      <4> QED BY <3>4, <3>5, <3>6, <4>1 DEF FirstRouteAnswers, Hit
    <3> QED BY <3>8, <3>9
  <2>4. \/ request' = << >> \/ UNCHANGED <<routes, thread, request, response>>
        \/ \E req \in Requests : HandleOne(req)
    <3>1. \A r : AddRoute(r) => request' = << >>
      BY DEF AddRoute, HInv, Shape
    <3> QED BY <3>1 DEF Next, vars, Listen, HandleNone
  <2> QED BY <2>1, <2>2, <2>3, <2>4
<1>3. RInv => FirstRouteAnswers
  OBVIOUS
<1> QED BY <1>1, <1>2, <1>3, PTL DEF Spec

-----------------------------------------------------------------------------
(* route_matches against the meaning of a pattern.  e is where the segment  *)
(* of s that position i is in ends.                                         *)
EndsAt(s, i, e) ==
  /\ e \in i .. Len(s) + 1
  /\ \A k \in i .. e - 1 : s[k] # "/"
  /\ e <= Len(s) => s[e] = "/"

(* SegEnd is that place, and there is only one. *)
LEMMA SegEndEnds ==
  ASSUME NEW s \in Seq(STRING), NEW i \in 1 .. Len(s) + 1
  PROVE  EndsAt(s, i, SegEnd(s, i)) /\ \A e : EndsAt(s, i, e) => e = SegEnd(s, i)
<1>1. PICK n \in Nat : n = Len(s)
  OBVIOUS
<1> DEFINE T == {k \in i .. n : s[k] = "/"} \cup {n + 1}
<1>2. T \in SUBSET Nat /\ T # {}
  BY <1>1
<1> HIDE DEF T
<1>3. PICK m \in T : \A x \in T : m <= x
  BY <1>2, LeastElement
<1> USE DEF T
<1>4. m = SegEnd(s, i)
  <2>1. PICK y : y = SegEnd(s, i)
    OBVIOUS
  <2>2. y = CHOOSE x \in T : \A z \in T : x =< z
    BY <1>1, <2>1 DEF SegEnd, Min
  <2> HIDE DEF T
  <2>3. y \in T /\ \A z \in T : y =< z
    BY <1>3, <2>2
  <2>4. m <= y /\ y <= m /\ m \in Nat /\ y \in Nat
    BY <1>2, <1>3, <2>3
  <2> QED BY <2>1, <2>4
<1>5. m \in i .. n + 1 /\ (m <= n => s[m] = "/")
  BY <1>1, <1>3
<1>6. ASSUME NEW k \in i .. m - 1 PROVE s[k] # "/"
  <2>1. k \in i .. n /\ ~(m <= k)
    BY <1>1, <1>5
  <2> QED BY <1>3, <2>1
<1>7. EndsAt(s, i, m)
  BY <1>1, <1>5, <1>6 DEF EndsAt
<1>8. ASSUME NEW e, EndsAt(s, i, e) PROVE e = m
  <2>1. /\ e \in i .. n + 1 /\ (\A k \in i .. e - 1 : s[k] # "/")
        /\ e <= n => s[e] = "/"
    BY <1>1, <1>8 DEF EndsAt
  <2>2. ~(e < m)
    BY <1>1, <1>5, <1>6, <2>1
  <2>3. ~(m < e)
    BY <1>1, <1>5, <2>1
  <2> QED BY <1>1, <1>5, <2>1, <2>2, <2>3
<1> QED BY <1>4, <1>7, <1>8

(* How many slashes there are up to a position. *)
LEMMA NthFacts ==
  ASSUME NEW s \in Seq(STRING)
  PROVE  /\ \A i \in 0 .. Len(s) : Nth(s, i) \in Nat
         /\ Nth(s, 0) = 0
         /\ \A i \in 1 .. Len(s) : Nth(s, i) = Nth(s, i - 1) + (IF s[i] = "/" THEN 1 ELSE 0)
         /\ \A i, k \in 0 .. Len(s) : i <= k => Nth(s, i) <= Nth(s, k)
         /\ \A i, k \in 0 .. Len(s) :
               i <= k /\ (\A x \in i + 1 .. k : s[x] # "/") => Nth(s, i) = Nth(s, k)
<1>1. PICK n \in Nat : n = Len(s)
  OBVIOUS
<1> DEFINE U(i) == {k \in 1 .. i : s[k] = "/"}
<1>2. ASSUME NEW i \in 0 .. n PROVE IsFiniteSet(U(i)) /\ Nth(s, i) = Cardinality(U(i)) /\ Nth(s, i) \in Nat
  <2>1. IsFiniteSet(1 .. i)
    BY FS_Interval
  <2>2. IsFiniteSet(U(i))
    BY <2>1, FS_Subset
  <2> HIDE DEF U
  <2>3. Cardinality(U(i)) \in Nat
    BY <2>2, FS_CardinalityType
  <2> QED BY <2>2, <2>3 DEF Nth, U
<1>3. Nth(s, 0) = 0
  <2>1. U(0) = {}
    OBVIOUS
  <2> QED BY <2>1, FS_EmptySet DEF Nth
<1>4. ASSUME NEW i \in 1 .. n PROVE Nth(s, i) = Nth(s, i - 1) + (IF s[i] = "/" THEN 1 ELSE 0)
  <2>1. i - 1 \in 0 .. n /\ i \in 0 .. n
    OBVIOUS
  <2>2. PICK S, T : S = U(i - 1) /\ T = U(i)
    OBVIOUS
  <2>3. i \notin S /\ T = IF s[i] = "/" THEN S \cup {i} ELSE S
    BY <1>1, <2>2
  <2>4. IsFiniteSet(S) /\ Nth(s, i - 1) = Cardinality(S) /\ Nth(s, i) = Cardinality(T)
    BY <1>2, <2>1, <2>2
  <2>5. Cardinality(S \cup {i}) = Cardinality(S) + 1
    BY <2>3, <2>4, AddRemoveCount
  <2>6. Cardinality(S) \in Nat
    BY <2>4, FS_CardinalityType
  <2> QED BY <2>3, <2>4, <2>5, <2>6
<1>5. ASSUME NEW i \in 0 .. n, NEW k \in 0 .. n, i <= k PROVE Nth(s, i) <= Nth(s, k)
  <2>1. PICK S, T : S = U(i) /\ T = U(k)
    OBVIOUS
  <2>2. S \subseteq T
    BY <1>5, <2>1
  <2>3. IsFiniteSet(T) /\ Nth(s, i) = Cardinality(S) /\ Nth(s, k) = Cardinality(T)
    BY <1>2, <2>1
  <2> QED BY <2>2, <2>3, FS_Subset
<1>6. ASSUME NEW i \in 0 .. n, NEW k \in 0 .. n, i <= k, \A x \in i + 1 .. k : s[x] # "/"
      PROVE  Nth(s, i) = Nth(s, k)
  <2>1. U(i) = U(k)
    BY <1>6
  <2> QED BY <1>2, <2>1
<1> QED BY <1>1, <1>2, <1>3, <1>4, <1>5, <1>6

(* A slash is known by its number. *)
LEMMA NthKnows ==
  ASSUME NEW s \in Seq(STRING), NEW p \in 1 .. Len(s), NEW q \in 1 .. Len(s),
         s[p] = "/", s[q] = "/", Nth(s, p) = Nth(s, q)
  PROVE  p = q
<1>1. ASSUME NEW x \in 1 .. Len(s), NEW y \in 1 .. Len(s), s[y] = "/", x < y
      PROVE  Nth(s, x) # Nth(s, y)
  <2>1. /\ y - 1 \in 0 .. Len(s) /\ x \in 0 .. Len(s) /\ x <= y - 1
    BY <1>1
  <2>2. Nth(s, x) <= Nth(s, y - 1) /\ Nth(s, y) = Nth(s, y - 1) + 1
    BY <1>1, <2>1, NthFacts
  <2>3. Nth(s, x) \in Nat /\ Nth(s, y - 1) \in Nat
    BY <2>1, NthFacts
  <2> QED BY <2>2, <2>3
<1> QED BY <1>1

(* The character at a position; behind the last one the text reads as if    *)
(* another slash followed.                                                  *)
Ch(s, x) == IF x <= Len(s) THEN s[x] ELSE "/"

(* What the text of a segment is made of. *)
LEMMA SegmentText ==
  ASSUME NEW s \in Seq(STRING), NEW p \in Starts(s)
  PROVE  LET L == SegEnd(s, p + 1) - p
         IN  /\ L \in Nat \ {0} /\ p + L \in p + 1 .. Len(s) + 1
             /\ Ch(s, p + L) = "/"
             /\ \A k \in 1 .. L - 1 : s[p + k] # "/" /\ p + k <= Len(s)
             /\ Len(Segment(s, p)) = L - 1
             /\ \A k \in 1 .. L - 1 : Segment(s, p)[k] = s[p + k]
<1>1. PICK n \in Nat : n = Len(s)
  OBVIOUS
<1>2. p \in 1 .. n - 1
  BY <1>1 DEF Starts
<1>3. PICK e : e = SegEnd(s, p + 1)
  OBVIOUS
<1>4. p + 1 \in 1 .. n + 1
  BY <1>1, <1>2
<1>5. /\ e \in p + 1 .. n + 1 /\ (\A k \in p + 1 .. e - 1 : s[k] # "/") /\ (e <= n => s[e] = "/")
  BY <1>1, <1>3, <1>4, SegEndEnds DEF EndsAt
<1>6. PICK L \in Nat : L = e - p
  BY <1>1, <1>2, <1>5
<1>7. L # 0 /\ p + L = e
  BY <1>1, <1>2, <1>5, <1>6
<1>8. \A k \in 1 .. L - 1 : s[p + k] # "/" /\ p + k <= n
  <2> SUFFICES ASSUME NEW k \in 1 .. L - 1 PROVE s[p + k] # "/" /\ p + k <= n
    OBVIOUS
  <2>1. p + k \in p + 1 .. e - 1
    BY <1>2, <1>5, <1>6
  <2> QED BY <1>1, <1>5, <2>1
<1>9. PICK g : g = Segment(s, p)
  OBVIOUS
<1>10. g = SubSeq(s, p + 1, e - 1)
  BY <1>3, <1>9 DEF Segment
<1>11. p + 1 \in 1 .. n + 1 /\ e - 1 \in p .. n
  BY <1>1, <1>2, <1>5
<1>12. Len(g) = L - 1
  BY <1>1, <1>2, <1>5, <1>6, <1>10, <1>11
<1>13. ASSUME NEW k \in 1 .. L - 1 PROVE g[k] = s[p + k]
  BY <1>1, <1>2, <1>5, <1>6, <1>10, <1>11
<1> QED BY <1>1, <1>3, <1>5, <1>6, <1>7, <1>8, <1>9, <1>12, <1>13 DEF Ch

(* Equal segments read the same up to where they end. *)
LEMMA SegmentSame ==
  ASSUME NEW a \in Seq(STRING), NEW b \in Seq(STRING), NEW p \in Starts(a), NEW q \in Starts(b),
         Segment(a, p) = Segment(b, q), NEW k \in Nat \ {0}, p + k <= Len(a) + 1,
         \A l \in 1 .. k - 1 : a[p + l] # "/"
  PROVE  Ch(a, p + k) = Ch(b, q + k)
<1>1. PICK L : L = SegEnd(a, p + 1) - p
  OBVIOUS
<1>2. PICK M : M = SegEnd(b, q + 1) - q
  OBVIOUS
<1>3. /\ L \in Nat \ {0} /\ p + L \in p + 1 .. Len(a) + 1 /\ Ch(a, p + L) = "/"
      /\ \A x \in 1 .. L - 1 : a[p + x] # "/" /\ p + x <= Len(a)
      /\ Len(Segment(a, p)) = L - 1 /\ \A x \in 1 .. L - 1 : Segment(a, p)[x] = a[p + x]
  BY <1>1, SegmentText
<1>4. /\ M \in Nat \ {0} /\ q + M \in q + 1 .. Len(b) + 1 /\ Ch(b, q + M) = "/"
      /\ \A x \in 1 .. M - 1 : b[q + x] # "/" /\ q + x <= Len(b)
      /\ Len(Segment(b, q)) = M - 1 /\ \A x \in 1 .. M - 1 : Segment(b, q)[x] = b[q + x]
  BY <1>2, SegmentText
<1>5. L = M
  BY <1>3, <1>4
<1>6. p \in Nat /\ q \in Nat
  BY DEF Starts
<1>7. k <= L
  <2> SUFFICES ASSUME L < k PROVE FALSE
    BY <1>3
  <2>1. p + L <= Len(a) /\ L \in 1 .. k - 1
    BY <1>3, <1>6
  <2> QED BY <1>3, <2>1 DEF Ch
<1>8. CASE k = L
  BY <1>3, <1>4, <1>5, <1>8
<1>9. CASE k < L
  <2>1. k \in 1 .. L - 1
    BY <1>3, <1>9
  <2>2. a[p + k] = b[q + k] /\ p + k <= Len(a) /\ q + k <= Len(b)
    BY <1>3, <1>4, <1>5, <2>1
  <2> QED BY <2>2 DEF Ch
<1> QED BY <1>3, <1>7, <1>8, <1>9

(* And segments that do are equal. *)
LEMMA SegmentMade ==
  ASSUME NEW a \in Seq(STRING), NEW b \in Seq(STRING), NEW p \in Starts(a), NEW q \in Starts(b),
         NEW k \in Nat \ {0}, p + k <= Len(a) + 1, q + k <= Len(b) + 1,
         \A l \in 1 .. k - 1 : a[p + l] # "/" /\ a[p + l] = b[q + l],
         Ch(a, p + k) = "/", Ch(b, q + k) = "/"
  PROVE  Segment(a, p) = Segment(b, q)
<1>1. ASSUME NEW s \in Seq(STRING), NEW r \in Starts(s), r + k <= Len(s) + 1,
             \A l \in 1 .. k - 1 : s[r + l] # "/", Ch(s, r + k) = "/"
      PROVE  SegEnd(s, r + 1) = r + k
  <2>1. PICK n \in Nat : n = Len(s)
    OBVIOUS
  <2>2. r \in 1 .. n - 1
    BY <2>1 DEF Starts
  <2>3. r + 1 \in 1 .. n + 1
    BY <2>1, <2>2
  <2>4. ASSUME NEW x \in r + 1 .. r + k - 1 PROVE s[x] # "/"
    <3>1. x - r \in 1 .. k - 1 /\ r + (x - r) = x
      BY <2>2
    <3> QED BY <1>1, <3>1
  <2>5. r + k <= n => s[r + k] = "/"
    BY <1>1, <2>1 DEF Ch
  <2>6. EndsAt(s, r + 1, r + k)
    BY <1>1, <2>1, <2>2, <2>4, <2>5 DEF EndsAt
  <2> QED BY <2>1, <2>3, <2>6, SegEndEnds
<1>2. SegEnd(a, p + 1) = p + k
  BY <1>1
<1>3. SegEnd(b, q + 1) = q + k
  <2>1. \A l \in 1 .. k - 1 : b[q + l] # "/"
    OBVIOUS
  <2> QED BY <1>1, <2>1
<1>4. ASSUME NEW s \in Seq(STRING), NEW r \in Starts(s), SegEnd(s, r + 1) = r + k
      PROVE  /\ Segment(s, r) \in Seq(STRING) /\ Len(Segment(s, r)) = k - 1
             /\ \A x \in 1 .. k - 1 : Segment(s, r)[x] = s[r + x]
  <2>1. r \in Nat
    BY DEF Starts
  <2>2. PICK L : L = SegEnd(s, r + 1) - r
    OBVIOUS
  <2>3. L = k
    BY <1>4, <2>1, <2>2
  <2>4. Len(Segment(s, r)) = L - 1 /\ \A x \in 1 .. L - 1 : Segment(s, r)[x] = s[r + x]
    BY <2>2, SegmentText
  <2>5. Segment(s, r) \in Seq(STRING)
    <3>1. PICK n \in Nat : n = Len(s)
      OBVIOUS
    <3>2. r \in 1 .. n - 1
      BY <3>1 DEF Starts
    <3>3. r + 1 \in 1 .. n + 1
      BY <3>1, <3>2
    <3>4. PICK e : e = SegEnd(s, r + 1)
      OBVIOUS
    <3>5. e \in r + 1 .. n + 1
      BY <3>1, <3>3, <3>4, SegEndEnds DEF EndsAt
    <3>6. SubSeq(s, r + 1, e - 1) \in Seq(STRING)
      BY <3>1, <3>2, <3>5
    <3> QED BY <3>4, <3>6 DEF Segment
  <2> QED BY <2>3, <2>4, <2>5
<1>5. PICK u, v : u = Segment(a, p) /\ v = Segment(b, q)
  OBVIOUS
<1>6. u \in Seq(STRING) /\ Len(u) = k - 1 /\ \A x \in 1 .. k - 1 : u[x] = a[p + x]
  BY <1>2, <1>4, <1>5
<1>7. v \in Seq(STRING) /\ Len(v) = k - 1 /\ \A x \in 1 .. k - 1 : v[x] = b[q + x]
  BY <1>3, <1>4, <1>5
<1>8. u = v
  BY <1>6, <1>7
<1> QED BY <1>5, <1>8

(* Behind the first slash, every position has a last slash before it. *)
LEMMA LastSlash ==
  ASSUME NEW s \in Seq(STRING), s # << >>, s[1] = "/", NEW i \in 2 .. Len(s) + 1
  PROVE  \E p \in 1 .. i - 1 : /\ s[p] = "/" /\ \A k \in p + 1 .. i - 1 : s[k] # "/"
                               /\ Nth(s, p) = Nth(s, i - 1)
<1>1. PICK n \in Nat : n = Len(s)
  OBVIOUS
<1> DEFINE D == {d \in Nat : d <= i - 2 /\ s[i - 1 - d] = "/"}
<1>2. i - 2 \in D /\ D \in SUBSET Nat
  <2>1. i - 2 \in Nat /\ i - 1 - (i - 2) = 1
    BY <1>1
  <2> QED BY <2>1
<1> HIDE DEF D
<1>3. PICK d \in D : \A x \in D : d <= x
  BY <1>2, LeastElement
<1> USE DEF D
<1>4. PICK p \in 1 .. i - 1 : p = i - 1 - d
  BY <1>1, <1>3
<1>5. s[p] = "/"
  BY <1>3, <1>4
<1>6. ASSUME NEW k \in p + 1 .. i - 1 PROVE s[k] # "/"
  <2>1. i - 1 - k \in Nat /\ i - 1 - k <= i - 2 /\ i - 1 - (i - 1 - k) = k /\ ~(d <= i - 1 - k)
    BY <1>1, <1>3, <1>4
  <2> QED BY <1>3, <2>1
<1>7. Nth(s, p) = Nth(s, i - 1)
  <2>1. p \in 0 .. Len(s) /\ i - 1 \in 0 .. Len(s) /\ p <= i - 1
    BY <1>1, <1>4
  <2> QED BY <1>6, <2>1, NthFacts
<1> QED BY <1>5, <1>6, <1>7

(* The segment behind p has not ended before i. *)
Open(a, p, i) == p < i /\ \A k \in p + 1 .. i - 1 : a[k] # "/"

(* The literal segments behind p and q agree as far as they have been read. *)
Agree(a, b, p, q, i, j) ==
  /\ \A k \in 1 .. i - p - 1 :
        (\A l \in 1 .. k - 1 : a[p + l] # "/") => a[p + k] = b[q + k] /\ q + k < j
  /\ Open(a, p, i) => j - q = i - p

(* What has been read of segment p of a and its partner q in b. *)
Paired(a, b, p, q, i, j) ==
  /\ q + 1 < j /\ Nth(a, p) = Nth(b, q)
  /\ IF a[p + 1] = ":" THEN Open(a, p, i) => Ch(a, i) = "/" /\ Ch(b, j) = "/"
     ELSE Agree(a, b, p, q, i, j)

(* The two strings match as far as they have been read, up to i and j. *)
Good(a, b, i, j) ==
  /\ i \in 1 .. Len(a) + 1 /\ j \in 1 .. Len(b) + 1
  /\ Nth(a, i - 1) = Nth(b, j - 1)
  /\ i = 1 <=> j = 1
  /\ i > 1 => (a[i - 1] = "/" <=> b[j - 1] = "/")
  /\ \A p \in Starts(a) : p + 1 < i => \E q \in Starts(b) : Paired(a, b, p, q, i, j)
  /\ \A q \in Starts(b) : q + 1 < j =>
        \E p \in Starts(a) : p + 1 < i /\ Nth(a, p) = Nth(b, q)

IsPattern(a) == Plain(a) /\ \A i \in DOMAIN a : a[i] = ":" => a[i - 1] = "/"

(* Where a match has come to different characters, the pattern does not fit. *)
LEMMA Stuck ==
  ASSUME NEW a, NEW b, Plain(a), Plain(b), NEW i, NEW j, Good(a, b, i, j),
         i > 1, Ch(a, i) # Ch(b, j), Ch(a, i) # ":" \/ j > Len(b)
  PROVE  ~Fits(a, b)
<1> SUFFICES ASSUME Fits(a, b) PROVE FALSE
  OBVIOUS
<1>0. a \in Seq(STRING) /\ b \in Seq(STRING) /\ a # << >> /\ b # << >> /\ a[1] = "/" /\ b[1] = "/"
  BY DEF Plain
<1>1. PICK n, m \in Nat : n = Len(a) /\ m = Len(b)
  BY <1>0
<1>2. i \in 2 .. n + 1 /\ j \in 2 .. m + 1 /\ Nth(a, i - 1) = Nth(b, j - 1)
      /\ (a[i - 1] = "/" <=> b[j - 1] = "/")
  BY <1>1 DEF Good
<1>3. PICK p \in 1 .. i - 1 : /\ a[p] = "/" /\ \A k \in p + 1 .. i - 1 : a[k] # "/"
                              /\ Nth(a, p) = Nth(a, i - 1)
  BY <1>0, <1>1, <1>2, LastSlash
<1>4. \A x, y \in 1 .. m : b[x] = "/" /\ b[y] = "/" /\ Nth(b, x) = Nth(b, y) => x = y
  BY <1>0, <1>1, NthKnows
<1>5. \A x, y \in 1 .. n : a[x] = "/" /\ a[y] = "/" /\ Nth(a, x) = Nth(a, y) => x = y
  BY <1>0, <1>1, NthKnows
<1>6. CASE p + 1 = i
  <2>1. a[i - 1] = "/" /\ b[j - 1] = "/" /\ j - 1 \in 1 .. m /\ i - 1 \in 1 .. n
    BY <1>1, <1>2, <1>3, <1>6
  <2>2. CASE Ch(a, i) # "/"
    <3>1. i <= n /\ a[i] # "/" /\ i - 1 \in Starts(a)
      BY <1>1, <1>2, <2>1, <2>2 DEF Ch, Starts
    <3>2. PICK q \in Starts(b) : /\ Nth(a, i - 1) = Nth(b, q)
                                 /\ i - 1 \in Params(a) \/ Segment(a, i - 1) = Segment(b, q)
      BY <3>1 DEF Fits
    <3>3. q \in 1 .. m - 1 /\ b[q] = "/" /\ b[q + 1] # "/"
      BY <1>1, <3>2 DEF Starts
    <3>4. q = j - 1
      BY <1>2, <1>4, <2>1, <3>2, <3>3
    <3>5. a[i] # ":" /\ Segment(a, i - 1) = Segment(b, q)
      <4>1. j <= m /\ ~(j > Len(b)) /\ (i - 1) + 1 = i
        BY <1>1, <1>2, <3>3, <3>4
      <4>2. Ch(a, i) = a[i] /\ a[i] # ":"
        BY <1>1, <3>1, <4>1 DEF Ch
      <4>3. i - 1 \notin Params(a)
        BY <4>1, <4>2 DEF Params
      <4> QED BY <3>2, <4>2, <4>3
    <3>6. Ch(a, (i - 1) + 1) = Ch(b, q + 1)
      <4>1. (i - 1) + 1 <= Len(a) + 1 /\ \A l \in 1 .. 1 - 1 : a[(i - 1) + l] # "/"
        BY <1>1, <1>2, <3>1
      <4> QED BY <1>0, <3>1, <3>2, <3>5, <4>1, SegmentSame
    <3>7. (i - 1) + 1 = i /\ q + 1 = j
      BY <1>2, <3>4
    <3> QED BY <3>6, <3>7
  <2>3. CASE Ch(a, i) = "/"
    <3>1. i = n + 1
      BY <1>1, <1>2, <2>1, <2>3 DEF Ch, Plain
    <3>2. j <= m /\ b[j] # "/" /\ j - 1 \in Starts(b)
      BY <1>1, <1>2, <2>1, <2>3 DEF Ch, Starts
    <3>3. PICK x \in Starts(a) : Nth(a, x) = Nth(b, j - 1)
      BY <3>2 DEF Fits
    <3>4. x \in 1 .. n - 1 /\ a[x] = "/"
      BY <1>1, <3>3 DEF Starts
    <3>5. x = i - 1
      BY <1>2, <1>5, <2>1, <3>3, <3>4
    <3> QED BY <3>1, <3>4, <3>5
  <2> QED BY <2>2, <2>3
<1>7. CASE p + 1 < i
  <2>1. p \in Starts(a) /\ p \in 1 .. n - 1
    BY <1>1, <1>2, <1>3, <1>7 DEF Starts
  <2>2. PICK q \in Starts(b) : Paired(a, b, p, q, i, j)
    BY <1>7, <2>1 DEF Good
  <2>3. q \in 1 .. m - 1 /\ b[q] = "/" /\ Nth(a, p) = Nth(b, q)
    BY <1>1, <2>2 DEF Starts, Paired
  <2>4. Open(a, p, i)
    BY <1>2, <1>3, <1>7 DEF Open
  <2>5. a[p + 1] # ":" /\ j - q = i - p
    BY <2>2, <2>4 DEF Paired, Agree
  <2>6. PICK r \in Starts(b) : /\ Nth(a, p) = Nth(b, r)
                               /\ p \in Params(a) \/ Segment(a, p) = Segment(b, r)
    BY <2>1 DEF Fits
  <2>7. r \in 1 .. m - 1 /\ b[r] = "/"
    BY <1>1, <2>6 DEF Starts
  <2>8. r = q /\ Segment(a, p) = Segment(b, q)
    <3>1. r = q
      <4>1. q \in 1 .. m /\ r \in 1 .. m
        BY <2>3, <2>7
      <4>2. Nth(b, q) = Nth(b, r)
        BY <2>3, <2>6
      <4> QED BY <1>4, <2>3, <2>7, <4>1, <4>2
    <3> QED BY <2>5, <2>6, <3>1 DEF Params
  <2>9. PICK k \in Nat \ {0} : k = i - p
    BY <1>2, <1>3
  <2>10. p + k = i /\ q + k = j
    BY <1>2, <2>3, <2>5, <2>9
  <2>11. ASSUME NEW l \in 1 .. k - 1 PROVE a[p + l] # "/"
    <3>1. p + l \in p + 1 .. i - 1
      BY <1>2, <2>9
    <3> QED BY <1>3, <3>1
  <2>12. p + k <= Len(a) + 1
    BY <1>1, <1>2, <2>10
  <2>13. Ch(a, p + k) = Ch(b, q + k)
    BY <1>0, <2>1, <2>2, <2>8, <2>11, <2>12, SegmentSame
  <2> QED BY <2>10, <2>13
<1> QED BY <1>2, <1>3, <1>6, <1>7

(* A character that is the same in both is read. *)
LEMMA ReadLiteral ==
  ASSUME NEW a, NEW b, Plain(a), Plain(b), NEW i, NEW j, Good(a, b, i, j),
         i <= Len(a), j <= Len(b), a[i] # ":", a[i] = b[j]
  PROVE  Good(a, b, i + 1, j + 1)
<1>0. a \in Seq(STRING) /\ b \in Seq(STRING)
  BY DEF Plain
<1>1. PICK n, m \in Nat : n = Len(a) /\ m = Len(b)
  BY <1>0
<1>2. /\ i \in 1 .. n /\ j \in 1 .. m /\ Nth(a, i - 1) = Nth(b, j - 1) /\ (i = 1 <=> j = 1)
      /\ i > 1 => (a[i - 1] = "/" <=> b[j - 1] = "/")
  BY <1>1 DEF Good
<1>3. Nth(a, i) = Nth(b, j)
  <2>1. Nth(a, i) = Nth(a, i - 1) + (IF a[i] = "/" THEN 1 ELSE 0)
    BY <1>0, <1>1, <1>2, NthFacts
  <2>2. Nth(b, j) = Nth(b, j - 1) + (IF b[j] = "/" THEN 1 ELSE 0)
    BY <1>0, <1>1, <1>2, NthFacts
  <2> QED BY <1>2, <2>1, <2>2
<1>4. ASSUME NEW p \in Starts(a), p + 1 < i + 1
      PROVE  \E q \in Starts(b) : Paired(a, b, p, q, i + 1, j + 1)
  <2>1. p \in 1 .. n - 1 /\ a[p] = "/" /\ a[p + 1] # "/"
    BY <1>1 DEF Starts
  <2>2. CASE p + 1 < i
    <3>1. PICK q \in Starts(b) : Paired(a, b, p, q, i, j)
      BY <2>2 DEF Good
    <3>2. q \in 1 .. m - 1 /\ q + 1 < j /\ Nth(a, p) = Nth(b, q)
      BY <1>1, <3>1 DEF Starts, Paired
    <3>3. Open(a, p, i + 1) => Open(a, p, i) /\ a[i] # "/"
      BY <1>2, <2>1, <2>2 DEF Open
    <3>4. CASE a[p + 1] = ":"
      <4>1. Open(a, p, i) => Ch(a, i) = "/"
        BY <3>1, <3>4 DEF Paired
      <4>2. ~Open(a, p, i + 1)
        BY <1>1, <1>2, <3>3, <4>1 DEF Ch
      <4> QED BY <1>2, <3>2, <3>4, <4>2 DEF Paired
    <3>5. CASE a[p + 1] # ":"
      <4>1. Agree(a, b, p, q, i, j)
        BY <3>1, <3>5 DEF Paired
      <4>2. Open(a, p, i) => j - q = i - p
        BY <4>1 DEF Agree
      <4>3. ASSUME NEW k \in 1 .. (i + 1) - p - 1, \A l \in 1 .. k - 1 : a[p + l] # "/"
            PROVE  a[p + k] = b[q + k] /\ q + k < j + 1
        <5>1. CASE k < i - p
          <6>1. k \in 1 .. i - p - 1
            BY <1>2, <2>1, <5>1
          <6>2. a[p + k] = b[q + k] /\ q + k < j
            BY <4>1, <4>3, <6>1 DEF Agree
          <6> QED BY <1>2, <3>2, <6>1, <6>2
        <5>2. CASE k = i - p
          <6>1. ASSUME NEW x \in p + 1 .. i - 1 PROVE a[x] # "/"
            <7>1. x - p \in 1 .. k - 1 /\ p + (x - p) = x
              BY <1>2, <2>1, <5>2
            <7> QED BY <4>3, <7>1
          <6>2. Open(a, p, i)
            BY <1>2, <2>1, <2>2, <6>1 DEF Open
          <6>3. q + k = j /\ p + k = i
            BY <1>2, <2>1, <3>2, <4>2, <5>2, <6>2
          <6> QED BY <1>2, <6>3
        <5> QED BY <1>2, <2>1, <5>1, <5>2
      <4>4. Open(a, p, i + 1) => (j + 1) - q = (i + 1) - p
        BY <1>2, <2>1, <3>2, <3>3, <4>2
      <4>5. Agree(a, b, p, q, i + 1, j + 1)
        BY <4>3, <4>4 DEF Agree
      <4> QED BY <1>2, <3>2, <3>5, <4>5 DEF Paired
    <3> QED BY <3>4, <3>5
  <2>3. CASE p + 1 = i
    <3>1. i > 1 /\ p = i - 1 /\ a[i - 1] = "/" /\ a[i] # "/"
      BY <1>2, <2>1, <2>3
    <3>2. b[j - 1] = "/" /\ b[j] # "/" /\ j > 1
      BY <1>2, <3>1
    <3>3. PICK q \in 1 .. m - 1 : q = j - 1
      BY <1>2, <3>2
    <3>4. q + 1 = j /\ q \in Starts(b)
      BY <1>1, <1>2, <3>2, <3>3 DEF Starts
    <3>5. Agree(a, b, p, q, i + 1, j + 1)
      <4>1. ASSUME NEW k \in 1 .. (i + 1) - p - 1 PROVE a[p + k] = b[q + k] /\ q + k < j + 1
        <5>1. k = 1
          BY <1>2, <2>1, <2>3
        <5> QED BY <1>2, <2>3, <3>4, <5>1
      <4>2. (j + 1) - q = (i + 1) - p
        BY <1>2, <2>1, <2>3, <3>3, <3>4
      <4> QED BY <4>1, <4>2 DEF Agree
    <3>6. a[p + 1] # ":" /\ q + 1 < j + 1 /\ Nth(a, p) = Nth(b, q)
      BY <1>2, <2>3, <3>1, <3>3, <3>4
    <3> QED BY <3>4, <3>5, <3>6 DEF Paired
  <2> QED BY <1>2, <1>4, <2>1, <2>2, <2>3
<1>5. ASSUME NEW q \in Starts(b), q + 1 < j + 1
      PROVE  \E p \in Starts(a) : p + 1 < i + 1 /\ Nth(a, p) = Nth(b, q)
  <2>1. q \in 1 .. m - 1 /\ b[q] = "/" /\ b[q + 1] # "/"
    BY <1>1 DEF Starts
  <2>2. CASE q + 1 < j
    <3>1. PICK p \in Starts(a) : p + 1 < i /\ Nth(a, p) = Nth(b, q)
      BY <2>2 DEF Good
    <3>2. p \in Nat
      BY DEF Starts
    <3> QED BY <1>2, <3>1, <3>2
  <2>3. CASE q + 1 = j
    <3>1. j > 1 /\ q = j - 1 /\ b[j - 1] = "/" /\ b[j] # "/" /\ i > 1
      BY <1>2, <2>1, <2>3
    <3>2. a[i - 1] = "/" /\ a[i] # "/"
      BY <1>2, <3>1
    <3>3. PICK p \in 1 .. n - 1 : p = i - 1
      BY <1>2, <3>1
    <3>4. p + 1 = i /\ p \in Starts(a)
      BY <1>1, <1>2, <3>2, <3>3 DEF Starts
    <3>5. Nth(a, p) = Nth(b, q)
      BY <1>2, <3>1, <3>3
    <3>6. p + 1 < i + 1
      BY <1>2, <3>4
    <3> QED BY <3>4, <3>5, <3>6
  <2> QED BY <1>2, <1>5, <2>1, <2>2, <2>3
<1>6. i + 1 \in 1 .. n + 1 /\ j + 1 \in 1 .. m + 1 /\ (i + 1) - 1 = i /\ (j + 1) - 1 = j
      /\ i + 1 # 1 /\ j + 1 # 1
  BY <1>2
<1> QED BY <1>1, <1>3, <1>4, <1>5, <1>6 DEF Good

(* A parameter is read, and it takes more than nothing of the path. *)
LEMMA ReadParam ==
  ASSUME NEW a, NEW b, IsPattern(a), Plain(b), NEW i, NEW j, Good(a, b, i, j),
         i <= Len(a), j <= Len(b), a[i] = ":",
         NEW e, NEW f, e = SegEnd(a, i + 1), f = SegEnd(b, j)
  PROVE  /\ Good(a, b, e, f) /\ e \in i + 1 .. Len(a) + 1
         /\ i - 1 \in Params(a) /\ j - 1 \in Starts(b) /\ Nth(a, i - 1) = Nth(b, j - 1)
         /\ \A x \in i .. e - 1 : a[x] # "/"
<1>0. a \in Seq(STRING) /\ b \in Seq(STRING) /\ a[1] = "/"
  BY DEF Plain, IsPattern
<1>1. PICK n, m \in Nat : n = Len(a) /\ m = Len(b)
  BY <1>0
<1>2. /\ i \in 1 .. n /\ j \in 1 .. m /\ Nth(a, i - 1) = Nth(b, j - 1) /\ (i = 1 <=> j = 1)
      /\ i > 1 => (a[i - 1] = "/" <=> b[j - 1] = "/")
  BY <1>1 DEF Good
<1>3. i > 1 /\ j > 1 /\ a[i - 1] = "/" /\ b[j - 1] = "/"
  <2>1. i # 1
    BY <1>0
  <2>2. i \in DOMAIN a
    BY <1>0, <1>1, <1>2
  <2>3. a[i - 1] = "/"
    BY <2>2 DEF IsPattern
  <2> QED BY <1>2, <2>1, <2>3
<1>4. b[j] # "/"
  <2>1. j - 1 \in 1 .. Len(b) - 1 /\ (j - 1) + 1 = j
    BY <1>1, <1>2, <1>3
  <2> QED BY <1>3, <2>1 DEF Plain
<1>5. EndsAt(a, i + 1, e)
  <2>1. i + 1 \in 1 .. Len(a) + 1
    BY <1>1, <1>2
  <2> QED BY <1>0, <2>1, SegEndEnds
<1>6. e \in i + 1 .. n + 1 /\ Ch(a, e) = "/" /\ \A x \in i .. e - 1 : a[x] # "/"
  <2>1. /\ e \in i + 1 .. n + 1 /\ (\A x \in i + 1 .. e - 1 : a[x] # "/")
        /\ e <= n => a[e] = "/"
    BY <1>1, <1>5 DEF EndsAt
  <2> QED BY <1>1, <1>2, <2>1 DEF Ch
<1>7. EndsAt(b, j, f)
  <2>1. j \in 1 .. Len(b) + 1
    BY <1>1, <1>2
  <2> QED BY <1>0, <2>1, SegEndEnds
<1>8. f \in j + 1 .. m + 1 /\ Ch(b, f) = "/" /\ \A x \in j .. f - 1 : b[x] # "/"
  <2>1. /\ f \in j .. m + 1 /\ (\A x \in j .. f - 1 : b[x] # "/")
        /\ f <= m => b[f] = "/"
    BY <1>1, <1>7 DEF EndsAt
  <2>2. f # j
    BY <1>2, <1>4, <2>1
  <2> QED BY <1>1, <1>2, <2>1, <2>2 DEF Ch
<1>9. PICK p0 \in 1 .. n - 1 : p0 = i - 1
  BY <1>2, <1>3
<1>10. PICK q0 \in 1 .. m - 1 : q0 = j - 1
  BY <1>2, <1>3
<1>11. p0 + 1 = i /\ q0 + 1 = j /\ p0 \in Starts(a) /\ q0 \in Starts(b) /\ Nth(a, p0) = Nth(b, q0)
       /\ p0 \in Params(a)
  BY <1>1, <1>2, <1>3, <1>4, <1>9, <1>10 DEF Starts, Params
<1>12. Nth(a, e - 1) = Nth(b, f - 1)
  <2>1. Nth(a, p0) = Nth(a, e - 1)
    <3>1. p0 \in 0 .. Len(a) /\ e - 1 \in 0 .. Len(a) /\ p0 <= e - 1 /\ p0 + 1 = i
      BY <1>1, <1>2, <1>6, <1>9
    <3> QED BY <1>0, <1>6, <3>1, NthFacts
  <2>2. Nth(b, q0) = Nth(b, f - 1)
    <3>1. q0 \in 0 .. Len(b) /\ f - 1 \in 0 .. Len(b) /\ q0 <= f - 1 /\ q0 + 1 = j
      BY <1>1, <1>2, <1>8, <1>10
    <3> QED BY <1>0, <1>8, <3>1, NthFacts
  <2> QED BY <1>11, <2>1, <2>2
<1>13. a[e - 1] # "/" /\ b[f - 1] # "/"
  <2>1. e - 1 \in i .. e - 1 /\ f - 1 \in j .. f - 1
    BY <1>2, <1>6, <1>8
  <2> QED BY <1>6, <1>8, <2>1
<1>14. ASSUME NEW p \in Starts(a), p + 1 < e
       PROVE  \E q \in Starts(b) : Paired(a, b, p, q, e, f)
  <2>1. p \in 1 .. n - 1 /\ a[p] = "/"
    BY <1>1 DEF Starts
  <2>2. CASE p + 1 < i
    <3>1. PICK q \in Starts(b) : Paired(a, b, p, q, i, j)
      BY <2>2 DEF Good
    <3>2. q \in 1 .. m - 1 /\ q + 1 < j /\ Nth(a, p) = Nth(b, q)
      BY <1>1, <3>1 DEF Starts, Paired
    <3>3. ~Open(a, p, e)
      <4>1. i - 1 \in p + 1 .. e - 1
        BY <1>2, <1>6, <2>1, <2>2
      <4> QED BY <1>3, <4>1 DEF Open
    <3>4. a[p + 1] # ":" => Agree(a, b, p, q, e, f)
      <4> SUFFICES ASSUME a[p + 1] # ":",
                          NEW k \in 1 .. e - p - 1, \A l \in 1 .. k - 1 : a[p + l] # "/"
                   PROVE  a[p + k] = b[q + k] /\ q + k < f
        BY <3>3 DEF Agree
      <4>1. k \in 1 .. i - p - 1
        <5> SUFFICES ASSUME i - p - 1 < k PROVE FALSE
          BY <1>2, <2>1
        <5>1. i - p - 1 \in 1 .. k - 1 /\ p + (i - p - 1) = i - 1
          BY <1>2, <2>1, <2>2
        <5> QED BY <1>3, <5>1
      <4>2. a[p + k] = b[q + k] /\ q + k < j
        BY <3>1, <4>1 DEF Paired, Agree
      <4> QED BY <1>2, <1>8, <3>2, <4>1, <4>2
    <3>5. q + 1 < f
      BY <1>2, <1>8, <3>2
    <3> QED BY <3>2, <3>3, <3>4, <3>5 DEF Paired
  <2>3. CASE p + 1 = i
    <3>1. p = p0 /\ a[p + 1] = ":" /\ q0 + 1 < f
      BY <1>2, <1>8, <1>9, <1>10, <2>1, <2>3
    <3>2. Paired(a, b, p, q0, e, f)
      BY <1>6, <1>8, <1>11, <3>1 DEF Paired
    <3> QED BY <1>11, <3>2
  <2>4. CASE i < p + 1
    <3>1. p \in i .. e - 1
      BY <1>2, <1>6, <1>14, <2>1, <2>4
    <3> QED BY <1>6, <2>1, <3>1
  <2> QED BY <1>2, <2>1, <2>2, <2>3, <2>4
<1>15. ASSUME NEW q \in Starts(b), q + 1 < f
       PROVE  \E p \in Starts(a) : p + 1 < e /\ Nth(a, p) = Nth(b, q)
  <2>1. q \in 1 .. m - 1 /\ b[q] = "/"
    BY <1>1 DEF Starts
  <2>2. CASE q + 1 < j
    <3>1. PICK p \in Starts(a) : p + 1 < i /\ Nth(a, p) = Nth(b, q)
      BY <2>2 DEF Good
    <3>2. p \in Nat
      BY DEF Starts
    <3> QED BY <1>2, <1>6, <3>1, <3>2
  <2>3. CASE q + 1 = j
    <3>1. q = q0 /\ p0 + 1 < e
      BY <1>2, <1>6, <1>9, <1>10, <2>1, <2>3
    <3> QED BY <1>11, <3>1
  <2>4. CASE j < q + 1
    <3>1. q \in j .. f - 1
      BY <1>2, <1>8, <1>15, <2>1, <2>4
    <3> QED BY <1>8, <2>1, <3>1
  <2> QED BY <1>2, <2>1, <2>2, <2>3, <2>4
<1>16. e \in 1 .. n + 1 /\ f \in 1 .. m + 1 /\ e # 1 /\ f # 1
  BY <1>2, <1>6, <1>8
<1>17. Good(a, b, e, f)
  BY <1>1, <1>12, <1>13, <1>14, <1>15, <1>16 DEF Good
<1> QED BY <1>1, <1>6, <1>9, <1>10, <1>11, <1>17

(* Where one of the two texts has ended: the rest is slashes if and only if *)
(* the pattern fits.                                                        *)
LEMMA EndSegments ==
  ASSUME NEW a, NEW b, Plain(a), Plain(b), NEW i, NEW j, Good(a, b, i, j),
         Slashes(a, i), Slashes(b, j)
  PROVE  Fits(a, b)
<1>0. a \in Seq(STRING) /\ b \in Seq(STRING)
  BY DEF Plain
<1>1. PICK n, m \in Nat : n = Len(a) /\ m = Len(b)
  BY <1>0
<1>2. i \in 1 .. n + 1 /\ j \in 1 .. m + 1
  BY <1>1 DEF Good
<1>3. (\A x \in i .. n : a[x] = "/") /\ (\A x \in j .. m : b[x] = "/")
  BY <1>1 DEF Slashes
<1>4. ASSUME NEW p \in Starts(a)
      PROVE  \E q \in Starts(b) : /\ Nth(a, p) = Nth(b, q)
                                  /\ p \in Params(a) \/ Segment(a, p) = Segment(b, q)
  <2>1. p \in 1 .. n - 1 /\ a[p + 1] # "/"
    BY <1>1 DEF Starts
  <2>2. p + 1 < i
    BY <1>2, <1>3, <2>1
  <2>3. PICK q \in Starts(b) : Paired(a, b, p, q, i, j)
    BY <2>2 DEF Good
  <2>4. q \in 1 .. m - 1 /\ q + 1 < j /\ Nth(a, p) = Nth(b, q)
    BY <1>1, <2>3 DEF Starts, Paired
  <2>5. CASE a[p + 1] = ":"
    BY <2>3, <2>4, <2>5 DEF Params
  <2>6. CASE a[p + 1] # ":"
    <3>1. PICK L : L = SegEnd(a, p + 1) - p
      OBVIOUS
    <3>2. /\ L \in Nat \ {0} /\ p + L \in p + 1 .. n + 1 /\ Ch(a, p + L) = "/"
          /\ \A k \in 1 .. L - 1 : a[p + k] # "/" /\ p + k <= n
      BY <1>0, <1>1, <3>1, SegmentText
    <3>3. Agree(a, b, p, q, i, j)
      BY <2>3, <2>6 DEF Paired
    <3>4. L # 1
      BY <1>1, <2>1, <3>2 DEF Ch
    <3>5. p + L <= i
      <4>1. L - 1 \in 1 .. L - 1 /\ p + (L - 1) \in Nat
        BY <2>1, <3>2, <3>4
      <4>2. a[p + (L - 1)] # "/" /\ p + (L - 1) <= n
        BY <3>2, <4>1
      <4>3. p + (L - 1) < i
        BY <1>2, <1>3, <4>1, <4>2
      <4> QED BY <1>2, <2>1, <3>2, <4>3
    <3>6. ASSUME NEW k \in 1 .. L, p + k < i PROVE a[p + k] = b[q + k] /\ q + k < j
      <4>1. k \in 1 .. i - p - 1
        BY <1>2, <2>1, <3>2, <3>6
      <4>2. \A l \in 1 .. k - 1 : a[p + l] # "/"
        BY <3>2
      <4> QED BY <3>3, <4>1, <4>2 DEF Agree
    <3>7. ASSUME NEW k \in 1 .. L - 1 PROVE a[p + k] # "/" /\ a[p + k] = b[q + k]
      <4>1. k \in 1 .. L /\ p + k < i
        BY <1>2, <2>1, <3>2, <3>5
      <4> QED BY <3>2, <3>6, <4>1
    <3>8. Ch(b, q + L) = "/" /\ q + L <= m + 1
      <4>1. CASE p + L < i
        <5>1. L \in 1 .. L /\ p + L <= n
          BY <1>2, <2>1, <3>2, <4>1
        <5>2. a[p + L] = b[q + L] /\ q + L < j /\ a[p + L] = "/"
          BY <1>1, <3>2, <3>6, <4>1, <5>1 DEF Ch
        <5>3. q + L <= m
          BY <1>2, <2>4, <3>2, <5>2
        <5> QED BY <1>1, <2>4, <3>2, <5>2, <5>3 DEF Ch
      <4>2. CASE p + L = i
        <5>1. \A x \in p + 1 .. i - 1 : a[x] # "/"
          <6> SUFFICES ASSUME NEW x \in p + 1 .. i - 1 PROVE a[x] # "/"
            OBVIOUS
          <6>1. x - p \in 1 .. L - 1 /\ p + (x - p) = x
            BY <1>2, <2>1, <3>2, <4>2
          <6> QED BY <3>2, <6>1
        <5>2. Open(a, p, i)
          BY <1>2, <2>1, <2>2, <5>1 DEF Open
        <5>3. q + L = j
          BY <1>2, <2>1, <2>4, <3>2, <3>3, <4>2, <5>2 DEF Agree
        <5> QED BY <1>1, <1>2, <1>3, <5>3 DEF Ch
      <4> QED BY <1>2, <2>1, <3>2, <3>5, <4>1, <4>2
    <3>9. p + L <= Len(a) + 1 /\ q + L <= Len(b) + 1
      BY <1>1, <2>1, <3>2, <3>8
    <3>10. Segment(a, p) = Segment(b, q)
      BY <1>0, <2>3, <3>2, <3>7, <3>8, <3>9, SegmentMade
    <3> QED BY <2>3, <2>4, <3>10
  <2> QED BY <2>5, <2>6
<1>5. ASSUME NEW q \in Starts(b) PROVE \E p \in Starts(a) : Nth(a, p) = Nth(b, q)
  <2>1. q \in 1 .. m - 1 /\ b[q + 1] # "/"
    BY <1>1 DEF Starts
  <2>2. q + 1 < j
    BY <1>2, <1>3, <2>1
  <2> QED BY <2>2 DEF Good
<1> QED BY <1>4, <1>5 DEF Fits

(* A text that goes on behind the end of the other has a segment too many. *)
LEMMA EndTooLong ==
  ASSUME NEW a, NEW b, Plain(a), Plain(b), NEW i, NEW j, i > Len(a),
         i \in 1 .. Len(a) + 1, j \in 1 .. Len(b), Nth(a, i - 1) = Nth(b, j - 1),
         b[j] = "/", ~Slashes(b, j)
  PROVE  j \in Starts(b) /\ \A p \in Starts(a) : Nth(a, p) # Nth(b, j)
<1>0. a \in Seq(STRING) /\ b \in Seq(STRING)
  BY DEF Plain
<1>1. PICK n, m \in Nat : n = Len(a) /\ m = Len(b)
  BY <1>0
<1>2. PICK x \in j .. m : b[x] # "/"
  BY <1>1 DEF Slashes
<1>3. j \in 1 .. m - 1
  BY <1>1, <1>2
<1>4. j \in Starts(b)
  BY <1>1, <1>3 DEF Starts, Plain
<1>5. ASSUME NEW p \in Starts(a) PROVE Nth(a, p) # Nth(b, j)
  <2>1. p \in 0 .. n /\ n \in 0 .. n /\ p <= n /\ i - 1 = n
    BY <1>1 DEF Starts
  <2>2. Nth(a, p) <= Nth(a, n) /\ Nth(a, p) \in Nat /\ Nth(a, n) \in Nat
    BY <1>0, <1>1, <2>1, NthFacts
  <2>3. Nth(b, j) = Nth(b, j - 1) + 1
    BY <1>0, <1>1, <1>3, NthFacts
  <2> QED BY <2>1, <2>2, <2>3
<1> QED BY <1>4, <1>5

(* The test behind the loop of route_matches. *)
LEMMA EndRight ==
  ASSUME NEW a, NEW b, Plain(a), Plain(b), NEW i, NEW j, Good(a, b, i, j),
         i > Len(a) \/ j > Len(b)
  PROVE  Slashes(a, i) /\ Slashes(b, j) <=> Fits(a, b)
<1> SUFFICES ASSUME Fits(a, b) PROVE Slashes(a, i) /\ Slashes(b, j)
  BY EndSegments
<1>0. a \in Seq(STRING) /\ b \in Seq(STRING) /\ a # << >> /\ b # << >>
  BY DEF Plain
<1>1. PICK n, m \in Nat : n = Len(a) /\ m = Len(b)
  BY <1>0
<1>2. i \in 1 .. n + 1 /\ j \in 1 .. m + 1 /\ Nth(a, i - 1) = Nth(b, j - 1) /\ (i = 1 <=> j = 1)
  BY <1>1 DEF Good
<1>3. i > 1 /\ n # 0 /\ m # 0
  BY <1>0, <1>1, <1>2
<1>4. CASE i > n /\ j > m
  BY <1>1, <1>2, <1>4 DEF Slashes
<1>5. CASE i > n /\ j <= m
  <2>1. Ch(a, i) = "/" /\ Ch(b, j) = b[j]
    BY <1>1, <1>2, <1>5 DEF Ch
  <2>2. b[j] = "/"
    <3>1. Ch(a, i) # ":"
      BY <2>1
    <3> QED BY <1>3, <2>1, <3>1, Stuck
  <2>3. Slashes(b, j)
    <3> SUFFICES ASSUME ~Slashes(b, j) PROVE FALSE
      OBVIOUS
    <3>1. i > Len(a) /\ i \in 1 .. Len(a) + 1 /\ j \in 1 .. Len(b)
      BY <1>1, <1>2, <1>5
    <3>2. j \in Starts(b) /\ \A p \in Starts(a) : Nth(a, p) # Nth(b, j)
      BY <1>2, <2>2, <3>1, EndTooLong
    <3> QED BY <3>2 DEF Fits
  <2>4. Slashes(a, i)
    BY <1>1, <1>2, <1>5 DEF Slashes
  <2> QED BY <2>3, <2>4
<1>6. CASE i <= n /\ j > m
  <2>1. Ch(b, j) = "/" /\ Ch(a, i) = a[i] /\ j > Len(b)
    BY <1>1, <1>2, <1>6 DEF Ch
  <2>2. a[i] = "/"
    BY <1>3, <2>1, Stuck
  <2>3. Slashes(a, i)
    <3> SUFFICES ASSUME ~Slashes(a, i) PROVE FALSE
      OBVIOUS
    <3>1. j > Len(b) /\ j \in 1 .. Len(b) + 1 /\ i \in 1 .. Len(a)
      BY <1>1, <1>2, <1>6
    <3>2. i \in Starts(a) /\ \A q \in Starts(b) : Nth(b, q) # Nth(a, i)
      BY <1>2, <2>2, <3>1, EndTooLong
    <3> QED BY <3>2 DEF Fits
  <2>4. Slashes(b, j)
    BY <1>1, <1>2, <1>6 DEF Slashes
  <2> QED BY <2>3, <2>4
<1> QED BY <1>1, <1>2, <1>4, <1>5, <1>6

-----------------------------------------------------------------------------
(* The parameters the match has passed. *)
Done(a, i) == {p \in Params(a) : p + 1 < i}

(* One more parameter, behind the others: it takes the place of one of the  *)
(* same name.                                                               *)
LEMMA BindNext ==
  ASSUME NEW a, NEW b, NEW D \in SUBSET Nat, NEW p \in Nat, \A x \in D : x < p
  PROVE  Bind(BoundOf(a, b, D), One(Name(a, p), Segment(b, Partner(a, b, p))))
           = BoundOf(a, b, D \cup {p})
<1> DEFINE E == D \cup {p}
           F(S, y) == {x \in S : Name(a, x) = y}
           Val(x) == Segment(b, Partner(a, b, x))
           Doms(S) == {Name(a, x) : x \in S}
<1>1. PICK old : old = BoundOf(a, b, D)
  OBVIOUS
<1>2. PICK one : one = One(Name(a, p), Val(p))
  OBVIOUS
<1>3. DOMAIN old = Doms(D) /\ \A y \in Doms(D) : old[y] = Val(Max(F(D, y)))
  BY <1>1, Zenon DEF BoundOf
<1>4. DOMAIN one = {Name(a, p)} /\ one[Name(a, p)] = Val(p)
  BY <1>2, Zenon DEF One
<1>5. Max(F(E, Name(a, p))) = p
  <2>1. PICK S : S = F(E, Name(a, p))
    OBVIOUS
  <2>2. p \in S /\ S \subseteq E
    BY <2>1
  <2>3. \A y \in S : p >= y
    BY <2>2
  <2>4. ASSUME NEW x \in S, \A y \in S : x >= y PROVE x = p
    <3>1. x >= p /\ p >= x /\ x \in Nat
      BY <2>2, <2>3, <2>4
    <3> QED BY <3>1
  <2>5. Max(S) = p
    BY <2>2, <2>3, <2>4 DEF Max
  <2> QED BY <2>1, <2>5
<1>6. ASSUME NEW y, y # Name(a, p) PROVE F(E, y) = F(D, y)
  BY <1>6
<1>7. Doms(E) = Doms(D) \cup {Name(a, p)}
  OBVIOUS
<1>8. ASSUME NEW y \in Doms(E)
      PROVE  (IF y \in DOMAIN one THEN one[y] ELSE old[y]) = Val(Max(F(E, y)))
  <2>1. CASE y = Name(a, p)
    BY <1>4, <1>5, <2>1
  <2>2. CASE y # Name(a, p)
    <3>1. y \in Doms(D)
      BY <1>7, <2>2
    <3>2. F(E, y) = F(D, y)
      BY <1>6, <2>2
    <3> HIDE DEF F, Doms, Val
    <3> QED BY <1>3, <1>4, <2>2, <3>1, <3>2
  <2> QED BY <2>1, <2>2
<1>9. Bind(old, one) = [y \in Doms(E) |-> IF y \in DOMAIN one THEN one[y] ELSE old[y]]
  <2>1. DOMAIN old \cup DOMAIN one = Doms(E)
    BY <1>3, <1>4, <1>7
  <2> HIDE DEF Doms
  <2> QED BY <2>1, Zenon DEF Bind
<1>10. BoundOf(a, b, E) = [y \in Doms(E) |-> Val(Max(F(E, y)))]
  BY Zenon DEF BoundOf
<1>11. [y \in Doms(E) |-> IF y \in DOMAIN one THEN one[y] ELSE old[y]]
         = [y \in Doms(E) |-> Val(Max(F(E, y)))]
  <2> HIDE DEF F, Doms, Val, E
  <2> QED BY <1>8, Zenon
<1>12. Bind(old, one) = BoundOf(a, b, E)
  BY <1>9, <1>10, <1>11, Zenon
<1> QED BY <1>1, <1>2, <1>12, Zenon

(* The text from c up to where its segment ends. *)
Rest(s, c) == SubSeq(s, c, SegEnd(s, c) - 1)

(* What a round at a parameter does to the bound parameters. *)
LEMMA BindParam ==
  ASSUME NEW a, NEW b, IsPattern(a), Plain(b), NEW i, NEW j, Good(a, b, i, j),
         i <= Len(a), j <= Len(b), a[i] = ":",
         NEW e, NEW f, e = SegEnd(a, i + 1), f = SegEnd(b, j)
  PROVE  Bind(BoundOf(a, b, Done(a, i)), One(Rest(a, i + 1), Rest(b, j))) = BoundOf(a, b, Done(a, e))
<1>0. a \in Seq(STRING) /\ b \in Seq(STRING) /\ i \in Nat /\ j \in Nat
  BY DEF Plain, IsPattern, Good
<1>1. PICK n, m \in Nat : n = Len(a) /\ m = Len(b)
  BY <1>0
<1>2. /\ e \in i + 1 .. n + 1 /\ i - 1 \in Params(a) /\ j - 1 \in Starts(b)
      /\ Nth(a, i - 1) = Nth(b, j - 1) /\ \A x \in i .. e - 1 : a[x] # "/"
  <2>1. e \in i + 1 .. Len(a) + 1
    BY ReadParam, Zenon
  <2>2. i - 1 \in Params(a) /\ j - 1 \in Starts(b)
    BY ReadParam, Zenon
  <2>3. Nth(a, i - 1) = Nth(b, j - 1)
    BY DEF Good
  <2>4. \A x \in i .. e - 1 : a[x] # "/"
    BY ReadParam, Zenon
  <2> QED BY <1>1, <2>1, <2>2, <2>3, <2>4
<1>3. PICK p, q : p = i - 1 /\ q = j - 1
  OBVIOUS
<1>4. p \in 1 .. n - 1 /\ q \in 1 .. m - 1 /\ b[q] = "/" /\ p + 1 = i /\ p + 2 = i + 1 /\ q + 1 = j
  BY <1>0, <1>1, <1>2, <1>3 DEF Params, Starts
<1>5. Done(a, e) = Done(a, i) \cup {p}
  <2>1. ASSUME NEW x \in Params(a), x + 1 < e PROVE x + 1 < i \/ x = p
    <3>1. x \in 1 .. n - 1 /\ a[x] = "/"
      BY <1>1 DEF Params, Starts
    <3>2. x \notin i .. e - 1
      BY <1>2, <3>1
    <3> QED BY <1>0, <1>1, <1>2, <1>3, <2>1, <3>1, <3>2
  <2>2. ASSUME NEW x \in Params(a), x + 1 < i PROVE x + 1 < e
    <3>1. x \in Nat
      BY DEF Params, Starts
    <3> QED BY <1>0, <1>1, <1>2, <2>2, <3>1
  <2>3. p \in Params(a) /\ p + 1 < e
    BY <1>0, <1>1, <1>2, <1>3
  <2> QED BY <2>1, <2>2, <2>3 DEF Done
<1>6. Done(a, i) \in SUBSET Nat /\ \A x \in Done(a, i) : x < p
  <2>1. ASSUME NEW x \in Done(a, i) PROVE x \in Nat /\ x < p
    <3>1. x \in Nat /\ x + 1 < i
      BY DEF Done, Params, Starts
    <3> QED BY <1>0, <1>3, <3>1
  <2> QED BY <2>1
<1>7. Partner(a, b, p) = q
  <2>1. q \in Starts(b) /\ Nth(a, p) = Nth(b, q)
    BY <1>2, <1>3
  <2>2. ASSUME NEW r \in Starts(b), Nth(a, p) = Nth(b, r) PROVE r = q
    <3>1. r \in 1 .. Len(b) /\ q \in 1 .. Len(b) /\ b[r] = "/" /\ Nth(b, r) = Nth(b, q)
      BY <1>1, <1>4, <2>1, <2>2 DEF Starts
    <3> QED BY <1>0, <1>4, <3>1, NthKnows
  <2> QED BY <2>1, <2>2 DEF Partner
<1>8. Name(a, p) = Rest(a, i + 1)
  <2>1. Name(a, p) = Rest(a, p + 2)
    BY DEF Name, Rest
  <2> QED BY <1>4, <2>1
<1>9. Segment(b, q) = Rest(b, j)
  <2>1. Segment(b, q) = Rest(b, q + 1)
    BY DEF Segment, Rest
  <2> QED BY <1>4, <2>1
<1>10. p \in Nat
  BY <1>4
<1>11. Bind(BoundOf(a, b, Done(a, i)), One(Name(a, p), Segment(b, Partner(a, b, p))))
         = BoundOf(a, b, Done(a, i) \cup {p})
  BY <1>6, <1>10, BindNext
<1> QED BY <1>5, <1>7, <1>8, <1>9, <1>11

(* f is what the rounds of the loop of route_matches come to. *)
Walked(f, a, b) ==
  /\ f[0] = [i |-> 1, j |-> 1, params |-> Empty, ok |-> TRUE]
  /\ \A k \in 1 .. Len(a) : f[k] = Round(a, b, f[k - 1])

(* The recursive function of Walk exists, so its equations hold. *)
LEMMA WalkRounds ==
  ASSUME NEW a \in Seq(STRING), NEW b
  PROVE  Walked(Walk(a, b, Empty), a, b)
<1> DEFINE Zero == [i |-> 1, j |-> 1, params |-> Empty, ok |-> TRUE]
           Is(v, n) == v = [k \in 0 .. n |-> IF k = 0 THEN Zero ELSE Round(a, b, v[k - 1])]
           Bad == {n \in Nat : ~ \E v : Is(v, n)}
<1>1. Len(a) \in Nat
  OBVIOUS
<1> HIDE DEF Zero
<1>2. Bad = {}
  <2> SUFFICES ASSUME Bad # {} PROVE FALSE
    OBVIOUS
  <2>1. Bad \in SUBSET Nat
    OBVIOUS
  <2> HIDE DEF Bad
  <2>2. PICK m \in Bad : \A x \in Bad : m <= x
    BY <2>1, LeastElement
  <2> USE DEF Bad
  <2>3. m \in Nat /\ ~ \E v : Is(v, m)
    BY <2>2
  <2>4. m # 0
    <3>1. Is([k \in 0 .. 0 |-> Zero], 0)
      OBVIOUS
    <3> QED BY <2>3, <3>1
  <2>5. m - 1 \in Nat /\ ~(m <= m - 1)
    BY <2>3, <2>4
  <2>6. PICK v : Is(v, m - 1)
    BY <2>2, <2>5
  <2> DEFINE x == Round(a, b, v[m - 1])
             w == [k \in 0 .. m |-> IF k = m THEN x ELSE v[k]]
  <2>7. \A k \in 0 .. m : k # 0 => k - 1 \in 0 .. m - 1 /\ w[k - 1] = v[k - 1]
    BY <2>3
  <2>8. ASSUME NEW k \in 0 .. m PROVE w[k] = IF k = 0 THEN Zero ELSE Round(a, b, w[k - 1])
    <3>1. CASE k = m
      BY <2>4, <2>7, <3>1
    <3>2. CASE k # m
      <4>1. k \in 0 .. m - 1
        BY <2>3, <3>2
      <4>2. v[k] = IF k = 0 THEN Zero ELSE Round(a, b, v[k - 1])
        BY <2>6, <4>1
      <4>3. w[k] = v[k]
        BY <3>2
      <4> QED BY <2>7, <4>2, <4>3
    <3> QED BY <3>1, <3>2
  <2> HIDE DEF x
  <2>9. Is(w, m)
    BY <2>8
  <2> QED BY <2>3, <2>9
<1>3. \E v : Is(v, Len(a))
  BY <1>1, <1>2
<1>4. PICK f : f = Walk(a, b, Empty)
  OBVIOUS
<1>5. Is(f, Len(a))
  <2> USE DEF Zero
  <2> QED BY <1>3, <1>4 DEF Walk
<1>6. PICK N \in Nat : N = Len(a)
  BY <1>1
<1>7. f[0] = Zero /\ \A k \in 1 .. N : f[k] = Round(a, b, f[k - 1])
  BY <1>5, <1>6
<1> QED BY <1>4, <1>6, <1>7 DEF Walked, Zero

(* Where the loop may be after k rounds. *)
Reached(a, b, at, k) ==
  /\ at = [x \in {"i", "j", "params", "ok"} |-> at[x]]
  /\ at.ok \in BOOLEAN
  /\ at.ok => /\ Good(a, b, at.i, at.j)
              /\ at.params = BoundOf(a, b, Done(a, at.i))
              /\ at.i > k \/ at.i > Len(a) \/ at.j > Len(b)
  /\ ~at.ok => ~Fits(a, b)

(* Before the first round. *)
LEMMA WalkStarts ==
  ASSUME NEW a, NEW b, Plain(a), Plain(b)
  PROVE  Reached(a, b, [i |-> 1, j |-> 1, params |-> Empty, ok |-> TRUE], 0)
<1>0. a \in Seq(STRING) /\ b \in Seq(STRING)
  BY DEF Plain
<1>1. PICK n, m \in Nat : n = Len(a) /\ m = Len(b)
  BY <1>0
<1>2. \A s \in Seq(STRING) : \A p \in Starts(s) : ~(p + 1 < 1)
  BY DEF Starts
<1>3. Nth(a, 1 - 1) = Nth(b, 1 - 1)
  <2>1. Nth(a, 0) = 0 /\ Nth(b, 0) = 0
    BY <1>0, NthFacts
  <2> QED BY <2>1
<1>4. Good(a, b, 1, 1)
  BY <1>0, <1>1, <1>2, <1>3 DEF Good
<1>5. Done(a, 1) = {}
  BY <1>0, <1>2 DEF Done, Params
<1>6. BoundOf(a, b, {}) = Empty
  <2>1. {Name(a, x) : x \in {}} = {}
    OBVIOUS
  <2> QED BY <2>1 DEF BoundOf, Empty
<1> QED BY <1>4, <1>5, <1>6 DEF Reached

(* One round. *)
LEMMA WalkGoesOn ==
  ASSUME NEW a, NEW b, IsPattern(a), Plain(b), NEW k \in Nat, NEW at, Reached(a, b, at, k)
  PROVE  Reached(a, b, Round(a, b, at), k + 1)
<1>0. a \in Seq(STRING) /\ b \in Seq(STRING) /\ Plain(a) /\ a[1] = "/" /\ b[1] = "/"
  BY DEF Plain, IsPattern
<1>1. PICK n, m \in Nat : n = Len(a) /\ m = Len(b)
  BY <1>0
<1>2. PICK i, j, ps : i = at.i /\ j = at.j /\ ps = at.params
  OBVIOUS
<1>3. PICK to : to = Round(a, b, at)
  OBVIOUS
<1>4. at = [x \in {"i", "j", "params", "ok"} |-> at[x]] /\ at.ok \in BOOLEAN
  BY DEF Reached
<1>5. CASE ~at.ok
  <2>1. to = at
    BY <1>3, <1>5 DEF Round
  <2> QED BY <1>3, <1>5, <2>1 DEF Reached
<1>6. CASE at.ok
  <2>1. /\ Good(a, b, i, j) /\ ps = BoundOf(a, b, Done(a, i)) /\ (i > k \/ i > n \/ j > m)
        /\ i \in 1 .. n + 1 /\ j \in 1 .. m + 1
    BY <1>1, <1>2, <1>6 DEF Reached, Good
  <2>2. CASE i > n \/ j > m
    <3>1. to = at
      BY <1>1, <1>2, <1>3, <2>2 DEF Round
    <3>2. at.i > Len(a) \/ at.j > Len(b)
      BY <1>1, <1>2, <2>2
    <3> QED BY <1>3, <1>6, <3>1, <3>2 DEF Reached
  <2>3. CASE i <= n /\ j <= m /\ a[i] = ":"
    <3>1. PICK e, f : e = SegEnd(a, i + 1) /\ f = SegEnd(b, j)
      OBVIOUS
    <3>2. PICK qs : qs = Bind(ps, One(Rest(a, i + 1), Rest(b, j)))
      OBVIOUS
    <3>3. to = [at EXCEPT !.i = e, !.j = f, !.params = qs]
      <4>1. ~(~at.ok \/ at.i > Len(a) \/ at.j > Len(b)) /\ a[at.i] = ":"
        BY <1>1, <1>2, <1>6, <2>1, <2>3
      <4>2. to = [at EXCEPT !.i = SegEnd(a, at.i + 1), !.j = SegEnd(b, at.j),
                            !.params = Bind(@, One(SubSeq(a, at.i + 1, SegEnd(a, at.i + 1) - 1),
                                                   SubSeq(b, at.j, SegEnd(b, at.j) - 1)))]
        BY <1>3, <4>1, Zenon DEF Round
      <4> QED BY <1>2, <3>1, <3>2, <4>2, Zenon DEF Rest
    <3>4. to = [x \in {"i", "j", "params", "ok"} |-> to[x]] /\ to.i = e /\ to.j = f
          /\ to.params = qs /\ to.ok
      BY <1>4, <1>6, <3>3
    <3>5. i <= Len(a) /\ j <= Len(b) /\ a[i] = ":"
      BY <1>1, <2>3
    <3>6. Good(a, b, e, f) /\ e \in i + 1 .. Len(a) + 1
      BY <2>1, <3>1, <3>5, ReadParam, Zenon
    <3>7. qs = BoundOf(a, b, Done(a, e))
      BY <2>1, <3>1, <3>2, <3>5, BindParam, Zenon
    <3>8. e > k + 1
      BY <1>1, <2>1, <2>3, <3>6
    <3> QED BY <1>3, <3>4, <3>6, <3>7, <3>8 DEF Reached
  <2>4. CASE i <= n /\ j <= m /\ a[i] # ":" /\ a[i] = b[j]
    <3>1. to = [at EXCEPT !.i = i + 1, !.j = j + 1]
      BY <1>1, <1>2, <1>3, <1>4, <1>6, <2>1, <2>4 DEF Round
    <3>2. to = [x \in {"i", "j", "params", "ok"} |-> to[x]] /\ to.i = i + 1 /\ to.j = j + 1
          /\ to.params = ps /\ to.ok
      BY <1>2, <1>4, <1>6, <3>1
    <3>3. Good(a, b, i + 1, j + 1)
      <4>1. i <= Len(a) /\ j <= Len(b)
        BY <1>1, <2>4
      <4> QED BY <1>0, <2>1, <2>4, <4>1, ReadLiteral
    <3>4. Done(a, i + 1) = Done(a, i)
      <4>1. ASSUME NEW p \in Params(a) PROVE p + 1 < i + 1 <=> p + 1 < i
        <5>1. p \in Nat /\ a[p + 1] = ":"
          BY DEF Params, Starts
        <5>2. p + 1 # i
          BY <2>4, <5>1
        <5> QED BY <2>1, <5>1, <5>2
      <4> QED BY <4>1 DEF Done
    <3>5. i + 1 > k + 1
      BY <1>1, <2>1, <2>4
    <3> QED BY <1>3, <2>1, <3>2, <3>3, <3>4, <3>5 DEF Reached
  <2>5. CASE i <= n /\ j <= m /\ a[i] # ":" /\ a[i] # b[j]
    <3>1. to = [at EXCEPT !.ok = FALSE]
      BY <1>1, <1>2, <1>3, <1>4, <1>6, <2>1, <2>5 DEF Round
    <3>2. to = [x \in {"i", "j", "params", "ok"} |-> to[x]] /\ to.ok = FALSE
      BY <1>4, <3>1
    <3>3. i > 1
      <4>1. i = 1 => j = 1
        BY <2>1 DEF Good
      <4> QED BY <1>0, <2>1, <2>5, <4>1
    <3>4. Ch(a, i) = a[i] /\ Ch(b, j) = b[j]
      BY <1>1, <2>5 DEF Ch
    <3>5. ~Fits(a, b)
      BY <1>0, <2>1, <2>5, <3>3, <3>4, Stuck
    <3> QED BY <1>3, <3>2, <3>5 DEF Reached
  <2> QED BY <2>1, <2>2, <2>3, <2>4, <2>5
<1> QED BY <1>4, <1>5, <1>6

(* route_matches accepts the paths a pattern fits and binds the segments    *)
(* its parameters stand for.                                                *)
LEMMA MatchesRight ==
  ASSUME NEW a, NEW b, IsPattern(a), Plain(b)
  PROVE  /\ Matches(a, b, Empty).ok <=> Fits(a, b)
         /\ Fits(a, b) => Matches(a, b, Empty).params = Bound(a, b)
<1>0. a \in Seq(STRING) /\ b \in Seq(STRING) /\ Plain(a)
  BY DEF Plain, IsPattern
<1>1. PICK n \in Nat : n = Len(a)
  BY <1>0
<1>2. PICK f : f = Walk(a, b, Empty)
  OBVIOUS
<1>3. /\ f[0] = [i |-> 1, j |-> 1, params |-> Empty, ok |-> TRUE]
      /\ \A k \in 1 .. n : f[k] = Round(a, b, f[k - 1])
  BY <1>0, <1>1, <1>2, WalkRounds DEF Walked
<1> DEFINE Off == {k \in Nat : k <= n /\ ~Reached(a, b, f[k], k)}
<1>4. Off = {}
  <2> SUFFICES ASSUME Off # {} PROVE FALSE
    OBVIOUS
  <2>1. Off \in SUBSET Nat
    OBVIOUS
  <2> HIDE DEF Off
  <2>2. PICK k \in Off : \A x \in Off : k <= x
    BY <2>1, LeastElement
  <2> USE DEF Off
  <2>3. k \in Nat /\ k <= n /\ ~Reached(a, b, f[k], k)
    BY <2>2
  <2>4. k # 0
    <3>1. Reached(a, b, f[0], 0)
      BY <1>0, <1>3, WalkStarts
    <3> QED BY <2>3, <3>1
  <2>5. k - 1 \in Nat /\ k - 1 <= n /\ ~(k <= k - 1) /\ k \in 1 .. n /\ (k - 1) + 1 = k
    BY <1>1, <2>3, <2>4
  <2>6. Reached(a, b, f[k - 1], k - 1)
    BY <2>2, <2>5
  <2>7. Reached(a, b, Round(a, b, f[k - 1]), (k - 1) + 1)
    BY <2>5, <2>6, WalkGoesOn
  <2> QED BY <1>3, <2>3, <2>5, <2>7
<1>5. PICK end : end = f[n]
  OBVIOUS
<1>6. Reached(a, b, end, n)
  BY <1>1, <1>4, <1>5
<1>7. PICK M : M = Matches(a, b, Empty)
  OBVIOUS
<1>8. M = [ok |-> end.ok /\ Slashes(a, end.i) /\ Slashes(b, end.j), params |-> end.params]
  BY <1>1, <1>2, <1>5, <1>7, Zenon DEF Matches
<1>9. M.ok <=> end.ok /\ Slashes(a, end.i) /\ Slashes(b, end.j)
  BY <1>8
<1>10. M.params = end.params
  BY <1>8
<1>11. CASE ~end.ok
  BY <1>6, <1>7, <1>9, <1>11 DEF Reached
<1>12. CASE end.ok
  <2>1. PICK i, j : i = end.i /\ j = end.j
    OBVIOUS
  <2>2. Good(a, b, i, j) /\ end.params = BoundOf(a, b, Done(a, i)) /\ (i > Len(a) \/ j > Len(b))
    BY <1>1, <1>6, <1>12, <2>1 DEF Reached
  <2>3. Slashes(a, i) /\ Slashes(b, j) <=> Fits(a, b)
    BY <1>0, <2>2, EndRight
  <2>4. ASSUME Slashes(a, i) PROVE Done(a, i) = Params(a)
    <3>1. ASSUME NEW p \in Params(a) PROVE p + 1 < i
      <4>1. p \in 1 .. n - 1 /\ a[p + 1] # "/"
        BY <1>1 DEF Params, Starts
      <4>2. i \in 1 .. n + 1 /\ \A x \in i .. n : a[x] = "/"
        BY <1>1, <2>2, <2>4 DEF Good, Slashes
      <4> QED BY <4>1, <4>2
    <3> QED BY <3>1 DEF Done
  <2> QED BY <1>7, <1>9, <1>10, <1>12, <2>1, <2>2, <2>3, <2>4 DEF Bound
<1> QED BY <1>11, <1>12

-----------------------------------------------------------------------------
(* The request answered last came from a client. *)
Asked == \A k \in DOMAIN request : request[k] \in Requests

(* Only tinox_handle_one writes it. *)
LEMMA AskedStays == HInv /\ Asked /\ [Next]_vars => Asked'
<1> SUFFICES ASSUME HInv, Asked, [Next]_vars PROVE Asked'
  OBVIOUS
<1>1. CASE request' = << >>
  BY <1>1 DEF Asked
<1>2. CASE request' = request
  BY <1>2 DEF Asked
<1>3. ASSUME NEW req \in Requests, HandleOne(req) PROVE Asked'
  <2>1. request' = <<req>>
    BY <1>3 DEF HandleOne
  <2> QED BY <2>1 DEF Asked
<1> QED BY <1>1, <1>2, <1>3 DEF Next, vars, AddRoute, Listen, HandleNone

(* What route_matches accepts is what fits, so the first route it accepts   *)
(* is the first that fits.                                                  *)
LEMMA FirstFits ==
  ASSUME PlainTexts, Shape, Asked, FirstRouteAnswers
  PROVE  RoutedRight
<1> SUFFICES ASSUME NEW k \in DOMAIN request, NEW req, req = request[k], NEW fit, fit = Fitting(req)
             PROVE  IF fit = {} THEN response.handler = NoHandler /\ response.status = 404
                    ELSE LET r == routes[Min(fit)]
                         IN  /\ response.handler = r.handler
                             /\ thread.params = Bound(r.pattern, Path(req.target))
  BY DEF RoutedRight
<1>1. PICK n \in Nat : n = Len(routes) /\ DOMAIN routes = 1 .. n
  BY DEF Shape
<1>2. PICK b : b = Path(req.target)
  OBVIOUS
<1>3. Plain(b)
  BY <1>2 DEF PlainTexts, Asked
<1>4. ASSUME NEW i \in 1 .. n
      PROVE  /\ Hit(i, req) <=> i \in fit
             /\ Hit(i, req) => Matches(routes[i].pattern, b, Empty).params = Bound(routes[i].pattern, b)
  <2>1. PICK a : a = routes[i].pattern
    OBVIOUS
  <2>2. routes[i] \in Routes
    BY <1>1 DEF Shape
  <2>3. IsPattern(a)
    BY <2>1, <2>2 DEF PlainTexts, IsPattern
  <2>4. /\ Matches(a, b, Empty).ok <=> Fits(a, b)
        /\ Fits(a, b) => Matches(a, b, Empty).params = Bound(a, b)
    BY <1>3, <2>3, MatchesRight
  <2> QED BY <1>1, <1>2, <2>1, <2>4 DEF Hit, Fitting
<1>5. fit \subseteq 1 .. n
  BY <1>1 DEF Fitting
<1>6. CASE /\ \A i \in 1 .. n : ~Hit(i, req)
           /\ response.handler = NoHandler /\ response.status = 404
  BY <1>4, <1>5, <1>6
<1>7. ASSUME NEW i \in 1 .. n, Hit(i, req), \A j \in 1 .. i - 1 : ~Hit(j, req),
             response.handler = routes[i].handler,
             thread.params = Matches(routes[i].pattern, b, Empty).params
      PROVE  /\ fit # {} /\ response.handler = routes[Min(fit)].handler
             /\ thread.params = Bound(routes[Min(fit)].pattern, b)
  <2>1. i \in fit
    BY <1>4, <1>7
  <2>2. \A x \in fit : i <= x
    <3> SUFFICES ASSUME NEW x \in fit, x < i PROVE FALSE
      BY <1>5
    <3>1. x \in 1 .. n /\ x \in 1 .. i - 1
      BY <1>5
    <3> QED BY <1>4, <1>7, <3>1
  <2>3. Min(fit) = i
    <3>1. ASSUME NEW x \in fit, \A y \in fit : x =< y PROVE x = i
      <4>1. x <= i /\ i <= x /\ x \in 1 .. n
        BY <1>5, <2>1, <2>2, <3>1
      <4> QED BY <4>1
    <3> QED BY <2>1, <2>2, <3>1 DEF Min
  <2> QED BY <1>4, <1>7, <2>1, <2>3
<1> QED BY <1>1, <1>2, <1>6, <1>7 DEF FirstRouteAnswers

(* Every request gets the handler of the first route whose segments fit its *)
(* path, with the parameters that route names, or 404, and headers that fit *)
(* their buffer: for every program and every sequence of requests whose     *)
(* patterns and paths have one reading.                                     *)
THEOREM RequestsAnsweredRight ==
  ASSUME PlainTexts
  PROVE  Spec => []AnswersRight
<1>1. Init => Asked
  BY DEF Init, Asked
<1>2. HInv => Shape /\ HeadersFit
  BY DEF HInv
<1>3. Shape /\ Asked /\ FirstRouteAnswers /\ HeadersFit => AnswersRight
  BY FirstFits DEF AnswersRight
<1> QED BY <1>1, <1>2, <1>3, InitHInv, NextHInv, AskedStays, FirstRouteWins, PTL DEF Spec
=============================================================================
