------------------------------- MODULE Server -------------------------------
(***************************************************************************)
(* The program that the code generator makes of annotated classes            *)
(* (codegen.rs): the bootstrap (emit_tinox_main_bootstrap), dependency       *)
(* injection (emit_di_code), the route shims (emit_route_shim_body and what  *)
(* it calls) and the loops of websocket endpoints and AMQP consumers.        *)
(*   app     the program as the code generator was told of it (Build)        *)
(*   heap    the components each thread made: class, fields, for whom        *)
(*   threads the workers of the HTTP server and the main thread; a stack of  *)
(*           getters and factories that have not returned                    *)
(***************************************************************************)
EXTENDS Annotations

CONSTANTS Workers,         \* threads that handle requests
          MaxRequests,     \* how many requests are made
          MaxEvents,       \* how many connections or messages a service gets
          StackLimit       \* how deep calls may nest
ASSUME WorkersAssumption == "main" \notin Workers

VARIABLES app, heap, global, threads, main, services, made
server_vars == <<app, heap, global, threads, main, services, made>>

NoInst == <<>>
Idle == [pc |-> "idle", route |-> 0, req |-> <<>>, stack |-> <<>>, ctrl |-> NoInst, left |-> {}, status |-> 0, sees |-> {}]
ServerInit ==
    /\ app = <<>> /\ heap = [t \in Workers \cup {"main"} |-> <<>>] /\ global = <<>> /\ services = <<>> /\ made = 0
    /\ threads = [t \in Workers \cup {"main"} |-> Idle]
    /\ main = [pc |-> "none", k |-> 0, code |-> 0]

(* The steps of a service before its loop; the result when the i-th fails. *)
Setup == [http |-> <<"listen">>, http3 |-> <<"listen">>, ws |-> <<"listen">>, amqp10 |-> <<"connect", "begin", "attach">>,
          amqp091 |-> <<"connect", "open", "qos", "consume">>]
NewService(b) == [kind |-> b[1], def |-> b, pc |-> "unborn", step |-> 1, code |-> 0, begun |-> 0, ended |-> 0, events |-> 0]
Component(c) == (CHOOSE i \in 1..Len(app.components) : app.components[i].class = c)
Of(c) == app.components[Component(c)]
IsComponent(c) == \E i \in 1..Len(app.components) : app.components[i].class = c

(* The program is started: global constructors come before main. *)
StartProgram(program) ==
    /\ app' = program
    /\ global' = [c \in {program.components[i].class : i \in 1..Len(program.components)} |-> NoInst]
    /\ services' = [k \in 1..Len(program.background) |-> NewService(program.background[k])]
    /\ main' = [pc |-> "ctors", k |-> 1, code |-> 0]
    /\ UNCHANGED <<heap, threads, made>>
Alive == main.pc \notin {"none", "exited", "crashed"}
-----------------------------------------------------------------------------
(* Dependency injection: {class}_di_get and {class}_di_create. *)
(* mutant: components of a request are shared as well *)
Shared_all(c) == TRUE
Shared(c) == Of(c).scope \in {"Application", "Startup"}
Call(c) == [class |-> c, get |-> Shared(c), pc |-> "load", inst |-> NoInst]
TopOf(t) == threads[t].stack[1]
SetFrame(t, f) == threads' = [threads EXCEPT ![t].stack = <<f>> \o Tail(@)]
Instance(inst) == heap[inst[1]][inst[2]]
WithField(fields, field, v) == [x \in DOMAIN fields \cup {field} |-> IF x = field THEN v ELSE fields[x]]
Fill(inst, field, v) == [heap EXCEPT ![inst[1]][inst[2]].fields = WithField(@, field, v)]
(* The fields an instance is injected with, in order, and those still to come. *)
Wanted(inst) == Of(Instance(inst).class).inject
Unfilled(inst) == {i \in 1..Len(Wanted(inst)) : Wanted(inst)[i].field \notin DOMAIN Instance(inst).fields}
NextField(inst) == Wanted(inst)[Min(Unfilled(inst))]
(* The fields of a shared controller that every request gets anew. *)
Renewed(inst) == {i \in 1..Len(Wanted(inst)) : ~Shared(Wanted(inst)[i].type)}

(* mutant: the getter makes an instance whether there is one or not *)
Missing_always(c) == TRUE
Missing(c) == global[c] = NoInst
NewInstance(t, c) == [heap EXCEPT ![t] = Append(@, [class |-> c, fields |-> <<>>, for |-> threads[t].req])]
(* mutant: the instance is published before its fields are injected *)
Enter_published(t) ==
    LET f == TopOf(t) IN
    /\ f.pc = "load"
    /\ IF f.get /\ ~Missing(f.class) THEN SetFrame(t, [f EXCEPT !.pc = "reload"]) /\ UNCHANGED <<heap, global>>
       ELSE /\ heap' = NewInstance(t, f.class)
            /\ SetFrame(t, [f EXCEPT !.pc = "fields", !.inst = <<t, Len(heap[t]) + 1>>])
            /\ global' = IF f.get THEN [global EXCEPT ![f.class] = <<t, Len(heap[t]) + 1>>] ELSE global
Enter(t) ==
    LET f == TopOf(t) IN
    /\ f.pc = "load"
    /\ IF f.get /\ ~Missing(f.class) THEN SetFrame(t, [f EXCEPT !.pc = "reload"]) /\ UNCHANGED heap
       ELSE /\ heap' = NewInstance(t, f.class)
            /\ SetFrame(t, [f EXCEPT !.pc = "fields", !.inst = <<t, Len(heap[t]) + 1>>])
    /\ UNCHANGED global

(* The getter or factory of a field is called; calls may run out of stack. *)
CallField(t) ==
    LET f == TopOf(t) IN
    /\ f.pc = "fields" /\ Unfilled(f.inst) # {} /\ Len(threads[t].stack) < StackLimit
    /\ threads' = [threads EXCEPT ![t].stack = <<Call(NextField(f.inst).type)>> \o @]
    /\ UNCHANGED <<heap, global>>
Overflow(t) ==
    /\ TopOf(t).pc = "fields" /\ Unfilled(TopOf(t).inst) # {} /\ Len(threads[t].stack) = StackLimit
    /\ main' = [main EXCEPT !.pc = "crashed"]
    /\ UNCHANGED <<app, heap, global, threads, services, made>>
Publish(t) ==
    LET f == TopOf(t) IN
    /\ f.pc = "fields" /\ f.get /\ Unfilled(f.inst) = {}
    /\ global' = [global EXCEPT ![f.class] = f.inst]
    /\ SetFrame(t, [f EXCEPT !.pc = "reload"]) /\ UNCHANGED heap

(* A getter returns what is published by then, a factory its instance; the
   caller stores it. *)
Return(t) ==
    LET f == TopOf(t)
        v == IF f.get THEN global[f.class] ELSE f.inst
        rest == Tail(threads[t].stack)
        th == threads[t]
    IN  /\ \/ f.pc = "reload"
           \/ f.pc = "fields" /\ ~f.get /\ Unfilled(f.inst) = {}
        /\ CASE rest # <<>> ->
                  /\ heap' = Fill(rest[1].inst, NextField(rest[1].inst).field, v)
                  /\ threads' = [threads EXCEPT ![t].stack = rest]
             [] rest = <<>> /\ th.pc = "controller" ->
                  /\ threads' = [threads EXCEPT ![t].stack = <<>>, ![t].ctrl = v, ![t].pc = "inject",
                        ![t].left = IF f.get THEN Renewed(v) ELSE {}]
                  /\ UNCHANGED heap
             [] rest = <<>> /\ th.pc = "inject" ->
                  /\ heap' = Fill(th.ctrl, Wanted(th.ctrl)[Min(th.left)].field, v)
                  /\ threads' = [threads EXCEPT ![t].stack = <<>>, ![t].left = @ \ {Min(@)}]
             [] OTHER -> threads' = [threads EXCEPT ![t].stack = <<>>] /\ UNCHANGED heap
        /\ UNCHANGED global
emit_di_code(t) ==
    /\ Alive /\ threads[t].stack # <<>>
    /\ \/ (Enter(t) \/ CallField(t) \/ Publish(t) \/ Return(t)) /\ UNCHANGED <<app, main, services, made>>
       \/ Overflow(t)
-----------------------------------------------------------------------------
(* The bootstrap: constructors, a thread for each service, Main, joins. *)
Startups == {i \in 1..Len(app.components) : app.components[i].scope = "Startup"}
tinox_di_startup ==
    /\ main.pc = "ctors" /\ threads["main"].stack = <<>>
    /\ LET left == {i \in Startups : i >= main.k} IN
       IF left # {}
       THEN /\ threads' = [threads EXCEPT !["main"].stack = <<Call(app.components[Min(left)].class)>>]
            /\ main' = [main EXCEPT !.k = Min(left) + 1]
       ELSE main' = [main EXCEPT !.pc = "spawn", !.k = 1] /\ UNCHANGED threads
    /\ UNCHANGED <<app, heap, global, services, made>>
SpawnService ==
    /\ main.pc = "spawn"
    /\ IF main.k <= Len(services)
       THEN services' = [services EXCEPT ![main.k].pc = "setup"] /\ main' = [main EXCEPT !.k = @ + 1]
       ELSE main' = [main EXCEPT !.pc = "user", !.k = 1] /\ UNCHANGED services
    /\ UNCHANGED <<app, heap, global, threads, made>>
MainCode == 7
UserMain ==
    /\ main.pc = "user"
    /\ main' = [main EXCEPT !.pc = "await", !.code = IF app.main THEN MainCode ELSE 0]
    /\ UNCHANGED <<app, heap, global, threads, services, made>>
(* mutant: the program ends with Main *)
Joined_not(k) == TRUE
Joined(k) == services[k].pc = "ended"
Await ==
    /\ main.pc = "await"
    /\ IF main.k <= Len(services)
       THEN /\ Joined(main.k)
            /\ main' = [main EXCEPT !.k = @ + 1, !.code = IF main.k = 1 /\ ~app.main THEN services[1].code ELSE @]
       ELSE main' = [main EXCEPT !.pc = "exited"]
    /\ UNCHANGED <<app, heap, global, threads, services, made>>
emit_tinox_main_bootstrap == tinox_di_startup \/ SpawnService \/ UserMain \/ Await
-----------------------------------------------------------------------------
(* The routes are served while a service that has them is in its loop. *)
Serving == \E k \in 1..Len(services) : services[k].kind \in {"http", "http3"} /\ services[k].pc = "loop"
RouteOf(t) == app.routes[threads[t].route]
(* What a request brings; nothing but what its route asks for. *)
RequestsTo(r) == [cred : IF r.auth = <<>> THEN {"none"} ELSE {"none", "scheme", "good"},
                  role : IF r.roles = <<>> THEN {TRUE} ELSE BOOLEAN, type : IF r.consumes = <<>> THEN {TRUE} ELSE BOOLEAN,
                  params : IF \E i \in 1..Len(r.params) : r.params[i].kind \in {"PathParam", "QueryParam"} THEN BOOLEAN ELSE {TRUE}]
Arrive(t) ==
    /\ Alive /\ Serving /\ threads[t].pc = "idle" /\ made < MaxRequests
    /\ \E i \in 1..Len(app.routes) : \E q \in RequestsTo(app.routes[i]) :
          threads' = [threads EXCEPT ![t] = [Idle EXCEPT !.pc = "guard", !.route = i, !.req = <<made + 1, q>>]]
    /\ made' = made + 1
    /\ UNCHANGED <<app, heap, global, main, services>>

(* The answer of the guards, of which the first that objects decides; 0 when
   none does.  Without a class AuthValidator no credentials are good. *)
guard_status(r, q) ==
    LET auth  == r.auth # <<>> /\ ~(q.cred = "good" /\ app.validator)
        roles == r.roles # <<>> /\ ~q.role
    IN  IF auth THEN 401 ELSE IF roles THEN 403 ELSE IF ~q.type THEN 415 ELSE 0
Answer(t, status) == threads' = [threads EXCEPT ![t] = [@ EXCEPT !.pc = "answered", !.status = status]]
DefaultStatus(r) == IF r.status = <<>> THEN 200 ELSE r.status[1]

emit_route_shim_body(t) ==
    /\ Alive /\ threads[t].pc = "guard"
    /\ LET r == RouteOf(t) IN
       \E g \in {guard_status(r, threads[t].req[2])} :
          IF g # 0 THEN Answer(t, g)
          ELSE threads' = [threads EXCEPT ![t].status = DefaultStatus(r),
                    ![t].pc = IF r.static \/ ~IsComponent(r.class) THEN "bind" ELSE "controller",
                    ![t].stack = IF r.static \/ ~IsComponent(r.class) THEN <<>> ELSE <<Call(r.class)>>]
    /\ UNCHANGED <<app, heap, global, main, services, made>>
(* Fields of the scope of a request are made anew in a shared controller. *)
Reinject(t) ==
    /\ Alive /\ threads[t].pc = "inject" /\ threads[t].stack = <<>>
    /\ threads' = [threads EXCEPT ![t].pc = IF threads[t].left = {} THEN "bind" ELSE @,
                                  ![t].stack = IF threads[t].left = {} THEN <<>>
                                                  ELSE <<Call(Wanted(threads[t].ctrl)[Min(threads[t].left)].type)>>]
    /\ UNCHANGED <<app, heap, global, main, services, made>>
(* Parameters are bound, and the handler called with its controller. *)
emit_route_handler_call(t) ==
    /\ Alive /\ threads[t].pc = "bind"
    /\ IF ~threads[t].req[2].params THEN Answer(t, 400)
       ELSE threads' = [threads EXCEPT ![t].pc = "handler"]
    /\ UNCHANGED <<app, heap, global, main, services, made>>
(* All that can be reached from an instance by its injected fields. *)
Instances == UNION {{t} \X (1..Len(heap[t])) : t \in DOMAIN heap}
Fields_of(inst) == {Instance(inst).fields[x] : x \in DOMAIN Instance(inst).fields}
Reach(inst) ==
    {i \in Instances : \A s \in SUBSET Instances : inst \in s /\ (\A j \in s : Fields_of(j) \subseteq s) => i \in s}
Handle(t) ==
    /\ Alive /\ threads[t].pc = "handler"
    /\ threads' = [threads EXCEPT ![t].pc = "handled", ![t].sees = IF threads[t].ctrl = NoInst THEN {} ELSE Reach(threads[t].ctrl)]
    /\ UNCHANGED <<app, heap, global, main, services, made>>
IsPointer(t) == t[1] \in {"TGeneric", "TArray"} \/ (t[1] = "TName" /\ t[2] \notin {"Int64", "Int32", "Bool"})
(* The result becomes the answer, unless the handler made it itself. *)
emit_route_auto_serialize(t) ==
    /\ Alive /\ threads[t].pc = "handled"
    /\ LET ret == RouteOf(t).ret IN
       \E null \in IF IsPointer(ret) /\ ~is_http_context_type(ret) THEN BOOLEAN ELSE {FALSE} :
          Answer(t, IF null THEN 500 ELSE threads[t].status)
    /\ UNCHANGED <<app, heap, global, main, services, made>>
Next_request(t) ==
    /\ Alive /\ threads[t].pc = "answered" /\ made < MaxRequests
    /\ threads' = [threads EXCEPT ![t] = Idle]
    /\ UNCHANGED <<app, heap, global, main, services, made>>
RouteStep(t) == Arrive(t) \/ emit_route_shim_body(t) \/ Reinject(t) \/ emit_route_handler_call(t) \/ Handle(t)
                \/ emit_route_auto_serialize(t) \/ Next_request(t)
-----------------------------------------------------------------------------
(* The services.  begun counts connections opened and messages handled, where a
   callback is there to be told, ended connections closed and messages
   acknowledged. *)
Serve(k, s) == services' = [services EXCEPT ![k] = s] /\ UNCHANGED <<app, heap, global, threads, main, made>>
ServiceSetup(k) ==
    LET s == services[k] IN
    /\ Alive /\ s.pc = "setup"
    /\ \/ Serve(k, [s EXCEPT !.step = @ + 1, !.pc = IF s.step = Len(Setup[s.kind]) THEN "loop" ELSE @])
       \/ Serve(k, [s EXCEPT !.pc = "ended", !.code = IF s.kind \in {"http", "http3"} THEN 0 ELSE s.step])

Told(callback) == IF callback = <<>> THEN 0 ELSE 1
(* accept, read and the callbacks of emit_ws_code, one connection at a time *)
WsAccept(k) ==
    LET s == services[k] IN
    /\ Alive /\ s.kind = "ws" /\ s.pc = "loop" /\ s.events < MaxEvents
    /\ Serve(k, [s EXCEPT !.pc = "open", !.events = @ + 1, !.begun = @ + Told(s.def[2].on_open)])
WsRead(k) ==
    LET s == services[k] IN
    /\ Alive /\ s.pc = "open"
    /\ \E text \in BOOLEAN : Serve(k, [s EXCEPT !.pc = IF text THEN "message" ELSE "closing"])
WsMessage(k) == Alive /\ services[k].pc = "message" /\ Serve(k, [services[k] EXCEPT !.pc = "open"])
WsEnd(s) == s.ended + Told(s.def[2].on_close)
WsClose(k) == Alive /\ services[k].pc = "closing" /\ Serve(k, [services[k] EXCEPT !.pc = "loop", !.ended = WsEnd(services[k])])
emit_ws_code(k) == WsAccept(k) \/ WsRead(k) \/ WsMessage(k) \/ WsClose(k)

(* nextMessage, @OnMessage if the class has one, ack; a read without a message
   begins again. *)
AmqpReceive(k) ==
    LET s == services[k] IN
    /\ Alive /\ s.kind \in {"amqp10", "amqp091"} /\ s.pc = "loop" /\ s.events < MaxEvents
    /\ \E ok \in BOOLEAN : Serve(k, [s EXCEPT !.pc = IF ok THEN "handle" ELSE @, !.events = @ + 1])
(* mutant: the message is acknowledged before it is handled *)
AmqpHandle_acked(k) ==
    Alive /\ services[k].pc = "handle" /\ Serve(k, [services[k] EXCEPT !.pc = "ack", !.ended = @ + 1])
AmqpHandle(k) ==
    LET s == services[k] IN
    Alive /\ s.pc = "handle" /\ Serve(k, [s EXCEPT !.pc = "ack", !.begun = @ + Told(s.def[2].on_message)])
AmqpAck(k) == Alive /\ services[k].pc = "ack" /\ Serve(k, [services[k] EXCEPT !.pc = "loop", !.ended = @ + 1])
ServiceStep(k) == ServiceSetup(k) \/ emit_ws_code(k) \/ AmqpReceive(k) \/ AmqpHandle(k) \/ AmqpAck(k)
-----------------------------------------------------------------------------
ServerStep ==
    \/ \E t \in DOMAIN threads : emit_di_code(t)
    \/ Alive /\ emit_tinox_main_bootstrap
    \/ \E t \in Workers : RouteStep(t)
    \/ \E k \in 1..Len(services) : ServiceStep(k)

(* A handler sees finished components only: whatever it can reach by injected
   fields was published with every one of its fields set, although another
   thread may be making the same component (emit_di_code takes no lock). *)
SeesComplete == \A t \in Workers : \A i \in threads[t].sees : Unfilled(i) = {}

(* A @Startup component is made once, before main: no request replaces it, as
   one may replace an application component that two requests make at a time. *)
StartupStays ==
    [][\A c \in DOMAIN global : Of(c).scope = "Startup" /\ global[c] # NoInst /\ main.pc # "ctors" => global'[c] = global[c]]_server_vars

OwnFields(inst) == {v \in Fields_of(inst) : Of(Instance(v).class).scope = "HttpRequest"}
OwnReach(inst) ==
    {i \in Instances : \A s \in SUBSET Instances : inst \in s /\ (\A j \in s : OwnFields(j) \subseteq s) => i \in s}
(* A controller of a request's scope is made for each request, and so is all that
   it reaches by fields of that scope.  Nothing is said here of the fields of a
   shared controller, which may be of another request (PerRequest). *)
RequestsApart ==
    \A t \in Workers :
        threads[t].pc = "handled" /\ threads[t].ctrl # NoInst /\ Of(RouteOf(t).class).scope = "HttpRequest"
        => \A i \in OwnReach(threads[t].ctrl) : Instance(i).for = threads[t].req

(* An @ApplicationComponent or @Startup class is a singleton, one shared instance:
   two handlers never hold two of them.  The code does not keep this: the getter
   tests and publishes without a lock. *)
OneShared ==
    \A t, u \in Workers : \A i \in threads[t].sees, j \in threads[u].sees :
        Instance(i).class = Instance(j).class /\ Shared(Instance(i).class) => i = j

(* An @HttpRequestScoped component is an instance of its own request, never one
   that was kept for another.  The code does not keep this: the field of a shared
   controller is written for each request, also while another one is handled. *)
PerRequest ==
    \A t \in Workers : \A i \in threads[t].sees :
        Of(Instance(i).class).scope = "HttpRequest" => Instance(i).for = threads[t].req

(* The program ends after all its services, and with the result of Main if it
   has one: a service that failed to start does not end the others. *)
EndsLast == main.pc = "exited" => \A k \in 1..Len(services) : services[k].pc = "ended"

(* An endpoint that asks for it is told of the end of every connection it was
   told the beginning of, before the next one begins.  A consumer with a method
   for messages has handled each before it is acknowledged, and at most one is
   not acknowledged; without one all are acknowledged unseen. *)
Handles(s) == s.kind \in {"amqp10", "amqp091"} /\ s.def[2].on_message # <<>>
TellsBoth(s) == s.kind = "ws" /\ s.def[2].on_open # <<>> /\ s.def[2].on_close # <<>>
Paired ==
    \A k \in 1..Len(services) : LET s == services[k] IN
        Handles(s) \/ TellsBoth(s) => s.begun \in {s.ended, s.ended + 1} /\ (s.pc = "loop" => s.begun = s.ended)

(* What injection gives a handler is complete; below a controller of a request's
   scope it is of its own request where it is of that scope; and startup
   components stay those made at the start. *)
ComponentsRight == [](SeesComplete /\ RequestsApart) /\ StartupStays

(* Services outlive Main and end what they begin: connections, messages. *)
ServicesRight == EndsLast /\ Paired
=============================================================================
