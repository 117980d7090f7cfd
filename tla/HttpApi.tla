------------------------------ MODULE HttpApi ------------------------------
(***************************************************************************)
(* One connection of the api, request after request, under /api/v1: the      *)
(* chain of middlewares (httpx), the five hand-written handlers of the Auth  *)
(* Module (auth), the catch-all (NotImplemented), and what cmd/api/main.go   *)
(* says will be mounted beside them: operations of the generated server      *)
(* (openapi.gen.go), or any handler a domain slice may write.  The contract  *)
(* (operations, routes, schemes, parameters, bodies, declared answers) is a  *)
(* parameter; the Contract modules hold the real one.                        *)
(*                                                                           *)
(* Requests of different connections meet only in the database: that is      *)
(* AdminSessions, TokenTable and Customers.                                  *)
(***************************************************************************)
EXTENDS Naturals, Sequences

CONSTANTS
  Ops,       \* the operations of the contract
  Route,     \* operation -> method and path
  Schemes,   \* operation -> the security schemes it accepts; none: it is public
  Params,    \* operation -> the parameters bound from path and query
  Body,      \* operation -> "none", "required" or "optional"
  Declared,  \* operation -> the statuses the contract declares
  Longest    \* bound on what an arbitrary handler writes

\* Handlers.Mount: the route and the middleware of each hand-written handler.
Mounted == [
  AdminLogin   |-> [route |-> <<"POST", "/admin/auth/login">>, guard |-> "none"],
  AdminRefresh |-> [route |-> <<"POST", "/admin/auth/refresh">>, guard |-> "none"],
  AdminLogout  |-> [route |-> <<"POST", "/admin/auth/logout">>, guard |-> "adminJWT"],
  GetAdminMe   |-> [route |-> <<"GET", "/admin/auth/me">>, guard |-> "adminJWT"],
  GetMe        |-> [route |-> <<"GET", "/me">>, guard |-> "initData"]]

Handlers == DOMAIN Mounted

\* What the service makes of a well-formed request, as each handler answers it.
Outcomes == [
  AdminLogin   |-> {200, 401, 500},
  AdminRefresh |-> {200, 401, 500},
  AdminLogout  |-> {204, 500},
  GetAdminMe   |-> {200, 401, 500},
  GetMe        |-> {200, 500}]

\* Handlers that decode a body, and those that validate what they decoded.
Decoding == {"AdminLogin", "AdminRefresh", "AdminLogout"}
Validating == {"AdminLogin", "AdminRefresh"}

Status == {0} \union 100 .. 599

\* What the code generator makes of any contract: one operation to a route.
ASSUME ContractAssumption ==
  /\ \A a, b \in Ops : Route[a] = Route[b] => a = b
  /\ Handlers \subseteq Ops
  /\ Body \in [Ops -> {"none", "required", "optional"}]
  /\ Declared \in [Ops -> SUBSET (200 .. 599)]
  /\ Longest \in Nat

\* The five hand-written handlers are mounted where the contract has their
\* operations, behind the scheme it names, and validate the bodies it requires.
ASSUME MountAssumption ==
  \A h \in Handlers :
    /\ Mounted[h].route = Route[h]
    /\ Schemes[h] = IF Mounted[h].guard = "none" THEN {} ELSE {Mounted[h].guard}
    /\ Body[h] = "required" => h \in Validating

VARIABLES
  pc,        \* where the request is
  req,       \* what the client sent, and which handler it was routed to
  ctx,       \* what the request's context holds by now
  served,    \* whether domain code was called for it
  sent,      \* net/http's writer: header out, its status, the chunks of the body
  seen,      \* the status Logging's wrapper has recorded; 0: none
  log,       \* the status in the request's log line; no line: NoLine
  panicked   \* "no", "before" or "after" something was written

vars == <<pc, req, ctx, served, sent, seen, log, panicked>>

NoLine == 600

Creds == [scheme : {"none", "initData", "adminJWT"}, valid : BOOLEAN]
Contents == {"empty", "malformed", "invalid", "valid"}
Kinds == {"hand", "stub", "strict", "unimplemented", "any"}
Request == [op : Ops, by : Kinds, cred : Creds, body : Contents]
Chunk == [kind : {"error", "data", "text"}, status : Status]

\* Between two requests.
NoRequest == [op |-> "none", by |-> "none", cred |-> [scheme |-> "none", valid |-> FALSE],
              body |-> "empty"]

Blank == [wrote |-> FALSE, status |-> 0, body |-> <<>>]

----------------------------------------------------------------------------
(* The response writer.                                                     *)

Chunked(kind, s) == [kind |-> kind, status |-> s]

\* WriteHeader: the first status is the one.
Headed(w, s) == IF w.wrote THEN w ELSE [wrote |-> TRUE, status |-> s, body |-> w.body]

\* Write: 200 unless there is a status; no body goes with 204.
Filled(w, c) ==
  LET h == Headed(w, 200)
  IN  IF h.status = 204 THEN h ELSE [wrote |-> TRUE, status |-> h.status, body |-> Append(h.body, c)]

\* Through the wrapper of Logging, which keeps the first status too.
Through(w) ==
  /\ sent' = w
  /\ seen' = IF seen = 0 THEN w.status ELSE seen

\* httpx.WriteError and WriteData, http.Error: a status, then a body in one piece.
WriteError(s) == Through(Filled(Headed(sent, s), Chunked("error", s)))
WriteData(s) == Through(Filled(Headed(sent, s), Chunked("data", s)))
WriteText(s) == Through(Filled(Headed(sent, s), Chunked("text", s)))
WriteNothing == UNCHANGED <<sent, seen>>

----------------------------------------------------------------------------
(* The chain: RequestID, Logging, Recoverer, and the routes.                *)

\* The hand-written handlers mounted on the route of an operation.
At(op) == {h \in Handlers : Mounted[h].route = Route[op]}

Entry == [hand |-> "guard", stub |-> "stub", strict |-> "bind",
          unimplemented |-> "bind", any |-> "any"]

\* A request comes in; a route without a hand-written handler falls through to
\* the catch-all, or to what a domain slice has mounted there.
Arrive(q) ==
  /\ pc = "idle"
  /\ q.by = "hand" <=> At(q.op) # {}
  /\ req' = q
  /\ pc' = Entry[q.by]
  /\ UNCHANGED <<ctx, served, sent, seen, log, panicked>>

\* Broken variants of Panic: Recoverer is mounted outside Logging, so the line is
\* skipped; Recoverer writes past the wrapper.
PanicOutside ==
  /\ pc \in {"guard", "decode", "service", "wrap", "handle", "any"}
  /\ panicked' = IF sent.wrote THEN "after" ELSE "before"
  /\ sent' = Filled(Headed(sent, 500), Chunked("error", 500))
  /\ pc' = "sent"
  /\ UNCHANGED <<req, ctx, served, seen, log>>

PanicPastWrapper ==
  /\ pc \in {"guard", "decode", "service", "wrap", "handle", "any"}
  /\ panicked' = IF sent.wrote THEN "after" ELSE "before"
  /\ sent' = Filled(Headed(sent, 500), Chunked("error", 500))
  /\ pc' = "log"
  /\ UNCHANGED <<req, ctx, served, seen, log>>

\* Whatever runs below Recoverer panics: InternalError is written after what the
\* handler may have written already, and Logging goes on.
Panic ==
  /\ pc \in {"guard", "decode", "service", "wrap", "handle", "any"}
  /\ panicked' = IF sent.wrote THEN "after" ELSE "before"
  /\ WriteError(500)
  /\ pc' = "log"
  /\ UNCHANGED <<req, ctx, served, log>>

\* Logging, after the handler has returned: the status is the wrapper's.
Log ==
  /\ pc = "log"
  /\ log' = seen
  /\ pc' = "sent"
  /\ UNCHANGED <<req, ctx, served, sent, seen, panicked>>

\* net/http ends the response, and the connection waits for the next request.
Finish ==
  /\ pc = "sent"
  /\ pc' = "idle" /\ req' = NoRequest
  /\ ctx' = {} /\ served' = FALSE /\ sent' = Blank /\ seen' = 0 /\ log' = NoLine
  /\ panicked' = "no"

\* httpx.NotImplemented, for every route without a handler.
Stub ==
  /\ pc = "stub"
  /\ WriteError(501)
  /\ pc' = "log"
  /\ UNCHANGED <<req, ctx, served, log, panicked>>

----------------------------------------------------------------------------
(* The hand-written handlers.                                               *)

Guard == Mounted[req.op].guard

\* Broken variant of Authenticate: the scheme keyword is not compared.
AuthenticateAnyScheme ==
  /\ pc = "guard"
  /\ \/ /\ Guard = "none"
        /\ pc' = "decode"
        /\ WriteNothing /\ UNCHANGED ctx
     \/ /\ Guard # "none" /\ req.cred.valid
        /\ ctx' = ctx \union {"identity"}
        /\ pc' = "decode"
        /\ WriteNothing
     \/ /\ Guard # "none"
        /\ WriteError(401)
        /\ pc' = "log"
        /\ UNCHANGED ctx
  /\ UNCHANGED <<req, served, log, panicked>>

\* RequireInitData and RequireAdminJWT: the credential is of the route's scheme,
\* and holds; a staff account may still not be found, be inactive or not be read
\* at all.  Each refusal is the same 401.
Authenticate ==
  /\ pc = "guard"
  /\ \/ /\ Guard = "none"
        /\ pc' = "decode"
        /\ WriteNothing /\ UNCHANGED ctx
     \/ /\ Guard # "none" /\ req.cred.scheme = Guard /\ req.cred.valid
        /\ ctx' = ctx \union {"identity"}
        /\ pc' = "decode"
        /\ WriteNothing
     \/ /\ Guard # "none"
        /\ Guard = "initData" => ~(req.cred.scheme = Guard /\ req.cred.valid)
        /\ WriteError(401)
        /\ pc' = "log"
        /\ UNCHANGED ctx
  /\ UNCHANGED <<req, served, log, panicked>>

\* What a handler refuses before it calls the service, and how; 0: nothing.
Refusal ==
  IF Guard # "none" /\ "identity" \notin ctx THEN 401
  ELSE IF req.op \in Decoding /\ req.body = "malformed" THEN 400
  ELSE IF req.op \in Validating /\ req.body \in {"empty", "invalid"} THEN 422
  ELSE 0

\* Broken variant of Decode: a return is missing after a refusal.
DecodeOn ==
  /\ pc = "decode"
  /\ IF Refusal = 0 THEN WriteNothing ELSE WriteError(Refusal)
  /\ pc' = "service"
  /\ UNCHANGED <<req, ctx, served, log, panicked>>

\* The head of each handler: the identity must be there, the body must decode,
\* and login and refresh validate it.  An empty body decodes to zero values.
Decode ==
  /\ pc = "decode"
  /\ IF Refusal = 0
       THEN WriteNothing /\ pc' = "service"
       ELSE WriteError(Refusal) /\ pc' = "log"
  /\ UNCHANGED <<req, ctx, served, log, panicked>>

\* The service is called and its result answered.
Serve ==
  /\ pc = "service"
  /\ served' = TRUE
  /\ \E s \in Outcomes[req.op] :
       CASE s = 200 -> WriteData(s)
         [] s = 204 -> Through(Headed(sent, s))
         [] OTHER   -> WriteError(s)
  /\ pc' = "log"
  /\ UNCHANGED <<req, ctx, log, panicked>>

----------------------------------------------------------------------------
(* The generated server, with its default error handlers.                   *)

\* Broken variant of Bind: the handler is reached with parameters that did not
\* bind.
BindAnyway ==
  /\ pc = "bind"
  /\ pc' = "wrap"
  /\ UNCHANGED <<req, ctx, served, sent, seen, log, panicked>>

\* ServerInterfaceWrapper: the runtime library binds each parameter or refuses it.
Bind ==
  /\ pc = "bind"
  /\ \/ /\ ctx' = ctx \union {"params"}
        /\ pc' = "wrap"
        /\ WriteNothing
     \/ /\ Params[req.op] # {}
        /\ WriteText(400)
        /\ pc' = "log"
        /\ UNCHANGED ctx
  /\ UNCHANGED <<req, served, log, panicked>>

\* HandlerMiddlewares run when the parameters are bound: a guard that stands here
\* answers 401 or 403, or lets the request pass.
Wrap ==
  /\ pc = "wrap"
  /\ \/ /\ pc' = IF req.by = "strict" THEN "body" ELSE "handle"
        /\ WriteNothing
     \/ \E s \in {401, 403} : WriteError(s) /\ pc' = "log"
  /\ UNCHANGED <<req, ctx, served, log, panicked>>

\* What the strict server cannot decode: a body that is not JSON, or a required
\* one that is not there.
Undecodable ==
  \/ Body[req.op] # "none" /\ req.body = "malformed"
  \/ Body[req.op] = "required" /\ req.body = "empty"

\* strictHandler: the body is decoded before the domain's handler is called.
StrictDecode ==
  /\ pc = "body"
  /\ IF Undecodable
       THEN WriteText(400) /\ pc' = "log"
       ELSE WriteNothing /\ pc' = "handle"
  /\ UNCHANGED <<req, ctx, served, log, panicked>>

\* Broken variant of Visit: the header goes out before the body is encoded.
VisitEarly(s) ==
  \/ s # 204 /\ WriteData(s)
  \/ s # 204 /\ Through(Filled(Headed(sent, s), Chunked("text", 500)))
  \/ Through(Headed(sent, s))

\* A response of status s writes itself: it is encoded into a buffer first, and an
\* encoding error becomes a 500.  The status goes out alone with 204, and where the
\* write of the body fails: the client is gone then, and what the error handler
\* writes after it reaches nobody.
Visit(s) ==
  \/ s # 204 /\ WriteData(s)
  \/ s # 204 /\ WriteText(500)
  \/ Through(Headed(sent, s))

\* Unimplemented answers 501 and no body.  The strict server's handler, inside its
\* middlewares: what comes out is a response the contract declares, an error, a value
\* of another type, or nothing at all, from the domain's handler or from a middleware
\* that did not call it; and a middleware that is a guard writes its refusal itself.
Handle ==
  /\ pc = "handle"
  /\ \/ /\ req.by = "unimplemented"
        /\ Through(Headed(sent, 501)) /\ UNCHANGED served
     \/ /\ req.by = "strict"
        /\ served' \in BOOLEAN
        /\ (\E s \in Declared[req.op] : Visit(s)) \/ WriteText(500) \/ WriteNothing
     \/ /\ req.by = "strict"
        /\ \E s \in {401, 403} : WriteError(s)
        /\ UNCHANGED served
  /\ pc' = "log"
  /\ UNCHANGED <<req, ctx, log, panicked>>

----------------------------------------------------------------------------
(* A handler of any kind below the chain.                                   *)

Scribble ==
  /\ pc = "any"
  /\ \/ \E s \in {200, 404} : Through(Headed(sent, s))
     \/ Len(sent.body) < Longest /\ Through(Filled(sent, Chunked("data", 200)))
  /\ UNCHANGED <<pc, req, ctx, served, log, panicked>>

Return ==
  /\ pc = "any"
  /\ pc' = "log"
  /\ UNCHANGED <<req, ctx, served, sent, seen, log, panicked>>

----------------------------------------------------------------------------
Init ==
  /\ pc = "idle"
  /\ req = NoRequest
  /\ ctx = {} /\ served = FALSE /\ sent = Blank /\ seen = 0 /\ log = NoLine
  /\ panicked = "no"

Next ==
  \/ \E q \in Request : Arrive(q)
  \/ Panic \/ Log \/ Finish \/ Stub
  \/ Authenticate \/ Decode \/ Serve
  \/ Bind \/ Wrap \/ StrictDecode \/ Handle
  \/ Scribble \/ Return

Spec == Init /\ [][Next]_vars

----------------------------------------------------------------------------
(* Properties.                                                              *)

Stages == {"idle", "stub", "guard", "decode", "service", "bind", "wrap", "body",
           "handle", "any", "log", "sent"}

\* Every variable has its type.
TypeOK ==
  /\ pc \in Stages
  /\ req \in Request \union {NoRequest}
  /\ ctx \in SUBSET {"identity", "params"}
  /\ served \in BOOLEAN
  /\ sent \in [wrote : BOOLEAN, status : Status, body : Seq(Chunk)]
  /\ seen \in Status
  /\ log \in Status \union {NoLine}
  /\ panicked \in {"no", "before", "after"}

Done == pc = "sent"

\* A request is never over without its line in the log, panic or not, and the line
\* has the status the client got; only a handler that wrote nothing, to whom
\* net/http lends an empty 200, is logged as 0 (Logging, Recoverer and the order
\* newRouter mounts them in).
LogTellsTheAnswer == Done => log = sent.status

AnswerOf ==
  /\ req.by # "any" =>
       /\ Len(sent.body) <= 1
       /\ \A i \in DOMAIN sent.body : sent.body[i].status = sent.status
  /\ req.by \in {"hand", "stub"} =>
       /\ sent.wrote
       /\ sent.body # <<>> <=> sent.status # 204
       /\ \A i \in DOMAIN sent.body : sent.body[i].kind = "error" <=> sent.status >= 400
  /\ panicked = "before" =>
       sent = [wrote |-> TRUE, status |-> 500, body |-> <<Chunked("error", 500)>>]

\* The answer of every handler but an arbitrary one is one status and at most one
\* body, of that very status: no path answers twice or goes on after a refusal.
\* Success is data and failure the error envelope; and a panic before anything was
\* written gives the client the envelope of 500, whoever the handler.
AnswerIsWhole == Done => AnswerOf

Authentic ==
  Schemes[req.op] = {} \/ (req.cred.valid /\ req.cred.scheme \in Schemes[req.op])

\* Behind a hand-written handler no domain code runs for a request without the
\* credential the contract asks of its operation, and the answer says so: 401,
\* unless something panicked (Mount, RequireInitData, RequireAdminJWT).
GateHolds ==
  req.by = "hand" /\ ~Authentic =>
    /\ ~served
    /\ Done => sent.status = 401 \/ (panicked # "no" /\ sent.status = 500)

\* Domain code sees a request the contract allows: the identity of its caller, a
\* body where one is required, and every parameter bound (the handlers of auth;
\* ServerInterfaceWrapper and strictHandler for the generated server).
HandlerSeesWellFormed ==
  served =>
    /\ req.by = "hand" /\ Schemes[req.op] # {} => "identity" \in ctx
    /\ req.by = "hand" /\ Body[req.op] = "required" => req.body = "valid"
    /\ req.by = "strict" => "params" \in ctx /\ ~Undecodable

\* The inductive invariant.  Logging's wrapper and net/http agree on the status at
\* every moment, nothing is written before a handler's last step, and the stage
\* tells what has been established about the request (newRouter, Mount, Handler).
OnItsWay == {"stub", "guard", "decode", "service", "bind", "wrap", "body", "handle"}

Where ==
  /\ pc = "idle" <=> req = NoRequest
  /\ pc = "stub" => req.by = "stub"
  /\ pc \in {"guard", "decode", "service"} => req.by = "hand"
  /\ pc \in {"bind", "wrap", "handle"} => req.by \in {"strict", "unimplemented"}
  /\ pc = "body" => req.by = "strict"
  /\ pc = "any" => req.by = "any"
  /\ req.by = "hand" => req.op \in Handlers

Written ==
  /\ seen = sent.status
  /\ sent.wrote <=> sent.status # 0
  /\ ~sent.wrote => sent = Blank
  /\ pc \in OnItsWay \union {"idle"} => sent = Blank
  /\ pc \in OnItsWay \union {"idle", "any"} => panicked = "no" /\ ~served

Passed ==
  /\ pc \in {"decode", "service"} /\ Guard # "none" => "identity" \in ctx /\ Authentic
  /\ pc = "service" => Refusal = 0
  /\ pc \in {"wrap", "body", "handle"} => "params" \in ctx
  /\ pc = "handle" /\ req.by = "strict" => ~Undecodable

Replied ==
  /\ pc \in {"log", "sent"} /\ req.by = "hand" /\ ~Authentic =>
       sent.status = 401 \/ (panicked # "no" /\ sent.status = 500)
  /\ pc \in {"log", "sent"} => AnswerOf
  /\ pc = "sent" => log = seen

IInv ==
  /\ TypeOK /\ Where /\ Written /\ Passed /\ Replied /\ GateHolds /\ HandlerSeesWellFormed

\* What handlers.go:17-20 says of the hand-written handlers: they answer as the
\* contract has it, so with a status it declares.
AnswersAreDeclared ==
  Done /\ req.by = "hand" => sent.status \in Declared[req.op]

\* What middleware.go:82-88 says of a panic after something was written: what
\* Recoverer writes then is a no-op, and no error envelope reaches the client.
LateErrorIsDropped ==
  panicked = "after" => \A i \in DOMAIN sent.body : sent.body[i].kind # "error"
=============================================================================
