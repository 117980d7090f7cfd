--------------------------- MODULE HttpApi_proofs ---------------------------
(***************************************************************************)
(* The invariants of HttpApi, for every contract.  Every action either moves *)
(* the request on without writing, or writes one answer on a blank response  *)
(* and goes to the log; only an arbitrary handler writes in pieces.          *)
(***************************************************************************)
EXTENDS HttpApi, TLAPS

\* One answer on a blank response: its status, and a body of that status.
LEMMA OneAnswer ==
  ASSUME NEW s \in 100 .. 599, s # 204, NEW kind \in {"error", "data", "text"}
  PROVE  Filled(Headed(Blank, s), Chunked(kind, s))
           = [wrote |-> TRUE, status |-> s, body |-> <<Chunked(kind, s)>>]
<1>1. Headed(Blank, s) = [wrote |-> TRUE, status |-> s, body |-> <<>>]
  BY DEF Headed, Blank
<1>2. Headed(Headed(Blank, s), 200) = [wrote |-> TRUE, status |-> s, body |-> <<>>]
  BY <1>1 DEF Headed
<1>3. Append(<<>>, Chunked(kind, s)) = <<Chunked(kind, s)>>
  OBVIOUS
<1> DEFINE h == [wrote |-> TRUE, status |-> s, body |-> <<>>]
<1> DEFINE g == Headed(Headed(Blank, s), 200)
<1>4. g.status = s /\ g.body = <<>> /\ g.status # 204
  BY <1>2
<1>5. Filled(Headed(Blank, s), Chunked(kind, s))
        = [wrote |-> TRUE, status |-> g.status, body |-> Append(g.body, Chunked(kind, s))]
  BY <1>4, Zenon DEF Filled
<1> QED
  BY <1>3, <1>4, <1>5, Zenon

\* A status without a body, on a blank response.
LEMMA BareAnswer ==
  ASSUME NEW s \in 100 .. 599
  PROVE  Headed(Blank, s) = [wrote |-> TRUE, status |-> s, body |-> <<>>]
  BY DEF Headed, Blank

Response == [wrote : BOOLEAN, status : Status, body : Seq(Chunk)]
Out(w) == w \in Response /\ w.wrote /\ w.status # 0
Sound(w) == w \in Response /\ (w.wrote <=> w.status # 0)

\* What is written keeps the type of the response, and the first status.
LEMMA WrittenType ==
  ASSUME NEW w, Sound(w), NEW s \in 100 .. 599, NEW c \in Chunk
  PROVE  /\ Out(Headed(w, s)) /\ Out(Filled(w, c))
         /\ w.wrote => Headed(w, s) = w /\ Filled(w, c).status = w.status
<1> DEFINE W == [wrote : BOOLEAN, status : Status, body : Seq(Chunk)]
<1>0. w \in W /\ (w.wrote <=> w.status # 0)
  BY DEF Sound, Response
<1>1. \A t \in 100 .. 599 :
        Headed(w, t) \in W /\ Headed(w, t).wrote /\ Headed(w, t).status # 0
  <2> TAKE t \in 100 .. 599
  <2>1. t \in Status /\ t # 0
    BY DEF Status
  <2>2. CASE w.wrote
    BY <1>0, <2>2 DEF Headed
  <2>3. CASE ~w.wrote
    <3>1. Headed(w, t) = [wrote |-> TRUE, status |-> t, body |-> w.body]
      BY <2>3 DEF Headed
    <3> QED
      BY <1>0, <2>1, <3>1
  <2> QED
    BY <2>2, <2>3
<1>2. w.wrote => \A t : Headed(w, t) = w
  BY DEF Headed
<1>3. 200 \in 100 .. 599
  OBVIOUS
<1> DEFINE h == Headed(w, 200)
<1>4. h \in W /\ h.wrote /\ h.status # 0
  BY <1>1, <1>3
<1>5. Append(h.body, c) \in Seq(Chunk)
  <2>1. h.body \in Seq(Chunk)
    BY <1>4
  <2> QED
    BY <2>1
<1>6. Filled(w, c) = h \/ Filled(w, c) = [wrote |-> TRUE, status |-> h.status, body |-> Append(h.body, c)]
  BY DEF Filled
<1>7. /\ Filled(w, c) \in W
      /\ Filled(w, c).wrote /\ Filled(w, c).status = h.status
  <2>1. h.status \in Status /\ h.body \in Seq(Chunk)
    BY <1>4
  <2>2. CASE Filled(w, c) = h
    BY <1>4, <2>2
  <2>3. CASE Filled(w, c) = [wrote |-> TRUE, status |-> h.status, body |-> Append(h.body, c)]
    <3> DEFINE b == Append(h.body, c)
        st == h.status
    <3>1. b \in Seq(Chunk) /\ st \in Status /\ st # 0
      BY <1>4, <1>5, <2>1
    <3> HIDE DEF b, st
    <3>2. Filled(w, c) = [wrote |-> TRUE, status |-> st, body |-> b]
      BY <2>3 DEF b, st
    <3>3. Filled(w, c).status = st
      BY <3>2
    <3> QED
      BY <3>1, <3>2, <3>3 DEF st
  <2> QED
    BY <1>6, <2>2, <2>3
<1> QED
  BY <1>0, <1>1, <1>2, <1>4, <1>7 DEF Out, Response

\* What one answer is, for whoever reads it.
Whole(kind, s) == [wrote |-> TRUE, status |-> s, body |-> <<Chunked(kind, s)>>]
Bare(s) == [wrote |-> TRUE, status |-> s, body |-> <<>>]

LEMMA WholeType ==
  ASSUME NEW s \in 100 .. 599, NEW kind \in {"error", "data", "text"}
  PROVE  /\ Whole(kind, s) \in Response
         /\ Whole(kind, s).wrote /\ Whole(kind, s).status = s /\ s # 0
         /\ Len(Whole(kind, s).body) = 1
         /\ Whole(kind, s).body # <<>>
         /\ \A i \in DOMAIN Whole(kind, s).body :
              Whole(kind, s).body[i].status = s /\ Whole(kind, s).body[i].kind = kind
         /\ Bare(s) \in Response
         /\ Bare(s).wrote /\ Bare(s).status = s /\ Bare(s).body = <<>>
<1> DEFINE c == Chunked(kind, s)
<1>1. c \in Chunk /\ c.status = s /\ c.kind = kind
  BY DEF Chunk, Status, Chunked
<1>2. s \in Status /\ s # 0
  BY DEF Status
<1>3. Whole(kind, s) = [wrote |-> TRUE, status |-> s, body |-> <<c>>]
  BY DEF Whole
<1> HIDE DEF c
<1>4. /\ <<c>> \in Seq(Chunk) /\ Len(<<c>>) = 1 /\ <<c>> # <<>>
      /\ \A i \in DOMAIN <<c>> : <<c>>[i] = c
  BY <1>1
<1>5. Whole(kind, s) \in Response
  BY <1>2, <1>3, <1>4 DEF Response
<1>6. /\ Whole(kind, s).wrote /\ Whole(kind, s).status = s
      /\ Whole(kind, s).body = <<c>>
  BY <1>3
<1>7. Bare(s) \in Response /\ Bare(s).wrote /\ Bare(s).status = s /\ Bare(s).body = <<>>
  BY <1>2 DEF Bare, Response
<1> QED
  BY <1>1, <1>2, <1>4, <1>5, <1>6, <1>7

\* A step that ends a request with one answer of status s.
Replies(s, kind) ==
  /\ pc \in OnItsWay \union {"any"} /\ pc' = "log" /\ req' = req /\ log' = log
  /\ \/ sent' = Whole(kind, s) /\ s # 204
     \/ sent' = Bare(s) /\ (req.by = "hand" => s = 204) /\ req.by # "stub" /\ panicked' = "no"
  /\ seen' = s
  /\ ctx' \in SUBSET {"identity", "params"}
  /\ panicked' \in {"no", "before"}
  /\ panicked' = "before" => kind = "error" /\ s = 500
  /\ req.by \in {"hand", "stub"} => (kind = "error" <=> s >= 400)
  /\ req.by = "hand" /\ ~Authentic => s = 401 \/ (panicked' # "no" /\ s = 500)
  /\ served' \in BOOLEAN
  /\ GateHolds' /\ HandlerSeesWellFormed'

\* Going to the log with one answer keeps the invariant.
LEMMA Reply ==
  ASSUME IInv, NEW s \in 100 .. 599, NEW kind \in {"error", "data", "text"}, Replies(s, kind)
  PROVE  IInv'
<1>1. /\ sent' \in Response /\ sent'.wrote /\ sent'.status = s /\ s # 0 /\ s \in Status
  <2>1. /\ Whole(kind, s) \in Response /\ Whole(kind, s).wrote /\ Whole(kind, s).status = s
        /\ Bare(s) \in Response /\ Bare(s).wrote /\ Bare(s).status = s
    <3>1. Whole(kind, s) \in Response /\ Bare(s) \in Response
      BY WholeType
    <3> QED
      BY <3>1 DEF Whole, Bare
  <2> QED
    BY <2>1 DEF Status, Replies
<1>2. TypeOK'
  BY <1>1 DEF Replies, IInv, TypeOK, Stages, Response, Status, NoLine
<1>3. Where'
  BY DEF Replies, IInv, Where, OnItsWay
<1>4. Written'
  BY <1>1 DEF Replies, Written, OnItsWay
<1>5. Passed'
  BY DEF Replies, Passed
<1>6. AnswerOf'
  <2>1. CASE sent' = Whole(kind, s) /\ s # 204
    <3>1. /\ Len(sent'.body) <= 1 /\ sent'.body # <<>>
          /\ \A i \in DOMAIN sent'.body : sent'.body[i].status = s /\ sent'.body[i].kind = kind
      <4> DEFINE c == Chunked(kind, s)
      <4>1. c.status = s /\ c.kind = kind
        BY DEF Chunked
      <4>2. sent'.body = <<c>>
        BY <2>1 DEF Whole
      <4> HIDE DEF c
      <4> QED
        BY <4>1, <4>2
    <3>2. panicked' = "before" =>
            sent' = [wrote |-> TRUE, status |-> 500, body |-> <<Chunked("error", 500)>>]
      BY <2>1 DEF Whole, Replies
    <3> QED
      BY <1>1, <2>1, <3>1, <3>2 DEF Replies, AnswerOf
  <2>2. CASE sent' = Bare(s) /\ (req.by = "hand" => s = 204) /\ req.by # "stub" /\ panicked' = "no"
    <3>1. sent'.body = <<>>
      BY <2>2, WholeType
    <3>2. Len(sent'.body) <= 1 /\ DOMAIN sent'.body = {}
      BY <3>1
    <3> QED
      BY <1>1, <2>2, <3>1, <3>2 DEF Replies, AnswerOf
  <2> QED
    BY <2>1, <2>2 DEF Replies
<1>7. Replied'
  BY <1>1, <1>6 DEF Replies, Replied, Authentic
<1> QED
  BY <1>2, <1>3, <1>4, <1>5, <1>7 DEF IInv, Replies

\* Moving on without a word keeps it too, when the next stage may expect what it does.
LEMMA MovesOn ==
  ASSUME IInv, pc \in OnItsWay, pc' \in OnItsWay,
         UNCHANGED <<req, served, sent, seen, log, panicked>>,
         ctx' \in SUBSET {"identity", "params"},
         Where', Passed'
  PROVE  IInv'
<1>1. ~served /\ pc # "idle" /\ pc \notin {"log", "sent"} /\ pc' \notin {"log", "sent", "idle"}
  BY DEF IInv, Written, OnItsWay
<1>2. TypeOK'
  BY DEF IInv, TypeOK, Stages, OnItsWay
<1>3. Written'
  BY DEF IInv, Written
<1>4. Replied'
  BY <1>1 DEF Replied
<1>5. GateHolds' /\ HandlerSeesWellFormed'
  BY <1>1 DEF GateHolds, HandlerSeesWellFormed, Done
<1> QED
  BY <1>2, <1>3, <1>4, <1>5 DEF IInv

\* What writing an answer on a blank response comes to.
LEMMA Writes ==
  ASSUME IInv, sent = Blank, NEW s \in 100 .. 599
  PROVE  /\ s # 204 /\ WriteError(s) => sent' = Whole("error", s) /\ seen' = s
         /\ s # 204 /\ WriteData(s) => sent' = Whole("data", s) /\ seen' = s
         /\ s # 204 /\ WriteText(s) => sent' = Whole("text", s) /\ seen' = s
         /\ Through(Headed(sent, s)) => sent' = Bare(s) /\ seen' = s
<1>1. seen = 0
  BY DEF IInv, Written, Blank
<1>2. \A kind \in {"error", "data", "text"} :
        s # 204 => Filled(Headed(sent, s), Chunked(kind, s)) = Whole(kind, s)
  BY OneAnswer DEF Whole
<1>3. Headed(sent, s) = Bare(s)
  BY BareAnswer DEF Bare
<1>4. \A kind \in {"error", "data", "text"} : Whole(kind, s).status = s
  BY DEF Whole
<1>5. Bare(s).status = s
  BY DEF Bare
<1> QED
  BY <1>1, <1>2, <1>3, <1>4, <1>5 DEF WriteError, WriteData, WriteText, Through

\* Below the chain nothing is written and no domain code has run.
LEMMA Fresh ==
  ASSUME IInv, pc \in OnItsWay
  PROVE  sent = Blank /\ panicked = "no" /\ ~served
  BY DEF IInv, Written

\* Nothing has to be shown of a request for which no domain code runs.
LEMMA NotServed ==
  ASSUME ~served', pc' # "sent"
  PROVE  GateHolds' /\ HandlerSeesWellFormed'
  BY DEF GateHolds, HandlerSeesWellFormed, Done

\* A request of a hand-written handler is one of its operation.
LEMMA ArriveKeeps == ASSUME IInv, NEW q \in Request, Arrive(q) PROVE IInv'
<1>1. pc' \in {"guard", "stub", "bind", "any"} /\ req' = q /\ q \in Request
      /\ UNCHANGED <<ctx, served, sent, seen, log, panicked>> /\ pc = "idle"
  BY DEF Arrive, Entry, Request, Kinds
<1>2. /\ pc' = "guard" => q.by = "hand"
      /\ pc' = "stub" => q.by = "stub"
      /\ pc' = "bind" => q.by \in {"strict", "unimplemented"}
      /\ pc' = "any" => q.by = "any"
  BY DEF Arrive, Entry, Request, Kinds
<1>3. q.by = "hand" => q.op \in Handlers
  <2>1. q.op \in Ops
    BY DEF Request
  <2>2. q.by = "hand" => \E h \in Handlers : Mounted[h].route = Route[q.op]
    BY DEF Arrive, At
  <2> SUFFICES ASSUME q.by = "hand" PROVE q.op \in Handlers
    OBVIOUS
  <2>3. PICK h \in Handlers : Mounted[h].route = Route[q.op]
    BY <2>2
  <2>4. h \in Ops /\ Mounted[h].route = Route[h]
    BY ContractAssumption, MountAssumption, Zenon
  <2>5. Route[h] = Route[q.op]
    BY <2>3, <2>4, Zenon
  <2> QED
    BY <2>1, <2>4, <2>5, ContractAssumption, Zenon
<1>4. req' # NoRequest
  BY <1>1 DEF Request, Kinds, NoRequest
<1>5. Where'
  BY <1>1, <1>2, <1>3, <1>4 DEF Where
<1>6. TypeOK'
  BY <1>1 DEF IInv, TypeOK, Stages
<1>7. Written'
  BY <1>1 DEF IInv, Written, OnItsWay
<1>8. Passed' /\ Replied'
  BY <1>1 DEF Passed, Replied
<1>9. GateHolds' /\ HandlerSeesWellFormed'
  BY <1>1, NotServed DEF IInv, Written
<1> QED
  BY <1>5, <1>6, <1>7, <1>8, <1>9 DEF IInv

\* A panic before anything was written leaves the envelope of 500; after, only an
\* arbitrary handler can have written.
LEMMA PanicKeeps == ASSUME IInv, Panic PROVE IInv'
<1>0. PICK s \in 100 .. 599 : s = 500 /\ s # 204 /\ s >= 400
  BY 500 \in 100 .. 599
<1>1. /\ pc \in {"guard", "decode", "service", "wrap", "handle", "any"}
      /\ pc' = "log" /\ UNCHANGED <<req, ctx, served, log>>
      /\ panicked' = IF sent.wrote THEN "after" ELSE "before"
      /\ WriteError(s)
  BY <1>0 DEF Panic
<1>2. ~served /\ served \in BOOLEAN /\ ctx \in SUBSET {"identity", "params"}
  BY <1>1 DEF IInv, Written, TypeOK, OnItsWay
<1>3. GateHolds' /\ HandlerSeesWellFormed'
  BY <1>1, <1>2, NotServed
<1>4. CASE ~sent.wrote
  <2>1. sent = Blank
    BY <1>4 DEF IInv, Written
  <2>2. sent' = Whole("error", s) /\ seen' = s
    BY <1>0, <1>1, <2>1, Writes
  <2>3. panicked' = "before"
    BY <1>1, <1>4
  <2>4. Replies(s, "error")
    BY <1>0, <1>1, <1>2, <1>3, <2>2, <2>3 DEF Replies, OnItsWay
  <2> QED
    BY <2>4, Reply
<1>5. CASE sent.wrote
  <2>1. pc = "any" /\ req.by = "any" /\ req # NoRequest
    BY <1>1, <1>5, Fresh DEF IInv, Where, Blank, OnItsWay
  <2>2. Chunked("error", s) \in Chunk
    BY DEF Chunked, Chunk, Status
  <2>3. Sound(sent) /\ Headed(sent, s) = sent
    BY <1>5 DEF Headed, IInv, TypeOK, Written, Sound, Response
  <2>4. sent' = Filled(sent, Chunked("error", s)) /\ seen' = seen
    <3>1. seen # 0
      BY <1>5 DEF IInv, Written
    <3> QED
      BY <1>1, <2>3, <3>1 DEF WriteError, Through
  <2>5. Out(sent') /\ sent'.status = sent.status
    <3>1. Sound(sent)
      BY <2>3
    <3>2. \A c \in Chunk : Out(Filled(sent, c)) /\ Filled(sent, c).status = sent.status
      BY <1>5, <3>1, WrittenType
    <3> QED
      BY <2>2, <2>4, <3>2, Zenon
  <2>6. TypeOK' /\ panicked' = "after"
    BY <1>1, <1>5, <2>4, <2>5 DEF IInv, TypeOK, Stages, Out, Response
  <2>7. Where' /\ Passed'
    BY <1>1, <2>1 DEF IInv, Where, Passed
  <2>8. Written'
    BY <1>1, <2>4, <2>5 DEF IInv, Written, OnItsWay, Out
  <2>9. Replied'
    BY <1>1, <2>1, <2>6 DEF Replied, AnswerOf
  <2> QED
    BY <1>3, <2>6, <2>7, <2>8, <2>9 DEF IInv
<1> QED
  BY <1>4, <1>5

\* The line of the log takes what the wrapper saw.
LEMMA LogKeeps == ASSUME IInv, Log PROVE IInv'
<1>1. pc = "log" /\ log' = seen /\ pc' = "sent" /\ UNCHANGED <<req, ctx, served, sent, seen, panicked>>
  BY DEF Log
<1>2. TypeOK'
  BY <1>1 DEF IInv, TypeOK, Stages
<1>3. Where' /\ Written' /\ Passed'
  BY <1>1 DEF IInv, Where, Written, Passed, OnItsWay
<1>4. Replied'
  BY <1>1 DEF IInv, Replied, AnswerOf, Authentic
<1>5. GateHolds'
  BY <1>1 DEF IInv, Replied, GateHolds, Done, Authentic
<1>6. HandlerSeesWellFormed'
  BY <1>1 DEF IInv, HandlerSeesWellFormed, Undecodable
<1> QED
  BY <1>2, <1>3, <1>4, <1>5, <1>6 DEF IInv

\* Between two requests nothing is left of the first.
LEMMA FinishKeeps == ASSUME IInv, Finish PROVE IInv'
<1>1. /\ pc' = "idle" /\ req' = NoRequest /\ ctx' = {} /\ ~served' /\ served' \in BOOLEAN
      /\ sent' = Blank /\ seen' = 0 /\ log' = NoLine /\ panicked' = "no"
  BY DEF Finish
<1>2. Blank \in [wrote : BOOLEAN, status : Status, body : Seq(Chunk)] /\ ~Blank.wrote /\ Blank.status = 0
  BY DEF Blank, Status
<1>3. NoRequest.by = "none"
  BY DEF NoRequest
<1>4. TypeOK'
  BY <1>1, <1>2 DEF TypeOK, Stages, Status
<1>5. Where' /\ Passed' /\ Replied'
  BY <1>1, <1>3 DEF Where, Passed, Replied
<1>6. Written'
  BY <1>1, <1>2 DEF Written
<1>7. GateHolds' /\ HandlerSeesWellFormed'
  BY <1>1, NotServed
<1> QED
  BY <1>4, <1>5, <1>6, <1>7 DEF IInv

\* A step that refuses a request before any domain code.
Refuses(s) ==
  /\ pc \in OnItsWay /\ pc' = "log"
  /\ WriteError(s) \/ (WriteText(s) /\ req.by \notin {"hand", "stub"})
  /\ UNCHANGED <<req, served, log, panicked>>
  /\ ctx' \in SUBSET {"identity", "params"}
  /\ req.by = "hand" /\ ~Authentic => s = 401

LEMMA Refusing ==
  ASSUME IInv, NEW s \in 400 .. 599, Refuses(s)
  PROVE  IInv'
<1>1. /\ pc \in OnItsWay /\ pc' = "log" /\ UNCHANGED <<req, served, log, panicked>>
      /\ WriteError(s) \/ (WriteText(s) /\ req.by \notin {"hand", "stub"})
      /\ ctx' \in SUBSET {"identity", "params"}
      /\ req.by = "hand" /\ ~Authentic => s = 401
  BY DEF Refuses
<1>2. sent = Blank /\ panicked = "no" /\ ~served /\ served \in BOOLEAN
  BY <1>1, Fresh DEF IInv, TypeOK
<1>3. GateHolds' /\ HandlerSeesWellFormed'
  BY <1>1, <1>2, NotServed
<1>4. s \in 100 .. 599 /\ s # 204 /\ s >= 400
  OBVIOUS
<1>5. CASE WriteError(s)
  <2>1. sent' = Whole("error", s) /\ seen' = s
    BY <1>2, <1>4, <1>5, Writes
  <2>2. Replies(s, "error")
    BY <1>1, <1>2, <1>3, <1>4, <2>1 DEF Replies
  <2> QED
    BY <1>4, <2>2, Reply
<1>6. CASE WriteText(s) /\ req.by \notin {"hand", "stub"}
  <2>1. sent' = Whole("text", s) /\ seen' = s
    BY <1>2, <1>4, <1>6, Writes
  <2>2. Replies(s, "text")
    BY <1>1, <1>2, <1>3, <1>4, <1>6, <2>1 DEF Replies
  <2> QED
    BY <1>4, <2>2, Reply
<1> QED
  BY <1>1, <1>5, <1>6

LEMMA ContextType ==
  ASSUME IInv
  PROVE  /\ ctx \in SUBSET {"identity", "params"}
         /\ ctx \union {"identity"} \in SUBSET {"identity", "params"}
         /\ ctx \union {"params"} \in SUBSET {"identity", "params"}
  BY DEF IInv, TypeOK

\* The catch-all.
LEMMA StubKeeps == ASSUME IInv, Stub PROVE IInv'
<1>1. pc \in OnItsWay /\ req.by # "hand"
  BY DEF Stub, IInv, Where, OnItsWay
<1>2. Refuses(501)
  BY <1>1, ContextType DEF Stub, Refuses
<1> QED
  BY <1>2, Refusing, 501 \in 400 .. 599

\* The scheme the contract names is the one the middleware asks for.
LEMMA GuardIsScheme ==
  ASSUME req.op \in Handlers
  PROVE  /\ Guard = "none" => Authentic
         /\ Guard # "none" /\ req.cred.scheme = Guard /\ req.cred.valid => Authentic
<1>1. Schemes[req.op] = IF Guard = "none" THEN {} ELSE {Guard}
  BY MountAssumption DEF Guard
<1> QED
  BY <1>1 DEF Authentic

\* Past the guard the request has the credential of its operation.
LEMMA AuthenticateKeeps == ASSUME IInv, Authenticate PROVE IInv'
<1>1. /\ pc = "guard" /\ pc \in OnItsWay /\ req.by = "hand" /\ req.op \in Handlers
      /\ UNCHANGED <<req, served, log, panicked>>
  BY DEF Authenticate, IInv, Where, OnItsWay
<1>2. CASE pc' = "decode" /\ WriteNothing /\ ctx' \in {ctx, ctx \union {"identity"}}
           /\ (Guard # "none" => "identity" \in ctx' /\ Authentic)
  <2>1. Where'
    BY <1>1, <1>2 DEF IInv, Where
  <2>2. Passed'
    BY <1>1, <1>2 DEF Passed, Guard, Authentic
  <2>3. pc' \in OnItsWay /\ UNCHANGED <<sent, seen>>
    BY <1>2 DEF OnItsWay, WriteNothing
  <2> QED
    BY <1>1, <1>2, <2>1, <2>2, <2>3, ContextType, MovesOn
<1>3. CASE pc' = "log" /\ WriteError(401) /\ UNCHANGED ctx
  <2>1. Refuses(401)
    BY <1>1, <1>3, ContextType DEF Refuses
  <2> QED
    BY <2>1, Refusing, 401 \in 400 .. 599
<1>4. \/ Guard = "none" /\ pc' = "decode" /\ WriteNothing /\ ctx' = ctx
      \/ /\ Guard # "none" /\ req.cred.scheme = Guard /\ req.cred.valid
         /\ ctx' = ctx \union {"identity"} /\ pc' = "decode" /\ WriteNothing
      \/ pc' = "log" /\ WriteError(401) /\ UNCHANGED ctx
  BY DEF Authenticate
<1> QED
  BY <1>1, <1>2, <1>3, <1>4, GuardIsScheme

\* The head of a handler refuses with an error, or has the service see a request
\* that it should.
LEMMA DecodeKeeps == ASSUME IInv, Decode PROVE IInv'
<1>1. /\ pc = "decode" /\ pc \in OnItsWay /\ req.by = "hand" /\ req.op \in Handlers
      /\ UNCHANGED <<req, ctx, served, log, panicked>>
      /\ Guard # "none" => "identity" \in ctx /\ Authentic
  BY DEF Decode, IInv, Where, Passed, OnItsWay
<1>2. CASE Refusal = 0
  <2>1. pc' = "service" /\ UNCHANGED <<sent, seen>>
    BY <1>2 DEF Decode, WriteNothing
  <2>2. Where'
    BY <1>1, <2>1 DEF IInv, Where
  <2>3. Passed'
    BY <1>1, <1>2, <2>1 DEF Passed, Guard, Authentic, Refusal
  <2> QED
    BY <1>1, <2>1, <2>2, <2>3, ContextType, MovesOn DEF OnItsWay
<1>3. CASE Refusal # 0
  <2>1. Refusal \in {400, 401, 422}
    BY <1>3 DEF Refusal
  <2>2. PICK s \in {400, 401, 422} : s = Refusal
    BY <2>1
  <2>3. pc' = "log" /\ WriteError(s)
    BY <1>3, <2>2 DEF Decode
  <2>4. req.by = "hand" /\ ~Authentic => s = 401
    BY <1>1, GuardIsScheme
  <2>5. Refuses(s)
    BY <1>1, <2>3, <2>4, ContextType DEF Refuses
  <2> QED
    BY <2>5, Refusing, s \in 400 .. 599
<1> QED
  BY <1>2, <1>3

\* The service is called for a request that passed, and answered once.
LEMMA ServeKeeps == ASSUME IInv, Serve PROVE IInv'
<1>1. /\ pc = "service" /\ pc \in OnItsWay /\ req.by = "hand" /\ req.op \in Handlers
      /\ pc' = "log" /\ served' = TRUE
      /\ UNCHANGED <<req, ctx, log, panicked>>
      /\ Guard # "none" => "identity" \in ctx /\ Authentic
      /\ Refusal = 0
  BY DEF Serve, IInv, Where, Passed, OnItsWay
<1>2. sent = Blank /\ panicked = "no"
  BY <1>1, Fresh
<1>3. Authentic
  BY <1>1, GuardIsScheme
<1>4. GateHolds'
  BY <1>1, <1>3 DEF GateHolds, Authentic
<1>5. HandlerSeesWellFormed'
  <2>1. Schemes[req.op] = IF Guard = "none" THEN {} ELSE {Guard}
    BY <1>1, MountAssumption DEF Guard
  <2>2. Schemes[req.op] # {} => "identity" \in ctx
    BY <1>1, <2>1
  <2>3. Body[req.op] = "required" => req.op \in Validating
    BY <1>1, MountAssumption
  <2>4. req.body \in Contents
    BY <1>1 DEF IInv, TypeOK, Request, Where, NoRequest
  <2>5. req.op \in Validating => req.body = "valid"
    BY <1>1, <2>4 DEF Refusal, Validating, Decoding, Contents
  <2> QED
    BY <1>1, <2>2, <2>3, <2>5 DEF HandlerSeesWellFormed
<1>6. PICK s \in {200, 204, 401, 500} :
        CASE s = 200 -> WriteData(s)
          [] s = 204 -> Through(Headed(sent, s))
          [] OTHER   -> WriteError(s)
  <2>1. Outcomes[req.op] \subseteq {200, 204, 401, 500}
    BY <1>1 DEF Outcomes, Handlers, Mounted
  <2> QED
    BY <2>1 DEF Serve
<1>7. s \in 100 .. 599
  OBVIOUS
<1>8. CASE s = 200
  <2>1. sent' = Whole("data", s) /\ seen' = s
    BY <1>2, <1>6, <1>7, <1>8, Writes
  <2>2. Replies(s, "data")
    BY <1>1, <1>2, <1>3, <1>4, <1>5, <1>8, <2>1, ContextType DEF Replies
  <2> QED
    BY <1>7, <2>2, Reply
<1>9. CASE s = 204
  <2>1. sent' = Bare(s) /\ seen' = s
    BY <1>2, <1>6, <1>7, <1>9, Writes
  <2>2. Replies(s, "data")
    BY <1>1, <1>2, <1>3, <1>4, <1>5, <1>9, <2>1, ContextType DEF Replies
  <2> QED
    BY <1>7, <2>2, Reply
<1>10. CASE s \in {401, 500}
  <2>1. sent' = Whole("error", s) /\ seen' = s
    BY <1>2, <1>6, <1>7, <1>10, Writes
  <2>2. Replies(s, "error")
    BY <1>1, <1>2, <1>3, <1>4, <1>5, <1>10, <2>1, ContextType DEF Replies
  <2> QED
    BY <1>7, <2>2, Reply
<1> QED
  BY <1>6, <1>8, <1>9, <1>10

\* The wrapper reaches the next stage with its parameters, or refuses.
LEMMA BindKeeps == ASSUME IInv, Bind PROVE IInv'
<1>1. /\ pc = "bind" /\ pc \in OnItsWay /\ req.by \in {"strict", "unimplemented"}
      /\ UNCHANGED <<req, served, log, panicked>>
  BY DEF Bind, IInv, Where, OnItsWay
<1>2. CASE pc' = "wrap" /\ ctx' = ctx \union {"params"} /\ WriteNothing
  <2>1. Where' /\ Passed'
    BY <1>1, <1>2 DEF IInv, Where, Passed
  <2> QED
    BY <1>1, <1>2, <2>1, ContextType, MovesOn DEF OnItsWay, WriteNothing
<1>3. CASE pc' = "log" /\ WriteText(400) /\ UNCHANGED ctx
  <2>1. Refuses(400)
    BY <1>1, <1>3, ContextType DEF Refuses
  <2> QED
    BY <2>1, Refusing, 400 \in 400 .. 599
<1> QED
  BY <1>2, <1>3 DEF Bind

\* A guard of the generated server refuses, or lets the request pass.
LEMMA WrapKeeps == ASSUME IInv, Wrap PROVE IInv'
<1>1. /\ pc = "wrap" /\ pc \in OnItsWay /\ req.by \in {"strict", "unimplemented"}
      /\ "params" \in ctx
      /\ UNCHANGED <<req, ctx, served, log, panicked>>
  BY DEF Wrap, IInv, Where, Passed, OnItsWay
<1>2. CASE pc' = (IF req.by = "strict" THEN "body" ELSE "handle") /\ WriteNothing
  <2>1. Where' /\ Passed'
    BY <1>1, <1>2 DEF IInv, Where, Passed
  <2> QED
    BY <1>1, <1>2, <2>1, ContextType, MovesOn DEF OnItsWay, WriteNothing
<1>3. ASSUME NEW s \in {401, 403}, WriteError(s), pc' = "log" PROVE IInv'
  <2>1. Refuses(s)
    BY <1>1, <1>3, ContextType DEF Refuses
  <2> QED
    BY <2>1, Refusing, s \in 400 .. 599
<1> QED
  BY <1>2, <1>3 DEF Wrap

\* The strict server passes on a body it could decode.
LEMMA StrictDecodeKeeps == ASSUME IInv, StrictDecode PROVE IInv'
<1>1. /\ pc = "body" /\ pc \in OnItsWay /\ req.by = "strict" /\ "params" \in ctx
      /\ UNCHANGED <<req, ctx, served, log, panicked>>
  BY DEF StrictDecode, IInv, Where, Passed, OnItsWay
<1>2. CASE ~Undecodable
  <2>1. pc' = "handle" /\ WriteNothing
    BY <1>2 DEF StrictDecode
  <2>2. Where' /\ Passed'
    BY <1>1, <1>2, <2>1 DEF IInv, Where, Passed, Undecodable
  <2> QED
    BY <1>1, <2>1, <2>2, ContextType, MovesOn DEF OnItsWay, WriteNothing
<1>3. CASE Undecodable
  <2>1. Refuses(400)
    BY <1>1, <1>3, ContextType DEF StrictDecode, Refuses
  <2> QED
    BY <2>1, Refusing, 400 \in 400 .. 599
<1> QED
  BY <1>2, <1>3

\* A domain's handler answers at most once.
LEMMA HandleKeeps == ASSUME IInv, Handle PROVE IInv'
<1>1. /\ pc = "handle" /\ pc \in OnItsWay /\ req.by \in {"strict", "unimplemented"}
      /\ "params" \in ctx /\ (req.by = "strict" => ~Undecodable)
      /\ pc' = "log" /\ UNCHANGED <<req, ctx, log, panicked>>
  BY DEF Handle, IInv, Where, Passed, OnItsWay
<1>2. sent = Blank /\ panicked = "no" /\ ~served /\ served \in BOOLEAN /\ req \in Request
  BY <1>1, Fresh DEF IInv, TypeOK, Where
<1>3. served' \in BOOLEAN /\ (served' => req.by = "strict")
  BY <1>1, <1>2 DEF Handle
<1>4. served' \in BOOLEAN /\ GateHolds' /\ HandlerSeesWellFormed'
  BY <1>1, <1>2, <1>3 DEF GateHolds, HandlerSeesWellFormed, Undecodable, Done
<1>5. ASSUME NEW s \in 100 .. 599, NEW kind \in {"error", "data", "text"},
             seen' = s, (sent' = Whole(kind, s) /\ s # 204) \/ sent' = Bare(s)
      PROVE  IInv'
  <2>1. Replies(s, kind)
    BY <1>1, <1>2, <1>4, <1>5, ContextType DEF Replies
  <2> QED
    BY <2>1, Reply
<1>6. CASE Through(Headed(sent, 501))
  <2>1. PICK s \in 100 .. 599 : s = 501
    BY 501 \in 100 .. 599
  <2>2. sent' = Bare(s) /\ seen' = s
    BY <1>2, <1>6, <2>1, Writes
  <2> QED
    BY <1>5, <2>2
<1>7. CASE WriteText(500)
  <2>1. PICK s \in 100 .. 599 : s = 500
    BY 500 \in 100 .. 599
  <2>2. sent' = Whole("text", s) /\ seen' = s /\ s # 204
    BY <1>2, <1>7, <2>1, Writes
  <2> QED
    BY <1>5, <2>2
<1>8. ASSUME NEW s \in 100 .. 599, Visit(s) PROVE IInv'
  <2>1. CASE Through(Headed(sent, s))
    BY <1>2, <1>5, <2>1, Writes
  <2>2. CASE s # 204 /\ WriteData(s)
    <3>1. sent' = Whole("data", s) /\ seen' = s
      BY <1>2, <2>2, Writes
    <3> QED
      BY <1>5, <2>2, <3>1
  <2> QED
    BY <1>7, <1>8, <2>1, <2>2 DEF Visit
<1>9. CASE WriteNothing
  <2>1. sent' = Blank /\ seen' = seen
    BY <1>2, <1>9 DEF WriteNothing
  <2>2. TypeOK'
    BY <1>1, <1>2, <1>4, <2>1 DEF IInv, TypeOK, Stages
  <2>3. Where' /\ Written' /\ Passed'
    BY <1>1, <1>2, <2>1 DEF IInv, Where, Written, Passed, OnItsWay
  <2>4. Blank.body = <<>> /\ Len(Blank.body) = 0 /\ DOMAIN Blank.body = {}
    BY DEF Blank
  <2>5. Replied'
    BY <1>1, <1>2, <2>1, <2>4 DEF Replied, AnswerOf
  <2> QED
    BY <1>4, <2>2, <2>3, <2>5 DEF IInv
<1>11. ASSUME NEW s \in {401, 403}, WriteError(s) PROVE IInv'
  <2>1. s \in 100 .. 599 /\ s # 204
    OBVIOUS
  <2>2. sent' = Whole("error", s) /\ seen' = s
    BY <1>2, <1>11, <2>1, Writes
  <2> QED
    BY <1>5, <2>1, <2>2
<1>10. req.op \in Ops /\ \A s \in Declared[req.op] : s \in 100 .. 599
  <2>1. req.op \in Ops
    BY <1>2 DEF Request
  <2> QED
    BY <2>1, ContractAssumption
<1> QED
  BY <1>6, <1>7, <1>8, <1>9, <1>10, <1>11 DEF Handle

\* An arbitrary handler writes in pieces, under its first status.
LEMMA ScribbleKeeps == ASSUME IInv, Scribble PROVE IInv'
<1>1. /\ pc = "any" /\ UNCHANGED <<pc, req, ctx, served, log, panicked>>
      /\ Sound(sent) /\ (sent.wrote <=> seen # 0) /\ seen = sent.status
      /\ panicked = "no" /\ ~served
  BY DEF Scribble, IInv, TypeOK, Written, Sound, Response
<1>2. Chunked("data", 200) \in Chunk
  BY DEF Chunked, Chunk, Status
<1>3. PICK w : Through(w) /\ Out(w) /\ (sent.wrote => w.status = sent.status)
  <2>1. CASE \E s \in {200, 404} : Through(Headed(sent, s))
    <3>1. PICK s \in {200, 404} : Through(Headed(sent, s))
      BY <2>1
    <3>2. s \in 100 .. 599
      OBVIOUS
    <3>3. Out(Headed(sent, s)) /\ (sent.wrote => Headed(sent, s) = sent)
      BY <1>1, <1>2, <3>2, WrittenType
    <3> QED
      BY <3>1, <3>3
  <2>2. CASE Through(Filled(sent, Chunked("data", 200)))
    <3>1. PICK s \in 100 .. 599 : s = 200
      BY 200 \in 100 .. 599
    <3>2. \A c \in Chunk : Out(Filled(sent, c)) /\ (sent.wrote => Filled(sent, c).status = sent.status)
      BY <1>1, <3>1, WrittenType
    <3> DEFINE f == Filled(sent, Chunked("data", 200))
    <3>3. Out(f) /\ (sent.wrote => f.status = sent.status)
      BY <1>2, <3>2
    <3>4. Through(f)
      BY <2>2
    <3> HIDE DEF f
    <3> QED
      BY <3>3, <3>4
  <2> QED
    BY <2>1, <2>2 DEF Scribble
<1>4. sent' = w /\ seen' = w.status /\ w \in Response /\ w.wrote /\ w.status # 0
  BY <1>1, <1>3 DEF Through, Out
<1>5. TypeOK'
  BY <1>1, <1>4 DEF IInv, TypeOK, Response
<1>6. Where' /\ Passed' /\ Replied'
  BY <1>1 DEF IInv, Where, Passed, Replied
<1>7. Written'
  BY <1>1, <1>4 DEF Written, OnItsWay
<1>8. GateHolds' /\ HandlerSeesWellFormed'
  BY <1>1, NotServed
<1> QED
  BY <1>5, <1>6, <1>7, <1>8 DEF IInv

LEMMA ReturnKeeps == ASSUME IInv, Return PROVE IInv'
<1>1. /\ pc = "any" /\ pc' = "log" /\ req.by = "any"
      /\ UNCHANGED <<req, ctx, served, sent, seen, log, panicked>>
      /\ panicked = "no" /\ ~served
  BY DEF Return, IInv, Where, Written
<1>2. TypeOK' /\ Where' /\ Passed'
  BY <1>1 DEF IInv, TypeOK, Stages, Where, Passed
<1>3. Written' /\ Replied'
  BY <1>1 DEF IInv, Written, Replied, AnswerOf, OnItsWay
<1>4. GateHolds' /\ HandlerSeesWellFormed'
  BY <1>1, NotServed
<1> QED
  BY <1>2, <1>3, <1>4 DEF IInv

LEMMA Begins == Init => IInv
<1> SUFFICES ASSUME Init PROVE IInv
  OBVIOUS
<1>1. Blank \in [wrote : BOOLEAN, status : Status, body : Seq(Chunk)] /\ ~Blank.wrote /\ Blank.status = 0
  BY DEF Blank, Status
<1>2. NoRequest.by = "none"
  BY DEF NoRequest
<1>3. TypeOK
  BY <1>1 DEF Init, TypeOK, Stages, Status
<1>4. Where /\ Passed /\ Replied /\ Written
  BY <1>1, <1>2 DEF Init, Where, Passed, Replied, Written
<1>5. GateHolds /\ HandlerSeesWellFormed
  BY DEF Init, GateHolds, HandlerSeesWellFormed, Done
<1> QED
  BY <1>3, <1>4, <1>5 DEF IInv

LEMMA Keeps == IInv /\ [Next]_vars => IInv'
<1> SUFFICES ASSUME IInv, [Next]_vars PROVE IInv'
  OBVIOUS
<1>1. CASE UNCHANGED vars
  BY <1>1 DEF vars, IInv, TypeOK, Where, Written, Passed, Replied, AnswerOf, GateHolds,
    HandlerSeesWellFormed, Done, Authentic, Refusal, Guard, Undecodable
<1>2. CASE Next
  BY <1>2, ArriveKeeps, PanicKeeps, LogKeeps, FinishKeeps, StubKeeps, AuthenticateKeeps,
    DecodeKeeps, ServeKeeps, BindKeeps, WrapKeeps, StrictDecodeKeeps, HandleKeeps,
    ScribbleKeeps, ReturnKeeps DEF Next
<1> QED
  BY <1>1, <1>2

\* The inductive invariant holds of every request of every connection, whatever the
\* contract says beyond the two assumptions.
THEOREM Invariance == Spec => []IInv
  BY Begins, Keeps, PTL DEF Spec

\* The line of the log has the status the client got (Logging, Recoverer).
THEOREM LoggedStatus == Spec => []LogTellsTheAnswer
<1>1. IInv => LogTellsTheAnswer
  BY DEF IInv, Written, Replied, LogTellsTheAnswer, Done
<1> QED
  BY <1>1, Invariance, PTL

\* One status, at most one body, of that status; the envelope of 500 after an early
\* panic.
THEOREM WholeAnswers == Spec => []AnswerIsWhole
<1>1. IInv => AnswerIsWhole
  BY DEF IInv, Replied, AnswerIsWhole, Done
<1> QED
  BY <1>1, Invariance, PTL

\* No domain code of a hand-written handler runs without the credential the contract
\* asks (Mount, RequireInitData, RequireAdminJWT).
THEOREM Gate == Spec => []GateHolds
<1>1. IInv => GateHolds
  BY DEF IInv
<1> QED
  BY <1>1, Invariance, PTL

\* Domain code sees a bound, decoded and identified request.
THEOREM WellFormed == Spec => []HandlerSeesWellFormed
<1>1. IInv => HandlerSeesWellFormed
  BY DEF IInv
<1> QED
  BY <1>1, Invariance, PTL
=============================================================================
