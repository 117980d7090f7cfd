--------------------------- MODULE ServerLifecycle ---------------------------
(***************************************************************************)
(* The life of one process of the backend: cmd/api, cmd/worker or cmd/bot.  *)
(* run() opens its resources one after the other and defers their closing,  *)
(* httpx.Run serves until a signal cancels the context or the listener      *)
(* fails, Shutdown gives the requests in flight ten seconds, and the        *)
(* deferred calls close the resources in reverse order.                     *)
(*                                                                          *)
(* The server, the pool and the requests are separate goroutines.  Of a     *)
(* request the model keeps whether it waits for its client, holds a         *)
(* database connection or does neither.  A client may take any time: the    *)
(* server has a timeout for headers only.                                   *)
(***************************************************************************)
EXTENDS Integers, Sequences, FiniteSets

CONSTANTS
  Reqs,    \* slots for requests in flight
  Conns    \* connections the pool may open

ASSUME ConnsAssumption == Conns \in Nat \ {0}

VARIABLES
  program,    \* which of the three programs this process runs
  pc,         \* where run() is
  done,       \* start-up steps taken and not yet undone by the deferred calls
  signalled,  \* the signal context is cancelled
  listener,
  expired,    \* the ten seconds of Shutdown are over
  err,        \* run() returns an error, so that main exits with 1
  pool,
  req,        \* request slot -> what it is doing
  denied      \* slots whose request met a closed pool while its client waited

server == <<program, pc, done, signalled, listener, expired, err>>
vars == <<server, pool, req, denied>>

----------------------------------------------------------------------------
\* The steps of run() that can fail, in their order.
Startup == [api |-> <<"migrate", "pool", "redis">>, worker |-> <<"pool", "rabbit">>, bot |-> <<>>]

\* NewPool and redis.New ping with the signal context; Migrate and rabbit.Dial
\* know nothing of it.
WithContext == {"pool", "redis"}

PCs == {"config", "start", "serve", "drain", "unwind", "exited", "killed"}

\* off: not listening yet, or never; failed: it could not listen; broken: it
\* listened and stopped by itself; closed: by Shutdown.
Listeners == {"off", "on", "failed", "broken", "closed"}
Pools == {"none", "open", "closing", "closed"}

\* reading: the body is on its way; work: no connection held; query: one is;
\* writing: the answer is on its way.
Stages == {"idle", "reading", "work", "query", "writing"}

\* tracked: Shutdown knows of the connection, and the client still has it.
Request == [at: Stages, tracked: BOOLEAN]
IdleRequest == [at |-> "idle", tracked |-> TRUE]

Busy(r) == req[r].at # "idle"
Waited(r) == Busy(r) /\ req[r].tracked
Dead == pc \in {"exited", "killed"}

\* bot has no resources, and its handlers ask for none.
UsesPool == program # "bot"

Init ==
  /\ program \in {"api", "worker", "bot"}
  /\ pc = "config" /\ done = 0 /\ signalled = FALSE
  /\ listener = "off" /\ expired = FALSE /\ err = FALSE
  /\ pool = "none"
  /\ req = [r \in Reqs |-> IdleRequest]
  /\ denied = {}

----------------------------------------------------------------------------
(* Start-up.                                                                *)

\* SIGINT or SIGTERM.  Before NotifyContext it kills; a second one is ignored.
Signal ==
  /\ ~Dead
  /\ IF pc = "config" THEN pc' = "killed" /\ UNCHANGED signalled
                      ELSE signalled' = TRUE /\ UNCHANGED pc
  /\ UNCHANGED <<program, done, listener, expired, err, pool, req, denied>>

\* SIGKILL, out of memory, a fatal error: docker stop kills after ten seconds,
\* as long as Shutdown itself may take.
Kill ==
  /\ ~Dead
  /\ pc' = "killed"
  /\ UNCHANGED <<program, done, signalled, listener, expired, err, pool, req, denied>>

\* config.Load and its Require methods: either all is there, or run() returns.
Configure ==
  /\ pc = "config"
  /\ \/ pc' = "start" /\ UNCHANGED err
     \/ pc' = "unwind" /\ err' = TRUE
  /\ UNCHANGED <<program, done, signalled, listener, expired, pool, req, denied>>

NextStep == Startup[program][done + 1]

StepSucceeds ==
  /\ pc = "start" /\ done < Len(Startup[program])
  /\ ~(signalled /\ NextStep \in WithContext)
  /\ done' = done + 1
  /\ pool' = IF NextStep = "pool" THEN "open" ELSE pool
  /\ UNCHANGED <<program, pc, signalled, listener, expired, err, req, denied>>

\* What the step itself has opened, it closes.
StepFails ==
  /\ pc = "start" /\ done < Len(Startup[program])
  /\ pc' = "unwind" /\ err' = TRUE
  /\ UNCHANGED <<program, done, signalled, listener, expired, pool, req, denied>>

Serve ==
  /\ pc = "start" /\ done = Len(Startup[program])
  /\ pc' = "serve"
  /\ UNCHANGED <<program, done, signalled, listener, expired, err, pool, req, denied>>

----------------------------------------------------------------------------
(* httpx.Run.                                                               *)

\* The goroutine that calls ListenAndServe.  Its error waits in errCh.
Listen ==
  /\ pc = "serve"
  /\ \/ listener = "off" /\ listener' \in {"on", "failed"}
     \/ listener = "on" /\ listener' = "broken"
  /\ UNCHANGED <<program, pc, done, signalled, expired, err, pool, req, denied>>

\* Of the two cases of select, both may be ready.  Shutdown closes the listener
\* at once; a ListenAndServe that had not listened yet never will.
Stop ==
  /\ pc = "serve" /\ signalled
  /\ pc' = "drain"
  /\ listener' = IF listener \in {"on", "broken"} THEN "closed" ELSE listener
  /\ UNCHANGED <<program, done, signalled, expired, err, pool, req, denied>>

ListenerError ==
  /\ pc = "serve" /\ listener \in {"failed", "broken"}
  /\ pc' = "unwind" /\ err' = TRUE
  /\ UNCHANGED <<program, done, signalled, listener, expired, pool, req, denied>>

\* Broken variant of Drained: Close in place of Shutdown.
DrainedAtOnce ==
  /\ pc = "drain"
  /\ pc' = "unwind"
  /\ UNCHANGED <<program, done, signalled, listener, expired, err, pool, req, denied>>

\* Shutdown finds no connection with a request.
Drained ==
  /\ pc = "drain" /\ \A r \in Reqs : ~Waited(r)
  /\ pc' = "unwind"
  /\ UNCHANGED <<program, done, signalled, listener, expired, err, pool, req, denied>>

\* Broken variants of Expire: Shutdown's error is dropped; it has no deadline.
ExpireUnnoticed ==
  /\ pc = "drain"
  /\ pc' = "unwind" /\ expired' = TRUE
  /\ UNCHANGED <<program, done, signalled, listener, err, pool, req, denied>>
ExpireNever == FALSE /\ UNCHANGED vars

\* The ten seconds are over, and Shutdown returns the context's error.
Expire ==
  /\ pc = "drain"
  /\ pc' = "unwind" /\ expired' = TRUE /\ err' = TRUE
  /\ UNCHANGED <<program, done, signalled, listener, pool, req, denied>>

----------------------------------------------------------------------------
(* The deferred calls.                                                      *)

LastStep == Startup[program][done]

CloseOther ==
  /\ pc = "unwind" /\ done > 0 /\ LastStep # "pool"
  /\ done' = done - 1
  /\ UNCHANGED <<program, pc, signalled, listener, expired, err, pool, req, denied>>

\* Broken variant of ClosePool: no deferred pool.Close.
ClosePoolForgotten ==
  /\ pc = "unwind" /\ done > 0 /\ LastStep = "pool"
  /\ done' = done - 1
  /\ UNCHANGED <<program, pc, signalled, listener, expired, err, pool, req, denied>>

\* pool.Close gives out no connection from now on.
ClosePool ==
  /\ pc = "unwind" /\ done > 0 /\ LastStep = "pool" /\ pool = "open"
  /\ pool' = "closing"
  /\ UNCHANGED <<server, req, denied>>

\* pool.Close returns when every connection has come back.
PoolClosed ==
  /\ pc = "unwind" /\ pool = "closing" /\ \A r \in Reqs : req[r].at # "query"
  /\ pool' = "closed" /\ done' = done - 1
  /\ UNCHANGED <<program, pc, signalled, listener, expired, err, req, denied>>

\* stop(), and the end of main: with whatever requests are left.
Exit ==
  /\ pc = "unwind" /\ done = 0
  /\ pc' = "exited"
  /\ UNCHANGED <<program, done, signalled, listener, expired, err, pool, req, denied>>

----------------------------------------------------------------------------
(* Requests.                                                                *)

\* The server reads requests from connections it has accepted, also after the
\* listener is gone: until Shutdown has closed those that are idle.
Reachable == listener \in {"on", "broken"} \/ (listener = "closed" /\ pc = "drain")

\* A request whose connection Shutdown closes as idle, while its last header is
\* read, runs all the same, and nobody waits for it.
Arrive(r) ==
  /\ ~Dead /\ Reachable /\ ~Busy(r)
  /\ \/ req' = [req EXCEPT ![r] = [at |-> "reading", tracked |-> TRUE]]
     \/ pc = "drain" /\ req' = [req EXCEPT ![r] = [at |-> "work", tracked |-> FALSE]]
  /\ UNCHANGED <<server, pool, denied>>

Goes(r, from, to) ==
  /\ ~Dead /\ req[r].at = from
  /\ req' = [req EXCEPT ![r].at = to]

\* The client has sent the body; it reads the answer; it goes away.
ClientSends(r) == Goes(r, "reading", "work") /\ UNCHANGED <<server, pool, denied>>
ClientReads(r) == Goes(r, "writing", "idle") /\ UNCHANGED <<server, pool, denied>>
ClientLeaves(r) == Goes(r, "reading", "idle") /\ UNCHANGED <<server, pool, denied>>

Acquire(r) ==
  /\ UsesPool /\ pool = "open"
  /\ Cardinality({q \in Reqs : req[q].at = "query"}) < Conns
  /\ Goes(r, "work", "query")
  /\ UNCHANGED <<server, pool, denied>>

\* The statement, or the transaction, has ended and the connection is back; the
\* handler goes on or answers.
Release(r) ==
  /\ Goes(r, "query", "work") \/ Goes(r, "query", "writing")
  /\ UNCHANGED <<server, pool, denied>>

\* Acquire returns "closed pool", and the handler answers 500 (or 401).
Deny(r) ==
  /\ UsesPool /\ pool \in {"closing", "closed"}
  /\ Goes(r, "work", "writing")
  /\ denied' = IF req[r].tracked THEN denied \union {r} ELSE denied
  /\ UNCHANGED <<server, pool>>

\* The handler is through, without asking for another connection.
Finish(r) == Goes(r, "work", "writing") /\ UNCHANGED <<server, pool, denied>>

Main == Configure \/ StepSucceeds \/ StepFails \/ Serve \/ Stop \/ ListenerError
          \/ Drained \/ Expire \/ CloseOther \/ ClosePool \/ PoolClosed \/ Exit

Next ==
  \/ Signal \/ Kill \/ Configure \/ StepSucceeds \/ StepFails \/ Serve
  \/ Listen \/ Stop \/ ListenerError \/ Drained \/ Expire
  \/ CloseOther \/ ClosePool \/ PoolClosed \/ Exit
  \/ \E r \in Reqs :
       \/ Arrive(r) \/ ClientSends(r) \/ ClientReads(r) \/ ClientLeaves(r)
       \/ Acquire(r) \/ Release(r) \/ Deny(r) \/ Finish(r)

Spec == Init /\ [][Next]_vars

\* The main goroutine goes on when it can, a timer included, and a statement
\* that has been sent to PostgreSQL ends.  Clients may stall for ever.
FairSpec == Spec /\ WF_vars(Main) /\ \A r \in Reqs : WF_vars(Release(r))

----------------------------------------------------------------------------
(* Properties.                                                              *)

TypeOK ==
  /\ program \in {"api", "worker", "bot"}
  /\ pc \in PCs
  /\ done \in 0 .. Len(Startup[program])
  /\ signalled \in BOOLEAN /\ expired \in BOOLEAN /\ err \in BOOLEAN
  /\ listener \in Listeners
  /\ pool \in Pools
  /\ req \in [Reqs -> Request]
  /\ denied \subseteq Reqs

\* The listener is on only while httpx.Run serves, Shutdown closes a broken one
\* too, and there is no request before there was a listener.
ListenerOK ==
  /\ listener = "on" => pc \in {"serve", "killed"}
  /\ pc = "drain" => listener # "broken"
  /\ pc \in {"config", "start"} => listener = "off"
  /\ listener \in {"off", "failed"} => \A r \in Reqs : ~Busy(r)

\* The pool is open from its step until the deferred call, and is closed once.
HasPool == \E i \in 1 .. done : Startup[program][i] = "pool"
PoolOK ==
  /\ pool \in {"open", "closing"} <=> HasPool
  /\ pool \in {"closing", "closed"} => pc \in {"unwind", "exited", "killed"}
  /\ pool = "closing" => pc \in {"unwind", "killed"} /\ LastStep = "pool"
  /\ pool \in {"none", "closed"} => \A r \in Reqs : req[r].at # "query"
  /\ pc \in {"config", "exited"} => done = 0
  /\ pc \in {"serve", "drain"} => done = Len(Startup[program])

\* Why a request that is still waited for outlives httpx.Run: the grace is over,
\* or there was none because the listener broke; either way run() says so.
Abandoned == expired \/ listener = "broken"
AbandonOK ==
  /\ (pc \in {"unwind", "exited"} \/ pool \in {"closing", "closed"}) /\ (\E r \in Reqs : Waited(r))
       => Abandoned
  /\ denied # {} => Abandoned /\ pc \in {"unwind", "exited", "killed"}
  /\ expired => pc \in {"unwind", "exited", "killed"}
  /\ Abandoned /\ pc \in {"unwind", "exited"} => err

IInv == TypeOK /\ ListenerOK /\ PoolOK /\ AbandonOK

\* httpx.go:48: "then shuts down gracefully".  Exit code 0 tells the supervisor
\* that nobody who was being served was turned away or cut off.
ExitZeroIsClean ==
  pc = "exited" /\ ~err => denied = {} /\ \A r \in Reqs : ~Waited(r)

\* Before the ten seconds are over, no request of a client that waits for it
\* finds the pool closed or the process gone, unless the listener broke.
GraceIsKept ==
  pc = "exited" \/ pool \in {"closing", "closed"} =>
    Abandoned \/ (denied = {} /\ \A r \in Reqs : ~Waited(r))

\* Unless it is killed, the process is not gone before every transaction has
\* ended: a shutdown, with or without grace, cuts answers off but no transaction.
NoTransactionIsCut == pc = "exited" => \A r \in Reqs : req[r].at # "query"

\* A process that is asked to stop, or cannot listen, ends, whatever its clients do.
ServerStops == (signalled \/ listener \in {"failed", "broken"}) ~> Dead

=============================================================================
