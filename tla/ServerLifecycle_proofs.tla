------------------------ MODULE ServerLifecycle_proofs ------------------------
(***************************************************************************)
(* Safety of a process's start and end, for any number of requests and of   *)
(* pool connections.                                                        *)
(***************************************************************************)
EXTENDS ServerLifecycle, TLAPS

\* The position of NewPool among the steps of a program; beyond them for bot.
PoolStep == IF program = "api" THEN 2 ELSE IF program = "worker" THEN 1 ELSE 4

LEMMA Lengths ==
  /\ Len(Startup["api"]) = 3
  /\ Len(Startup["worker"]) = 2
  /\ Len(Startup["bot"]) = 0
BY DEF Startup

LEMMA PoolPlace ==
  ASSUME program \in {"api", "worker", "bot"}
  PROVE  /\ Len(Startup[program]) \in Nat
         /\ \A i \in 1 .. Len(Startup[program]) : Startup[program][i] = "pool" <=> i = PoolStep
<1>1. CASE program = "api"
  BY <1>1, Lengths DEF Startup, PoolStep
<1>2. CASE program = "worker"
  BY <1>2, Lengths DEF Startup, PoolStep
<1>3. CASE program = "bot"
  BY <1>3, Lengths DEF Startup, PoolStep
<1> QED BY <1>1, <1>2, <1>3

\* The pool is there once its step is done.
LEMMA PoolByCount ==
  ASSUME TypeOK
  PROVE  HasPool <=> PoolStep <= done
<1>1. /\ Len(Startup[program]) \in Nat
      /\ \A i \in 1 .. Len(Startup[program]) : Startup[program][i] = "pool" <=> i = PoolStep
  BY PoolPlace DEF TypeOK
<1>2. done \in 0 .. Len(Startup[program]) /\ PoolStep \in Nat \ {0}
  BY DEF TypeOK, PoolStep
<1>3. ASSUME HasPool PROVE PoolStep <= done
  BY <1>1, <1>2, <1>3 DEF HasPool
<1>4. ASSUME PoolStep <= done PROVE HasPool
  BY <1>1, <1>2, <1>4 DEF HasPool
<1> QED BY <1>3, <1>4

RequestStep(r) ==
  \/ Arrive(r) \/ ClientSends(r) \/ ClientReads(r) \/ ClientLeaves(r)
  \/ Acquire(r) \/ Release(r) \/ Deny(r) \/ Finish(r)

LEMMA IInvInit == Init => IInv
<1> SUFFICES ASSUME Init PROVE IInv
  OBVIOUS
<1>1. TypeOK
  <2>1. Len(Startup[program]) \in Nat
    BY PoolPlace DEF Init
  <2>2. IdleRequest \in Request
    BY DEF IdleRequest, Request, Stages
  <2>3. req \in [Reqs -> Request]
    BY <2>2 DEF Init
  <2>4. done \in 0 .. Len(Startup[program])
    BY <2>1 DEF Init
  <2> QED BY <2>3, <2>4 DEF Init, TypeOK, PCs, Listeners, Pools
<1>2. ~HasPool
  BY DEF Init, HasPool
<1> QED BY <1>1, <1>2 DEF Init, IInv, ListenerOK, PoolOK, AbandonOK, Abandoned, Busy, Waited, IdleRequest

----------------------------------------------------------------------------
\* What a request does changes no part of the server, and none of them starts
\* before a listener or outlives the pool's last connection.
LEMMA RequestKeeps ==
  ASSUME IInv, NEW r \in Reqs, RequestStep(r)
  PROVE  IInv'
<1> USE DEF RequestStep, Arrive, ClientSends, ClientReads, ClientLeaves, Acquire, Release, Deny, Finish, Goes
<1>1. UNCHANGED server
  OBVIOUS
<1>2. UNCHANGED pool
  OBVIOUS
<1>3. TypeOK'
  <2>1. req' \in [Reqs -> Request]
    <3>1. req \in [Reqs -> Request]
      BY DEF IInv, TypeOK
    <3>2. CASE Arrive(r)
      <4>1. /\ [at |-> "reading", tracked |-> TRUE] \in Request
            /\ [at |-> "work", tracked |-> FALSE] \in Request
        BY DEF Request, Stages
      <4> QED BY <3>1, <3>2, <4>1 DEF Arrive
    <3>3. ASSUME NEW from, NEW to \in Stages, Goes(r, from, to) PROVE req' \in [Reqs -> Request]
      BY <3>1, <3>3 DEF Goes, Request
    <3> QED BY <3>2, <3>3 DEF Stages
  <2>2. denied' \subseteq Reqs
    BY DEF IInv, TypeOK
  <2> QED BY <1>1, <1>2, <2>1, <2>2 DEF IInv, TypeOK, server
<1>4. ~Dead /\ (Busy(r) \/ Reachable)
  BY DEF Busy
<1>5. \A q \in Reqs \ {r} : req'[q] = req[q]
  BY DEF IInv, TypeOK
<1>6. ListenerOK'
  BY <1>1, <1>4, <1>5 DEF IInv, ListenerOK, server, Busy, Reachable
<1>7. req'[r].at = "query" => req[r].at = "query" \/ pool = "open"
  BY DEF IInv, TypeOK, Request
<1>8. PoolOK'
  <2>1. HasPool' <=> HasPool
    BY <1>1 DEF HasPool, server
  <2>2. pool \in {"none", "closed"} => \A q \in Reqs : req'[q].at # "query"
    BY <1>5, <1>7 DEF IInv, PoolOK
  <2> QED BY <1>1, <1>2, <2>1, <2>2 DEF IInv, PoolOK, LastStep, server
<1>9. AbandonOK'
  <2>1. Waited(r)' => Waited(r) \/ Reachable
    BY DEF IInv, TypeOK, Request, Waited, Busy
  <2>2. pc \in {"unwind", "exited"} /\ Reachable => Abandoned
    BY DEF Reachable, Abandoned, IInv, ListenerOK
  <2>3. \A q \in Reqs \ {r} : Waited(q)' <=> Waited(q)
    BY <1>5 DEF Waited, Busy
  <2>4. (pc \in {"unwind", "exited"} \/ pool \in {"closing", "closed"}) /\ (\E q \in Reqs : Waited(q)')
          => Abandoned
    BY <1>4, <2>1, <2>2, <2>3 DEF IInv, AbandonOK, PoolOK, Dead
  <2>5. denied' # {} => denied # {} \/ (Waited(r) /\ pool \in {"closing", "closed"})
    BY DEF Waited, Busy
  <2>6. denied' # {} => Abandoned /\ pc \in {"unwind", "exited", "killed"}
    BY <1>4, <2>5 DEF IInv, AbandonOK, PoolOK, Dead
  <2>7. Abandoned' <=> Abandoned
    BY <1>1 DEF Abandoned, server
  <2> QED BY <1>1, <1>2, <2>4, <2>6, <2>7 DEF IInv, AbandonOK, Waited, Busy, server
<1> QED BY <1>3, <1>6, <1>8, <1>9 DEF IInv

----------------------------------------------------------------------------
\* Steps of the main goroutine, the listener's and the signal.
ServerStep ==
  \/ Signal \/ Kill \/ Configure \/ StepSucceeds \/ StepFails \/ Serve
  \/ Listen \/ Stop \/ ListenerError \/ Drained \/ Expire
  \/ CloseOther \/ ClosePool \/ PoolClosed \/ Exit

LEMMA ServerTypes ==
  ASSUME IInv, ServerStep
  PROVE  TypeOK'
<1> USE DEF ServerStep, Signal, Kill, Configure, StepSucceeds, StepFails, Serve, Listen, Stop,
            ListenerError, Drained, Expire, CloseOther, ClosePool, PoolClosed, Exit, server
<1>1. /\ program' = program /\ program \in {"api", "worker", "bot"}
      /\ req' = req /\ denied' = denied
  BY DEF IInv, TypeOK
<1>2. Len(Startup[program]) \in Nat
  BY <1>1, PoolPlace
<1>3. done' \in 0 .. Len(Startup[program])
  <2>1. CASE PoolClosed
    <3>1. done \in 0 .. Len(Startup[program]) /\ done # 0
      <4>1. HasPool
        BY <2>1 DEF IInv, PoolOK
      <4> QED BY <4>1 DEF HasPool, IInv, TypeOK
    <3> QED BY <1>2, <2>1, <3>1
  <2> QED BY <1>2, <2>1 DEF IInv, TypeOK
<1>4. pc' \in PCs /\ signalled' \in BOOLEAN /\ expired' \in BOOLEAN /\ err' \in BOOLEAN
  BY DEF IInv, TypeOK, PCs
<1>5. listener' \in Listeners /\ pool' \in Pools
  BY DEF IInv, TypeOK, Listeners, Pools
<1> QED BY <1>1, <1>3, <1>4, <1>5 DEF IInv, TypeOK

LEMMA ServerListener ==
  ASSUME IInv, ServerStep
  PROVE  ListenerOK'
<1> USE DEF ServerStep, Signal, Kill, Configure, StepSucceeds, StepFails, Serve, Listen, Stop,
            ListenerError, Drained, Expire, CloseOther, ClosePool, PoolClosed, Exit, server
<1>1. req' = req
  OBVIOUS
<1>2. listener' = "on" => pc' \in {"serve", "killed"}
  BY DEF IInv, ListenerOK
<1>3. /\ pc' \in {"config", "start"} => listener' = "off"
      /\ pc' = "drain" => listener' # "broken"
  BY DEF IInv, ListenerOK
<1>4. listener' \in {"off", "failed"} => listener \in {"off", "failed"}
  OBVIOUS
<1> QED BY <1>1, <1>2, <1>3, <1>4 DEF IInv, ListenerOK, Busy

\* In terms of the count of start-up steps.
LEMMA ServerPool ==
  ASSUME IInv, ServerStep
  PROVE  PoolOK'
<1>1. TypeOK /\ TypeOK'
  BY ServerTypes DEF IInv
<1>2. program' = program /\ req' = req
  BY DEF ServerStep, Signal, Kill, Configure, StepSucceeds, StepFails, Serve, Listen, Stop,
         ListenerError, Drained, Expire, CloseOther, ClosePool, PoolClosed, Exit, server
<1>3. /\ HasPool <=> PoolStep <= done
      /\ HasPool' <=> PoolStep <= done'
  <2>1. PoolStep' = PoolStep
    BY <1>2 DEF PoolStep
  <2>2. HasPool' <=> PoolStep' <= done'
    <3>1. /\ Len(Startup[program]) \in Nat
          /\ \A i \in 1 .. Len(Startup[program]) : Startup[program][i] = "pool" <=> i = PoolStep
      BY <1>1, PoolPlace DEF TypeOK
    <3>2. done' \in 0 .. Len(Startup[program]) /\ PoolStep \in Nat \ {0}
      BY <1>1, <1>2 DEF TypeOK, PoolStep
    <3>3. HasPool' <=> \E i \in 1 .. done' : Startup[program][i] = "pool"
      BY <1>2 DEF HasPool
    <3> QED BY <2>1, <3>1, <3>2, <3>3
  <2> QED BY <1>1, <2>1, <2>2, PoolByCount
<1>4. /\ Len(Startup[program]) \in Nat
      /\ done \in 0 .. Len(Startup[program]) /\ done' \in 0 .. Len(Startup[program])
      /\ PoolStep \in Nat \ {0}
      /\ \A i \in 1 .. Len(Startup[program]) : Startup[program][i] = "pool" <=> i = PoolStep
  BY <1>1, <1>2, PoolPlace DEF TypeOK, PoolStep
<1> USE DEF IInv, PoolOK
<1>5. CASE Signal \/ Kill \/ Configure \/ StepFails \/ Serve \/ Listen \/ Stop
             \/ ListenerError \/ Drained \/ Expire \/ Exit
  <2>1. done' = done /\ pool' = pool
    BY <1>5 DEF Signal, Kill, Configure, StepFails, Serve, Listen, Stop, ListenerError, Drained, Expire, Exit
  <2>2. HasPool' <=> HasPool
    BY <1>3, <2>1
  <2>3. pc' = "exited" => done = 0 /\ pool # "closing"
    BY <1>5, <1>1, <1>4 DEF Signal, Kill, Configure, StepFails, Serve, Listen, Stop, ListenerError, Drained,
                      Expire, Exit, HasPool
  <2>4. /\ pc \in {"unwind", "exited", "killed"} => pc' \in {"unwind", "exited", "killed"}
        /\ pc \in {"unwind", "killed"} => pc' \in {"unwind", "exited", "killed"}
    BY <1>5 DEF Signal, Kill, Configure, StepFails, Serve, Listen, Stop, ListenerError, Drained, Expire, Exit
  <2>5. LastStep' = LastStep
    BY <1>2, <2>1 DEF LastStep
  <2>6. pc' = "config" => done = 0
    BY <1>5 DEF Signal, Kill, Configure, StepFails, Serve, Listen, Stop, ListenerError, Drained, Expire, Exit
  <2>7. pc' \in {"serve", "drain"} => done = Len(Startup[program])
    BY <1>5 DEF Signal, Kill, Configure, StepFails, Serve, Listen, Stop, ListenerError, Drained, Expire, Exit
  <2> QED BY <1>2, <2>1, <2>2, <2>3, <2>4, <2>5, <2>6, <2>7
<1>6. CASE StepSucceeds
  <2>1. /\ done' = done + 1 /\ pc' = "start" /\ pc = "start"
        /\ pool' = IF PoolStep = done + 1 THEN "open" ELSE pool
    BY <1>4, <1>6 DEF StepSucceeds, NextStep
  <2>2. pool \notin {"closing", "closed"}
    BY <2>1
  <2> QED BY <1>1, <1>2, <1>3, <1>4, <2>1, <2>2 DEF TypeOK, Pools
<1>7. CASE CloseOther
  <2>1. /\ done' = done - 1 /\ pc' = "unwind" /\ pc = "unwind" /\ pool' = pool
        /\ PoolStep # done /\ done > 0
    BY <1>4, <1>7 DEF CloseOther, LastStep
  <2>2. pool # "closing"
    BY <1>7 DEF CloseOther
  <2> QED BY <1>1, <1>2, <1>3, <1>4, <2>1, <2>2 DEF TypeOK, Pools
<1>8. CASE ClosePool
  BY <1>2, <1>3, <1>8 DEF ClosePool, server, LastStep
<1>9. CASE PoolClosed
  <2>1. /\ done' = done - 1 /\ pc' = pc /\ pc = "unwind" /\ pool' = "closed"
        /\ done > 0 /\ PoolStep = done /\ \A q \in Reqs : req[q].at # "query"
    <3>1. done > 0
      BY <1>3, <1>4, <1>9 DEF PoolClosed
    <3> QED BY <1>4, <1>9, <3>1 DEF PoolClosed, LastStep
  <2> QED BY <1>1, <1>2, <1>3, <1>4, <2>1 DEF TypeOK, Pools
<1> QED BY <1>5, <1>6, <1>7, <1>8, <1>9 DEF ServerStep

\* Why a request is left behind.
LEMMA ServerAbandon ==
  ASSUME IInv, ServerStep
  PROVE  AbandonOK'
<1> USE DEF ServerStep, Signal, Kill, Configure, StepSucceeds, StepFails, Serve, Listen, Stop,
            ListenerError, Drained, Expire, CloseOther, ClosePool, PoolClosed, Exit, server
<1>1. req' = req /\ denied' = denied
  OBVIOUS
<1>2. pc \in {"unwind", "exited", "killed"} =>
        pc' \in {"unwind", "exited", "killed"} /\ expired' = expired /\ listener' = listener /\ err' = err
  OBVIOUS
<1>3. pc' \in {"unwind", "exited"} /\ pc \notin {"unwind", "exited"} =>
        Configure \/ StepFails \/ ListenerError \/ Drained \/ Expire
  BY DEF IInv, TypeOK, PCs
<1>4. (pc' \in {"unwind", "exited"} \/ pool' \in {"closing", "closed"}) /\ (\E r \in Reqs : Waited(r)')
        => Abandoned'
  <2>1. pool' \in {"closing", "closed"} => pool \in {"closing", "closed"} \/ pc = "unwind"
    OBVIOUS
  <2>2. pool \in {"closing", "closed"} => pc \in {"unwind", "exited", "killed"}
    BY DEF IInv, PoolOK
  <2> QED BY <1>1, <1>2, <1>3, <2>1, <2>2 DEF IInv, ListenerOK, AbandonOK, Abandoned, Waited, Busy
<1>5. expired' => pc' \in {"unwind", "exited", "killed"}
  BY DEF IInv, AbandonOK
<1>6. Abandoned' /\ pc' \in {"unwind", "exited"} => err'
  <2>1. CASE Drained
    BY <2>1 DEF IInv, AbandonOK, Abandoned, ListenerOK
  <2> QED BY <1>2, <1>3, <2>1 DEF IInv, AbandonOK, Abandoned
<1>7. denied' # {} => Abandoned' /\ pc' \in {"unwind", "exited", "killed"}
  BY <1>1, <1>2 DEF IInv, AbandonOK, Abandoned
<1> QED BY <1>1, <1>4, <1>5, <1>6, <1>7 DEF AbandonOK, Waited, Busy

----------------------------------------------------------------------------
\* The inductive invariant.
THEOREM Invariance == Spec => []IInv
<1>1. Init => IInv
  BY IInvInit
<1>2. IInv /\ [Next]_vars => IInv'
  <2> SUFFICES ASSUME IInv, [Next]_vars PROVE IInv'
    OBVIOUS
  <2>1. CASE ServerStep
    BY <2>1, ServerTypes, ServerListener, ServerPool, ServerAbandon DEF IInv
  <2>2. CASE \E r \in Reqs : RequestStep(r)
    BY <2>2, RequestKeeps
  <2>3. CASE UNCHANGED vars
    BY <2>3 DEF IInv, TypeOK, ListenerOK, PoolOK, AbandonOK, Abandoned, HasPool, LastStep, Waited, Busy,
                vars, server
  <2> QED BY <2>1, <2>2, <2>3 DEF Next, ServerStep, RequestStep
<1> QED BY <1>1, <1>2, PTL DEF Spec

\* Exit code 0 means that nobody who was being served was turned away or cut off.
THEOREM CleanExit == Spec => []ExitZeroIsClean
<1>1. IInv => ExitZeroIsClean
  BY DEF IInv, AbandonOK, ExitZeroIsClean
<1> QED BY <1>1, Invariance, PTL

\* The grace of Shutdown is kept: the pool and the process stay for the requests
\* whose clients wait, until it is over or the listener has broken.
THEOREM Grace == Spec => []GraceIsKept
<1>1. IInv => GraceIsKept
  BY DEF IInv, PoolOK, AbandonOK, GraceIsKept
<1> QED BY <1>1, Invariance, PTL

\* The process does not end before every transaction has.
THEOREM WholeTransactions == Spec => []NoTransactionIsCut
<1>1. IInv => NoTransactionIsCut
  <2> SUFFICES ASSUME IInv, pc = "exited" PROVE \A r \in Reqs : req[r].at # "query"
    BY DEF NoTransactionIsCut
  <2>1. done = 0
    BY DEF IInv, PoolOK
  <2>2. ~HasPool
    BY <2>1 DEF HasPool
  <2> QED BY <2>2 DEF IInv, TypeOK, Pools, PoolOK
<1> QED BY <1>1, Invariance, PTL
=============================================================================
