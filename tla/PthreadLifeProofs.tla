-------------------------- MODULE PthreadLifeProofs --------------------------
(***************************************************************************)
(* Proofs about the life of libpthread threads (PthreadLife), for any      *)
(* number of clients and threads, as long as no client suspends itself     *)
(* again after a join.                                                     *)
(***************************************************************************)
EXTENDS PthreadLife, SequenceTheorems, TLAPS

-----------------------------------------------------------------------------
(* The invariant.                                                          *)

Waiting == {"check", "joining", "collect"}

(* The requests in the pipe. *)
Requests == {pipe[i] : i \in DOMAIN pipe}

(* No request is in the pipe twice. *)
PipeOnce == \A i, j \in DOMAIN pipe : pipe[i] = pipe[j] => i = j

(* A client that has joined suspends itself no more, and until then no     *)
(* restart waits for it that it has not asked for.                         *)
Suspends(c) ==
  /\ hasJoined[c] => pc[c] = "idle"
  /\ pc[c] = "idle" /\ ~hasJoined[c] => pending[c] = 0

(* A creator has its restart exactly when its request has been served. *)
Creates(c) ==
  pc[c] = "creating" =>
    /\ target[c] \in Managed /\ state[target[c]] # "none" /\ pending[c] <= 1
    /\ pending[c] = 0 <=> <<"start", target[c]>> \in Requests

(* A joiner is the one the thread knows of, and it is restarted only when  *)
(* the thread is dead.                                                     *)
Joins(c) ==
  pc[c] \in Waiting =>
    /\ target[c] \in Managed /\ joined[target[c]] /\ jt[target[c]] = c
    /\ listed[target[c]] /\ ~detached[target[c]]
    /\ pending[c] > 0 \/ pc[c] = "collect" => dead[target[c]]

Stack(m) ==
  /\ state[m] \in {"asked", "born", "run", "zombie"} \/ listed[m] => mapped[m]
  /\ listed[m] => state[m] # "none"
  /\ dead[m] => state[m] = "reaped"

(* Whoever has claimed the thread is waiting for it or has got it. *)
Joiner(m) ==
  joined[m] =>
    /\ jt[m] \in Clients
    /\ hasJoined[jt[m]] \/ (pc[jt[m]] \in Waiting /\ target[jt[m]] = m)

Asked(m) ==
  /\ <<"start", m>> \in Requests =>
       state[m] = "asked" /\ \E c \in Clients : pc[c] = "creating" /\ target[c] = m
  /\ <<"cleanup", m>> \in Requests =>
       dead[m] /\ joined[m] /\ hasJoined[jt[m]] /\ listed[m] /\ ~detached[m]

LifeInv ==
  /\ TypeOK /\ PipeOnce
  /\ \A c \in Clients : Suspends(c) /\ Creates(c) /\ Joins(c)
  /\ \A m \in Managed : Stack(m) /\ Joiner(m) /\ Asked(m)
  /\ notify # Null => dead[notify]

-----------------------------------------------------------------------------
(* The request pipe.                                                       *)

(* A request is written that was not in the pipe. *)
LEMMA Written ==
  ASSUME TypeOK, PipeOnce, NEW r \in {"start", "cleanup"} \X Managed, r \notin Requests,
         pipe' = Append(pipe, r)
  PROVE  /\ pipe' \in Seq({"start", "cleanup"} \X Managed)
         /\ Requests' = Requests \cup {r} /\ PipeOnce'
<1> DEFINE n == Len(pipe)
<1>1. pipe \in Seq({"start", "cleanup"} \X Managed) /\ n \in Nat /\ DOMAIN pipe = 1 .. n
  BY DEF TypeOK
<1>2. /\ pipe' \in Seq({"start", "cleanup"} \X Managed) /\ DOMAIN pipe' = 1 .. n + 1 /\ pipe'[n + 1] = r
      /\ \A i \in 1 .. n : pipe'[i] = pipe[i]
  BY <1>1
<1> HIDE DEF n
<1>3. 1 .. n + 1 = 1 .. n \cup {n + 1} /\ n + 1 \notin 1 .. n
  BY <1>1
<1>4. Requests' = Requests \cup {r}
  BY <1>1, <1>2, <1>3 DEF Requests
<1>5. PipeOnce'
  BY <1>1, <1>2, <1>3 DEF PipeOnce, Requests
<1>6. QED
  BY <1>2, <1>4, <1>5

(* The manager reads a request. *)
LEMMA Read ==
  ASSUME TypeOK, PipeOnce, pipe # <<>>, pipe' = Tail(pipe)
  PROVE  /\ Head(pipe) \in {"start", "cleanup"} \X Managed /\ Head(pipe) \in Requests
         /\ pipe' \in Seq({"start", "cleanup"} \X Managed)
         /\ Requests' = Requests \ {Head(pipe)} /\ PipeOnce'
<1> DEFINE n == Len(pipe)
<1>1. pipe \in Seq({"start", "cleanup"} \X Managed) /\ n \in Nat /\ n > 0 /\ DOMAIN pipe = 1 .. n
  BY DEF TypeOK
<1>2. /\ pipe' \in Seq({"start", "cleanup"} \X Managed) /\ Len(pipe') = n - 1 /\ DOMAIN pipe' = 1 .. n - 1
      /\ \A i \in 1 .. n - 1 : pipe'[i] = pipe[i + 1]
      /\ Head(pipe) = pipe[1] /\ Head(pipe) \in {"start", "cleanup"} \X Managed
  BY <1>1
<1> HIDE DEF n
<1>3. /\ 1 \in 1 .. n /\ \A i \in 1 .. n - 1 : i + 1 \in 1 .. n /\ i + 1 # 1
      /\ \A i \in 1 .. n : i # 1 => i - 1 \in 1 .. n - 1 /\ (i - 1) + 1 = i
  BY <1>1
<1>4. Head(pipe) \in Requests
  BY <1>1, <1>2, <1>3 DEF Requests
<1>5. \A i \in 1 .. n : i # 1 => pipe[i] # pipe[1]
  BY <1>1, <1>3 DEF PipeOnce
<1>6. Requests' = Requests \ {Head(pipe)}
  <2>1. \A r \in Requests' : r \in Requests /\ r # pipe[1]
    BY <1>1, <1>2, <1>3, <1>5 DEF Requests
  <2>2. \A r \in Requests : r # pipe[1] => r \in Requests'
    <3> SUFFICES ASSUME NEW i \in 1 .. n, pipe[i] # pipe[1] PROVE pipe[i] \in Requests'
      BY <1>1 DEF Requests
    <3>1. i - 1 \in 1 .. n - 1 /\ pipe'[i - 1] = pipe[i]
      BY <1>2, <1>3
    <3>2. QED
      BY <1>2, <3>1 DEF Requests
  <2>3. QED
    BY <1>2, <2>1, <2>2
<1>7. PipeOnce'
  <2> SUFFICES ASSUME NEW i \in 1 .. n - 1, NEW j \in 1 .. n - 1, pipe'[i] = pipe'[j] PROVE i = j
    BY <1>2 DEF PipeOnce
  <2>1. i + 1 = j + 1
    BY <1>1, <1>2, <1>3 DEF PipeOnce
  <2>2. QED
    BY <1>1, <2>1
<1>8. QED
  BY <1>2, <1>4, <1>6, <1>7

(* The pipe is left alone. *)
LEMMA Untouched ==
  ASSUME PipeOnce, pipe' = pipe
  PROVE  Requests' = Requests /\ PipeOnce'
BY DEF Requests, PipeOnce

-----------------------------------------------------------------------------
(* The clients.                                                            *)

(* What the invariant says of a client and of a thread. *)
LEMMA ClientFacts ==
  ASSUME LifeInv, NEW c \in Clients
  PROVE  Suspends(c) /\ Creates(c) /\ Joins(c) /\ pending[c] \in Nat
BY DEF LifeInv, TypeOK

LEMMA ThreadFacts ==
  ASSUME LifeInv, NEW m \in Managed
  PROVE  Stack(m) /\ Joiner(m) /\ Asked(m)
BY DEF LifeInv

LEMMA CreateKeeps ==
  ASSUME LifeInv, OneSuspension, NEW c \in Clients, NEW m \in Managed, NEW d \in BOOLEAN, Create(c, m, d)
  PROVE  LifeInv'
<1>1. TypeOK /\ PipeOnce
  BY DEF LifeInv
<1>2. /\ pc[c] = "idle" /\ ~hasJoined[c] /\ state[m] = "none"
      /\ state' = [state EXCEPT ![m] = "asked"] /\ mapped' = [mapped EXCEPT ![m] = TRUE]
      /\ detached' = [detached EXCEPT ![m] = d] /\ pipe' = Append(pipe, <<"start", m>>)
      /\ target' = [target EXCEPT ![c] = m] /\ pc' = [pc EXCEPT ![c] = "creating"]
      /\ UNCHANGED <<pending, hasJoined, listed, joined, jt, dead, notify>>
  BY DEF Create, MaySuspend, Goto
<1>3. <<"start", m>> \notin Requests /\ <<"cleanup", m>> \notin Requests /\ ~listed[m] /\ ~dead[m]
  BY <1>2, ThreadFacts DEF Stack, Asked
<1>4. /\ pipe' \in Seq({"start", "cleanup"} \X Managed)
      /\ Requests' = Requests \cup {<<"start", m>>} /\ PipeOnce'
  <2>1. <<"start", m>> \in {"start", "cleanup"} \X Managed
    OBVIOUS
  <2>2. QED
    BY <1>1, <1>2, <1>3, <2>1, Written
<1>5. TypeOK'
  BY <1>1, <1>2, <1>4 DEF TypeOK
<1>6. ASSUME NEW e \in Clients PROVE Suspends(e)' /\ Creates(e)' /\ Joins(e)'
  <2>1. Suspends(e) /\ Creates(e) /\ Joins(e)
    BY ClientFacts
  <2>2. CASE e = c
    BY <1>1, <1>2, <1>4, <2>1, <2>2 DEF TypeOK, Suspends, Creates, Joins, Waiting
  <2>3. CASE e # c
    <3>1. pc'[e] = pc[e] /\ target'[e] = target[e]
      BY <1>1, <1>2, <2>3 DEF TypeOK
    <3>2. Suspends(e)'
      BY <1>2, <2>1, <3>1 DEF Suspends
    <3>3. Creates(e)'
      BY <1>1, <1>2, <1>4, <2>1, <3>1 DEF TypeOK, Creates
    <3>4. Joins(e)'
      BY <1>1, <1>2, <1>3, <2>1, <3>1 DEF TypeOK, Joins
    <3>5. QED
      BY <3>2, <3>3, <3>4
  <2>4. QED
    BY <2>2, <2>3
<1>7. ASSUME NEW n \in Managed PROVE Stack(n)' /\ Joiner(n)' /\ Asked(n)'
  <2>1. Stack(n) /\ Joiner(n) /\ Asked(n)
    BY ThreadFacts
  <2>2. Stack(n)'
    BY <1>1, <1>2, <1>3, <2>1 DEF TypeOK, Stack
  <2>3. Joiner(n)'
    BY <1>1, <1>2, <2>1 DEF TypeOK, Joiner, Waiting
  <2>4. Asked(n)'
    BY <1>1, <1>2, <1>3, <1>4, <2>1 DEF TypeOK, Asked
  <2>5. QED
    BY <2>2, <2>3, <2>4
<1>8. QED
  BY <1>2, <1>4, <1>5, <1>6, <1>7 DEF LifeInv

LEMMA CreateReturnKeeps ==
  ASSUME LifeInv, NEW c \in Clients, CreateReturn(c)
  PROVE  LifeInv'
<1>1. TypeOK /\ PipeOnce
  BY DEF LifeInv
<1>2. /\ pc[c] = "creating" /\ pending[c] > 0 /\ pending' = [pending EXCEPT ![c] = @ - 1]
      /\ target' = [target EXCEPT ![c] = Null] /\ pc' = [pc EXCEPT ![c] = "idle"]
      /\ UNCHANGED <<hasJoined, state, listed, mapped, detached, joined, jt, dead, pipe, notify>>
  BY DEF CreateReturn, Goto, threadVars
<1>3. Requests' = Requests /\ PipeOnce'
  BY <1>1, <1>2, Untouched
<1>4. pending[c] - 1 = 0 /\ <<"start", target[c]>> \notin Requests
  <2>1. pending[c] \in Nat /\ pending[c] <= 1 /\ (pending[c] = 0 <=> <<"start", target[c]>> \in Requests)
    BY <1>2, ClientFacts DEF Creates
  <2>2. QED
    BY <1>2, <2>1
<1>5. TypeOK'
  BY <1>1, <1>2, <1>4 DEF TypeOK
<1>6. ASSUME NEW e \in Clients PROVE Suspends(e)' /\ Creates(e)' /\ Joins(e)'
  <2>1. Suspends(e) /\ Creates(e) /\ Joins(e)
    BY ClientFacts
  <2>2. CASE e = c
    BY <1>1, <1>2, <1>4, <2>1, <2>2 DEF TypeOK, Suspends, Creates, Joins, Waiting
  <2>3. CASE e # c
    BY <1>1, <1>2, <1>3, <2>1, <2>3 DEF TypeOK, Suspends, Creates, Joins
  <2>4. QED
    BY <2>2, <2>3
<1>7. ASSUME NEW n \in Managed PROVE Stack(n)' /\ Joiner(n)' /\ Asked(n)'
  <2>1. Stack(n) /\ Joiner(n) /\ Asked(n)
    BY ThreadFacts
  <2>2. Stack(n)'
    BY <1>2, <2>1 DEF Stack
  <2>3. Joiner(n)'
    BY <1>1, <1>2, <2>1 DEF TypeOK, Joiner, Waiting
  <2>4. Asked(n)'
    BY <1>1, <1>2, <1>3, <1>4, <2>1 DEF TypeOK, Asked
  <2>5. QED
    BY <2>2, <2>3, <2>4
<1>8. QED
  BY <1>2, <1>3, <1>5, <1>6, <1>7 DEF LifeInv

LEMMA JoinKeeps ==
  ASSUME LifeInv, OneSuspension, NEW c \in Clients, NEW m \in Managed, Join(c, m)
  PROVE  LifeInv'
<1>1. TypeOK /\ PipeOnce
  BY DEF LifeInv
<1>2. /\ pc[c] = "idle" /\ ~hasJoined[c] /\ listed[m] /\ ~detached[m] /\ ~joined[m]
      /\ joined' = [joined EXCEPT ![m] = TRUE] /\ jt' = [jt EXCEPT ![m] = c]
      /\ target' = [target EXCEPT ![c] = m] /\ pc' = [pc EXCEPT ![c] = "check"]
      /\ UNCHANGED <<pending, hasJoined, state, listed, mapped, detached, dead, pipe, notify>>
  BY DEF Join, MaySuspend, Goto
<1>3. Requests' = Requests /\ PipeOnce'
  BY <1>1, <1>2, Untouched
<1>4. <<"cleanup", m>> \notin Requests
  BY <1>2, ThreadFacts DEF Asked
<1>5. TypeOK'
  BY <1>1, <1>2 DEF TypeOK
<1>6. ASSUME NEW e \in Clients PROVE Suspends(e)' /\ Creates(e)' /\ Joins(e)'
  <2>1. Suspends(e) /\ Creates(e) /\ Joins(e) /\ pending[e] \in Nat
    BY ClientFacts
  <2>2. CASE e = c
    <3>1. pc'[e] = "check" /\ target'[e] = m /\ pending'[e] = 0 /\ jt'[m] = c /\ joined'[m]
      BY <1>1, <1>2, <2>1, <2>2 DEF TypeOK, Suspends
    <3>2. QED
      BY <1>2, <2>2, <3>1 DEF Suspends, Creates, Joins
  <2>3. CASE e # c
    <3>1. pc'[e] = pc[e] /\ target'[e] = target[e]
      BY <1>1, <1>2, <2>3 DEF TypeOK
    <3>2. Suspends(e)' /\ Creates(e)'
      BY <1>2, <1>3, <2>1, <3>1 DEF Suspends, Creates
    <3>3. Joins(e)'
      BY <1>1, <1>2, <2>1, <2>3, <3>1 DEF TypeOK, Joins
    <3>4. QED
      BY <3>2, <3>3
  <2>4. QED
    BY <2>2, <2>3
<1>7. ASSUME NEW n \in Managed PROVE Stack(n)' /\ Joiner(n)' /\ Asked(n)'
  <2>1. Stack(n) /\ Joiner(n) /\ Asked(n)
    BY ThreadFacts
  <2>2. Stack(n)'
    BY <1>2, <2>1 DEF Stack
  <2>3. Joiner(n)'
    BY <1>1, <1>2, <2>1 DEF TypeOK, Joiner, Waiting
  <2>4. Asked(n)'
    BY <1>1, <1>2, <1>3, <1>4, <2>1 DEF TypeOK, Asked
  <2>5. QED
    BY <2>2, <2>3, <2>4
<1>8. QED
  BY <1>2, <1>3, <1>5, <1>6, <1>7 DEF LifeInv

(* A joiner moves on, to collect only when the thread is dead. *)
LEMMA JoinerKeeps ==
  ASSUME LifeInv, NEW c \in Clients, JoinCheck(c) \/ JoinWake(c)
  PROVE  LifeInv'
<1>1. TypeOK /\ PipeOnce
  BY DEF LifeInv
<1>2. /\ pc[c] \in Waiting
      /\ UNCHANGED <<target, hasJoined, state, listed, mapped, detached, joined, jt, dead, pipe, notify>>
  BY DEF JoinCheck, JoinWake, Waiting, threadVars
<1>3. PICK l \in {"joining", "collect"} : pc' = [pc EXCEPT ![c] = l] /\ (l = "collect" => dead[target[c]])
  <2>1. CASE JoinCheck(c)
    BY <2>1 DEF JoinCheck, Goto
  <2>2. CASE JoinWake(c)
    BY <1>2, <2>2, ClientFacts DEF JoinWake, Goto, Joins
  <2>3. QED
    BY <2>1, <2>2
<1>4. PICK k \in Nat : pending' = [pending EXCEPT ![c] = k] /\ (k > 0 => pending[c] > 0)
  <2>1. pending[c] \in Nat /\ pending \in [Clients -> Nat]
    BY <1>1 DEF TypeOK
  <2>2. CASE JoinCheck(c)
    <3>1. pending' = [pending EXCEPT ![c] = pending[c]]
      BY <2>1, <2>2 DEF JoinCheck
    <3>2. QED
      BY <2>1, <3>1
  <2>3. CASE JoinWake(c)
    <3>1. pending' = [pending EXCEPT ![c] = pending[c] - 1] /\ pending[c] > 0
      BY <2>3 DEF JoinWake
    <3>2. pending[c] - 1 \in Nat
      BY <2>1, <3>1
    <3>3. QED
      BY <3>1, <3>2
  <2>4. QED
    BY <2>2, <2>3
<1>5. Requests' = Requests /\ PipeOnce'
  BY <1>1, <1>2, Untouched
<1>6. TypeOK'
  BY <1>1, <1>2, <1>3, <1>4 DEF TypeOK
<1>7. ASSUME NEW e \in Clients PROVE Suspends(e)' /\ Creates(e)' /\ Joins(e)'
  <2>1. Suspends(e) /\ Creates(e) /\ Joins(e) /\ pending[e] \in Nat
    BY ClientFacts
  <2>2. CASE e = c
    <3>1. pc'[e] = l /\ pending'[e] = k
      BY <1>1, <1>3, <1>4, <2>2 DEF TypeOK
    <3>2. pc'[e] \notin {"idle", "creating"} /\ ~hasJoined'[e]
      BY <1>2, <2>1, <2>2, <3>1 DEF Suspends, Waiting
    <3>3. Joins(e)'
      BY <1>2, <1>3, <1>4, <2>1, <2>2, <3>1 DEF Joins, Waiting
    <3>4. QED
      BY <3>2, <3>3 DEF Suspends, Creates
  <2>3. CASE e # c
    <3>1. pc'[e] = pc[e] /\ pending'[e] = pending[e]
      BY <1>1, <1>3, <1>4, <2>3 DEF TypeOK
    <3>2. QED
      BY <1>2, <1>5, <2>1, <3>1 DEF Suspends, Creates, Joins
  <2>4. QED
    BY <2>2, <2>3
<1>8. ASSUME NEW n \in Managed PROVE Stack(n)' /\ Joiner(n)' /\ Asked(n)'
  <2>1. Stack(n) /\ Joiner(n) /\ Asked(n)
    BY ThreadFacts
  <2>2. Stack(n)'
    BY <1>2, <2>1 DEF Stack
  <2>3. Joiner(n)'
    BY <1>1, <1>2, <1>3, <2>1 DEF TypeOK, Joiner, Waiting
  <2>4. Asked(n)'
    BY <1>1, <1>2, <1>3, <1>5, <2>1 DEF TypeOK, Asked, Waiting
  <2>5. QED
    BY <2>2, <2>3, <2>4
<1>9. QED
  BY <1>2, <1>5, <1>6, <1>7, <1>8 DEF LifeInv

LEMMA JoinCollectKeeps ==
  ASSUME LifeInv, NEW c \in Clients, JoinCollect(c)
  PROVE  LifeInv'
<1> DEFINE m == target[c]
<1>1. TypeOK /\ PipeOnce
  BY DEF LifeInv
<1>2. /\ pc[c] = "collect" /\ pipe' = Append(pipe, <<"cleanup", m>>)
      /\ target' = [target EXCEPT ![c] = Null] /\ hasJoined' = [hasJoined EXCEPT ![c] = TRUE]
      /\ pc' = [pc EXCEPT ![c] = "idle"]
      /\ UNCHANGED <<pending, state, listed, mapped, detached, joined, jt, dead, notify>>
  BY DEF JoinCollect, Goto, threadVars
<1>3. m \in Managed /\ joined[m] /\ jt[m] = c /\ listed[m] /\ ~detached[m] /\ dead[m] /\ ~hasJoined[c]
  BY <1>2, ClientFacts DEF Joins, Suspends, Waiting
<1> HIDE DEF m
<1>4. <<"cleanup", m>> \notin Requests
  BY <1>3, ThreadFacts DEF Asked
<1>5. /\ pipe' \in Seq({"start", "cleanup"} \X Managed)
      /\ Requests' = Requests \cup {<<"cleanup", m>>} /\ PipeOnce'
  <2>1. <<"cleanup", m>> \in {"start", "cleanup"} \X Managed
    BY <1>3
  <2>2. QED
    BY <1>1, <1>2, <1>4, <2>1, Written
<1>6. TypeOK'
  BY <1>1, <1>2, <1>5 DEF TypeOK
<1>7. ASSUME NEW e \in Clients PROVE Suspends(e)' /\ Creates(e)' /\ Joins(e)'
  <2>1. Suspends(e) /\ Creates(e) /\ Joins(e)
    BY ClientFacts
  <2>2. CASE e = c
    BY <1>1, <1>2, <2>2 DEF TypeOK, Suspends, Creates, Joins, Waiting
  <2>3. CASE e # c
    <3>1. pc'[e] = pc[e] /\ target'[e] = target[e] /\ hasJoined'[e] = hasJoined[e]
      BY <1>1, <1>2, <2>3 DEF TypeOK
    <3>2. \A n \in Managed : <<"start", n>> \in Requests' <=> <<"start", n>> \in Requests
      BY <1>5
    <3>3. Creates(e)'
      BY <1>2, <2>1, <3>1, <3>2 DEF Creates
    <3>4. QED
      BY <1>2, <2>1, <3>1, <3>3 DEF Suspends, Joins
  <2>4. QED
    BY <2>2, <2>3
<1>8. ASSUME NEW n \in Managed PROVE Stack(n)' /\ Joiner(n)' /\ Asked(n)'
  <2>1. Stack(n) /\ Joiner(n) /\ Asked(n)
    BY ThreadFacts
  <2>2. Stack(n)'
    BY <1>2, <2>1 DEF Stack
  <2>3. Joiner(n)'
    BY <1>1, <1>2, <2>1 DEF TypeOK, Joiner, Waiting
  <2>4. Asked(n)'
    <3>1. <<"start", n>> \in Requests' => <<"start", n>> \in Requests
      BY <1>5
    <3>2. <<"cleanup", n>> \in Requests' => <<"cleanup", n>> \in Requests \/ n = m
      BY <1>5
    <3>3. hasJoined'[c] /\ \A e \in Clients : hasJoined[e] => hasJoined'[e]
      BY <1>1, <1>2 DEF TypeOK
    <3>4. \A e \in Clients : pc[e] = "creating" => pc'[e] = "creating" /\ target'[e] = target[e]
      BY <1>1, <1>2 DEF TypeOK
    <3>5. QED
      BY <1>2, <1>3, <2>1, <3>1, <3>2, <3>3, <3>4 DEF Asked, Joiner
  <2>5. QED
    BY <2>2, <2>3, <2>4
<1>9. QED
  BY <1>2, <1>5, <1>6, <1>7, <1>8 DEF LifeInv

LEMMA DetachKeeps ==
  ASSUME LifeInv, NEW c \in Clients, NEW m \in Managed, Detach(c, m)
  PROVE  LifeInv'
<1>1. TypeOK /\ PipeOnce
  BY DEF LifeInv
<1>2. /\ ~joined[m] /\ detached' = [detached EXCEPT ![m] = TRUE]
      /\ UNCHANGED <<pc, target, pending, hasJoined, state, listed, mapped, joined, jt, dead, pipe, notify>>
  BY DEF Detach
<1>3. Requests' = Requests /\ PipeOnce'
  BY <1>1, <1>2, Untouched
<1>4. TypeOK'
  BY <1>1, <1>2 DEF TypeOK
<1>5. \A n \in Managed : joined[n] => (detached'[n] <=> detached[n])
  BY <1>1, <1>2 DEF TypeOK
<1>6. ASSUME NEW e \in Clients PROVE Suspends(e)' /\ Creates(e)' /\ Joins(e)'
  BY <1>2, <1>3, <1>5, ClientFacts DEF Suspends, Creates, Joins
<1>7. ASSUME NEW n \in Managed PROVE Stack(n)' /\ Joiner(n)' /\ Asked(n)'
  BY <1>2, <1>3, <1>5, ThreadFacts DEF Stack, Joiner, Asked
<1>8. QED
  BY <1>2, <1>3, <1>4, <1>6, <1>7 DEF LifeInv

-----------------------------------------------------------------------------
(* The threads and the manager.                                            *)

LEMMA ThreadKeeps ==
  ASSUME LifeInv, NEW m \in Managed, ThreadRun(m) \/ ThreadExit(m)
  PROVE  LifeInv'
<1>1. TypeOK /\ PipeOnce
  BY DEF LifeInv
<1>2. UNCHANGED <<pc, target, pending, hasJoined, listed, mapped, detached, joined, jt, dead, pipe, notify>>
  BY DEF ThreadRun, ThreadExit
<1>3. PICK s \in {"run", "zombie"} : state' = [state EXCEPT ![m] = s] /\ state[m] \in {"born", "run"}
  BY DEF ThreadRun, ThreadExit
<1>4. Requests' = Requests /\ PipeOnce'
  BY <1>1, <1>2, Untouched
<1>5. TypeOK'
  BY <1>1, <1>2, <1>3 DEF TypeOK
<1>6. \A n \in Managed : state'[n] = state[n] \/ (state'[n] \in {"run", "zombie"} /\ state[n] \in {"born", "run"})
  BY <1>1, <1>3 DEF TypeOK
<1>7. ASSUME NEW e \in Clients PROVE Suspends(e)' /\ Creates(e)' /\ Joins(e)'
  BY <1>2, <1>4, <1>6, ClientFacts DEF Suspends, Creates, Joins
<1>8. ASSUME NEW n \in Managed PROVE Stack(n)' /\ Joiner(n)' /\ Asked(n)'
  <2>1. Stack(n) /\ Joiner(n) /\ Asked(n)
    BY ThreadFacts
  <2>2. Stack(n)'
    BY <1>2, <1>6, <2>1 DEF Stack
  <2>3. Joiner(n)' /\ Asked(n)'
    BY <1>2, <1>4, <1>6, <2>1 DEF Joiner, Asked
  <2>4. QED
    BY <2>2, <2>3
<1>9. QED
  BY <1>2, <1>4, <1>5, <1>7, <1>8 DEF LifeInv

LEMMA MgrStartKeeps ==
  ASSUME LifeInv, MgrStart
  PROVE  LifeInv'
<1> DEFINE m == Head(pipe)[2]
<1>1. TypeOK /\ PipeOnce
  BY DEF LifeInv
<1>2. /\ pipe # <<>> /\ Head(pipe)[1] = "start" /\ pipe' = Tail(pipe)
      /\ pending' = [c \in Clients |-> IF pc[c] = "creating" /\ target[c] = m
                                       THEN pending[c] + 1 ELSE pending[c]]
      /\ UNCHANGED <<pc, target, hasJoined, mapped, detached, joined, jt, dead, notify>>
  BY DEF MgrStart
<1>3. /\ Head(pipe) \in {"start", "cleanup"} \X Managed /\ Head(pipe) \in Requests
      /\ pipe' \in Seq({"start", "cleanup"} \X Managed)
      /\ Requests' = Requests \ {Head(pipe)} /\ PipeOnce'
  BY <1>1, <1>2, Read
<1>4. m \in Managed /\ Head(pipe) = <<"start", m>>
  BY <1>2, <1>3
<1>5. PICK s \in {"born", "failed"} : state' = [state EXCEPT ![m] = s]
  BY DEF MgrStart
<1>6. listed' \in [Managed -> BOOLEAN] /\ \A n \in Managed : listed[n] => listed'[n]
  BY <1>1, <1>4 DEF MgrStart, TypeOK
<1>7. \A n \in Managed : n # m => listed'[n] = listed[n]
  BY <1>1, <1>4 DEF MgrStart, TypeOK
<1> HIDE DEF m
<1>8. state[m] = "asked" /\ <<"start", m>> \in Requests /\ mapped[m]
  BY <1>3, <1>4, ThreadFacts DEF Asked, Stack
<1>9. \A e \in Clients : pending'[e] \in Nat
  BY <1>1, <1>2 DEF TypeOK
<1>10. TypeOK'
  BY <1>1, <1>2, <1>3, <1>4, <1>5, <1>6, <1>9 DEF TypeOK
<1>11. ASSUME NEW e \in Clients PROVE Suspends(e)' /\ Creates(e)' /\ Joins(e)'
  <2>1. Suspends(e) /\ Creates(e) /\ Joins(e) /\ pending[e] \in Nat
    BY ClientFacts
  <2>2. CASE pc[e] = "creating" /\ target[e] = m
    <3>1. pending'[e] = 1
      BY <1>2, <1>8, <2>1, <2>2 DEF Creates
    <3>2. <<"start", m>> \notin Requests' /\ state'[m] # "none"
      BY <1>1, <1>3, <1>4, <1>5 DEF TypeOK
    <3>3. Creates(e)'
      BY <1>2, <1>4, <2>2, <3>1, <3>2 DEF Creates
    <3>4. QED
      BY <1>2, <2>1, <2>2, <3>3 DEF Suspends, Joins, Waiting
  <2>3. CASE ~(pc[e] = "creating" /\ target[e] = m)
    <3>1. pending'[e] = pending[e]
      BY <1>2, <2>3
    <3>2. Suspends(e)' /\ Joins(e)'
      BY <1>2, <1>6, <2>1, <3>1 DEF Suspends, Joins
    <3>3. ASSUME pc[e] = "creating" PROVE Creates(e)'
      <4>1. target[e] \in Managed /\ target[e] # m
        BY <2>1, <2>3, <3>3 DEF Creates
      <4>2. <<"start", target[e]>> \in Requests' <=> <<"start", target[e]>> \in Requests
        BY <1>3, <1>4, <4>1
      <4>3. state'[target[e]] = state[target[e]]
        BY <1>1, <1>5, <4>1 DEF TypeOK
      <4>4. QED
        BY <1>2, <2>1, <3>1, <4>2, <4>3 DEF Creates
    <3>4. QED
      BY <1>2, <3>2, <3>3 DEF Creates
  <2>4. QED
    BY <2>2, <2>3
<1>12. ASSUME NEW n \in Managed PROVE Stack(n)' /\ Joiner(n)' /\ Asked(n)'
  <2>1. Stack(n) /\ Joiner(n) /\ Asked(n)
    BY ThreadFacts
  <2>2. Stack(n)'
    <3>1. CASE n = m
      BY <1>1, <1>2, <1>5, <1>8, <2>1, <3>1 DEF TypeOK, Stack
    <3>2. CASE n # m
      BY <1>1, <1>2, <1>5, <1>7, <2>1, <3>2 DEF TypeOK, Stack
    <3>3. QED
      BY <3>1, <3>2
  <2>3. Joiner(n)'
    BY <1>2, <2>1 DEF Joiner
  <2>4. Asked(n)'
    <3>1. <<"start", n>> \in Requests' => <<"start", n>> \in Requests /\ n # m
      BY <1>3, <1>4
    <3>2. <<"cleanup", n>> \in Requests' => <<"cleanup", n>> \in Requests
      BY <1>3
    <3>3. n # m => state'[n] = state[n]
      BY <1>1, <1>5 DEF TypeOK
    <3>4. QED
      BY <1>2, <1>6, <2>1, <3>1, <3>2, <3>3 DEF Asked
  <2>5. QED
    BY <2>2, <2>3, <2>4
<1>13. QED
  BY <1>2, <1>3, <1>10, <1>11, <1>12 DEF LifeInv

LEMMA MgrCleanupKeeps ==
  ASSUME LifeInv, MgrCleanup
  PROVE  LifeInv'
<1> DEFINE m == Head(pipe)[2]
<1>1. TypeOK /\ PipeOnce
  BY DEF LifeInv
<1>2. /\ pipe # <<>> /\ Head(pipe)[1] = "cleanup" /\ pipe' = Tail(pipe)
      /\ listed' = [listed EXCEPT ![m] = FALSE] /\ mapped' = [mapped EXCEPT ![m] = FALSE]
      /\ UNCHANGED <<pc, target, pending, hasJoined, state, detached, joined, jt, dead, notify>>
  BY DEF MgrCleanup
<1>3. /\ Head(pipe) \in {"start", "cleanup"} \X Managed /\ Head(pipe) \in Requests
      /\ pipe' \in Seq({"start", "cleanup"} \X Managed)
      /\ Requests' = Requests \ {Head(pipe)} /\ PipeOnce'
  BY <1>1, <1>2, Read
<1>4. m \in Managed /\ Head(pipe) = <<"cleanup", m>>
  BY <1>2, <1>3
<1> HIDE DEF m
<1>5. dead[m] /\ joined[m] /\ hasJoined[jt[m]] /\ jt[m] \in Clients /\ state[m] = "reaped"
  BY <1>3, <1>4, ThreadFacts DEF Asked, Stack, Joiner
<1>6. TypeOK'
  BY <1>1, <1>2, <1>3 DEF TypeOK
<1>7. \A n \in Managed : n # m => listed'[n] = listed[n] /\ mapped'[n] = mapped[n]
  BY <1>1, <1>2 DEF TypeOK
<1>8. /\ \A n \in Managed : <<"start", n>> \in Requests' <=> <<"start", n>> \in Requests
      /\ \A n \in Managed : <<"cleanup", n>> \in Requests' => <<"cleanup", n>> \in Requests /\ n # m
  BY <1>3, <1>4
<1>9. ASSUME NEW e \in Clients PROVE Suspends(e)' /\ Creates(e)' /\ Joins(e)'
  <2>1. Suspends(e) /\ Creates(e) /\ Joins(e)
    BY ClientFacts
  <2>2. Suspends(e)' /\ Creates(e)'
    BY <1>2, <1>8, <2>1 DEF Suspends, Creates
  <2>3. pc[e] \in Waiting => target[e] # m
    BY <1>5, <2>1 DEF Suspends, Joins, Waiting
  <2>4. Joins(e)'
    BY <1>2, <1>7, <2>1, <2>3 DEF Joins
  <2>5. QED
    BY <2>2, <2>4
<1>10. ASSUME NEW n \in Managed PROVE Stack(n)' /\ Joiner(n)' /\ Asked(n)'
  <2>1. Stack(n) /\ Joiner(n) /\ Asked(n)
    BY ThreadFacts
  <2>2. Stack(n)'
    <3>1. CASE n = m
      BY <1>1, <1>2, <1>5, <3>1 DEF TypeOK, Stack
    <3>2. CASE n # m
      BY <1>2, <1>7, <2>1, <3>2 DEF Stack
    <3>3. QED
      BY <3>1, <3>2
  <2>3. Joiner(n)'
    BY <1>2, <2>1 DEF Joiner
  <2>4. Asked(n)'
    BY <1>2, <1>7, <1>8, <2>1 DEF Asked
  <2>5. QED
    BY <2>2, <2>3, <2>4
<1>11. QED
  BY <1>2, <1>3, <1>6, <1>9, <1>10 DEF LifeInv

LEMMA MgrReapKeeps ==
  ASSUME LifeInv, NEW m \in Managed, MgrReap(m)
  PROVE  LifeInv'
<1>1. TypeOK /\ PipeOnce
  BY DEF LifeInv
<1>2. /\ notify = Null /\ state[m] = "zombie" /\ state' = [state EXCEPT ![m] = "reaped"]
      /\ UNCHANGED <<pc, target, pending, hasJoined, detached, joined, jt, pipe>>
  BY DEF MgrReap
<1>3. Requests' = Requests /\ PipeOnce'
  BY <1>1, <1>2, Untouched
<1>4. ~dead[m] /\ mapped[m] /\ <<"start", m>> \notin Requests /\ <<"cleanup", m>> \notin Requests
  BY <1>2, ThreadFacts DEF Stack, Asked
<1>5. /\ listed' = [listed EXCEPT ![m] = listed[m] /\ ~detached[m]]
      /\ mapped' = [mapped EXCEPT ![m] = mapped[m] /\ ~(listed[m] /\ detached[m])]
      /\ dead' = [dead EXCEPT ![m] = dead[m] \/ (listed[m] /\ ~detached[m])]
      /\ notify' = IF listed[m] /\ ~detached[m] THEN m ELSE Null
  BY DEF MgrReap
<1>6. /\ listed' \in [Managed -> BOOLEAN] /\ mapped' \in [Managed -> BOOLEAN] /\ dead' \in [Managed -> BOOLEAN]
      /\ notify' \in Managed \cup {Null}
  BY <1>1, <1>5 DEF TypeOK
<1>7. TypeOK'
  BY <1>1, <1>2, <1>6 DEF TypeOK
<1>8. \A n \in Managed : n # m => /\ listed'[n] = listed[n] /\ mapped'[n] = mapped[n]
                                  /\ dead'[n] = dead[n] /\ state'[n] = state[n]
  BY <1>1, <1>2, <1>5 DEF TypeOK
<1>9. /\ state'[m] = "reaped" /\ (listed'[m] <=> listed[m] /\ ~detached[m])
      /\ (listed'[m] => mapped'[m]) /\ (notify' # Null => dead'[notify'])
  BY <1>1, <1>2, <1>4, <1>5 DEF TypeOK
<1>10. ASSUME NEW e \in Clients PROVE Suspends(e)' /\ Creates(e)' /\ Joins(e)'
  <2>1. Suspends(e) /\ Creates(e) /\ Joins(e)
    BY ClientFacts
  <2>2. Suspends(e)'
    BY <1>2, <2>1 DEF Suspends
  <2>3. Creates(e)'
    BY <1>2, <1>3, <1>8, <1>9, <2>1 DEF Creates
  <2>4. Joins(e)'
    BY <1>2, <1>4, <1>8, <1>9, <2>1 DEF Joins
  <2>5. QED
    BY <2>2, <2>3, <2>4
<1>11. ASSUME NEW n \in Managed PROVE Stack(n)' /\ Joiner(n)' /\ Asked(n)'
  <2>1. Stack(n) /\ Joiner(n) /\ Asked(n)
    BY ThreadFacts
  <2>2. Stack(n)'
    <3>1. CASE n = m
      BY <1>9, <3>1 DEF Stack
    <3>2. CASE n # m
      BY <1>2, <1>8, <2>1, <3>2 DEF Stack
    <3>3. QED
      BY <3>1, <3>2
  <2>3. Joiner(n)'
    BY <1>2, <2>1 DEF Joiner
  <2>4. Asked(n)'
    BY <1>2, <1>3, <1>4, <1>8, <2>1 DEF Asked
  <2>5. QED
    BY <2>2, <2>3, <2>4
<1>12. QED
  BY <1>3, <1>7, <1>9, <1>10, <1>11 DEF LifeInv

LEMMA MgrNotifyKeeps ==
  ASSUME LifeInv, MgrNotify
  PROVE  LifeInv'
<1>1. TypeOK /\ PipeOnce
  BY DEF LifeInv
<1>2. /\ notify # Null /\ notify' = Null
      /\ pending' = [c \in Clients |-> IF joined[notify] /\ c = jt[notify] THEN pending[c] + 1 ELSE pending[c]]
      /\ UNCHANGED <<pc, target, hasJoined, state, listed, mapped, detached, joined, jt, dead, pipe>>
  BY DEF MgrNotify, threadVars
<1>3. notify \in Managed /\ dead[notify]
  BY <1>1, <1>2 DEF TypeOK, LifeInv
<1>4. Requests' = Requests /\ PipeOnce'
  BY <1>1, <1>2, Untouched
<1>5. \A e \in Clients : pending'[e] \in Nat
  BY <1>1, <1>2 DEF TypeOK
<1>6. TypeOK'
  BY <1>1, <1>2, <1>5 DEF TypeOK
<1>7. ASSUME NEW e \in Clients PROVE Suspends(e)' /\ Creates(e)' /\ Joins(e)'
  <2>1. Suspends(e) /\ Creates(e) /\ Joins(e)
    BY ClientFacts
  <2>2. CASE joined[notify] /\ e = jt[notify]
    <3>1. hasJoined[e] \/ (pc[e] \in Waiting /\ target[e] = notify)
      BY <1>3, <2>2, ThreadFacts DEF Joiner
    <3>2. Suspends(e)' /\ Creates(e)'
      BY <1>2, <2>1, <3>1 DEF Suspends, Creates, Waiting
    <3>3. Joins(e)'
      BY <1>2, <1>3, <2>1, <3>1 DEF Suspends, Joins, Waiting
    <3>4. QED
      BY <3>2, <3>3
  <2>3. CASE ~(joined[notify] /\ e = jt[notify])
    <3>1. pending'[e] = pending[e]
      BY <1>2, <2>3
    <3>2. QED
      BY <1>2, <1>4, <2>1, <3>1 DEF Suspends, Creates, Joins
  <2>4. QED
    BY <2>2, <2>3
<1>8. ASSUME NEW n \in Managed PROVE Stack(n)' /\ Joiner(n)' /\ Asked(n)'
  BY <1>2, <1>4, ThreadFacts DEF Stack, Joiner, Asked
<1>9. QED
  BY <1>2, <1>4, <1>6, <1>7, <1>8 DEF LifeInv

-----------------------------------------------------------------------------
(* The theorems.                                                           *)

LEMMA LifeInductive ==
  ASSUME OneSuspension
  PROVE  Spec => []LifeInv
<1>1. Init => LifeInv
  <2> SUFFICES ASSUME Init PROVE LifeInv
    OBVIOUS
  <2>1. Requests = {} /\ PipeOnce
    BY DEF Init, Requests, PipeOnce
  <2>2. TypeOK
    BY DEF Init, TypeOK
  <2>3. ASSUME NEW c \in Clients PROVE Suspends(c) /\ Creates(c) /\ Joins(c)
    BY DEF Init, Suspends, Creates, Joins, Waiting
  <2>4. ASSUME NEW m \in Managed PROVE Stack(m) /\ Joiner(m) /\ Asked(m)
    BY <2>1 DEF Init, Stack, Joiner, Asked
  <2>5. notify = Null
    BY DEF Init
  <2>6. QED
    BY <2>1, <2>2, <2>3, <2>4, <2>5 DEF LifeInv
<1>2. LifeInv /\ [Next]_vars => LifeInv'
  <2> SUFFICES ASSUME LifeInv, [Next]_vars PROVE LifeInv'
    OBVIOUS
  <2>1. CASE UNCHANGED vars
    BY <2>1 DEF vars, LifeInv, TypeOK, PipeOnce, Requests, Suspends, Creates, Joins, Stack, Joiner, Asked
  <2>2. ASSUME NEW c \in Clients, NEW m \in Managed, NEW d \in BOOLEAN, Create(c, m, d) PROVE LifeInv'
    BY <2>2, CreateKeeps
  <2>3. ASSUME NEW c \in Clients, NEW m \in Managed, Join(c, m) \/ Detach(c, m) PROVE LifeInv'
    BY <2>3, JoinKeeps, DetachKeeps
  <2>4. ASSUME NEW c \in Clients, ClientStep(c) PROVE LifeInv'
    BY <2>4, CreateReturnKeeps, JoinerKeeps, JoinCollectKeeps DEF ClientStep
  <2>5. ASSUME NEW m \in Managed, ThreadRun(m) \/ ThreadExit(m) PROVE LifeInv'
    BY <2>5, ThreadKeeps
  <2>6. CASE Manager
    BY <2>6, MgrStartKeeps, MgrCleanupKeeps, MgrReapKeeps, MgrNotifyKeeps DEF Manager
  <2>7. QED
    BY <2>1, <2>2, <2>3, <2>4, <2>5, <2>6 DEF Next
<1>3. QED
  BY <1>1, <1>2, PTL DEF Spec

(* pthread_join waits: with one suspension per joiner it reads the value   *)
(* of a dead thread only.  Without that hypothesis a restart that came too *)
(* late ends the next suspension, and TLC finds the counterexample.        *)
THEOREM JoinsWait ==
  ASSUME OneSuspension
  PROVE  Spec => []JoinWaits
<1>1. LifeInv => JoinWaits
  BY DEF LifeInv, Joins, JoinWaits, Waiting
<1>2. QED
  BY <1>1, LifeInductive, PTL

(* No stack is read or unmapped at a wrong time: a request is read while   *)
(* its creator waits, and a stack is unmapped once, after its thread.      *)
THEOREM StacksAreSafe ==
  ASSUME OneSuspension
  PROVE  Spec => []StacksSafe
<1>1. LifeInv => StacksSafe
  <2> SUFFICES ASSUME LifeInv PROVE StacksSafe
    OBVIOUS
  <2>1. TypeOK /\ PipeOnce /\ \A i \in DOMAIN pipe : pipe[i] \in Requests /\ pipe[i] \in {"start", "cleanup"} \X Managed
    BY DEF LifeInv, TypeOK, Requests
  <2>2. StackInUse
    BY ThreadFacts DEF StackInUse, Stack
  <2>3. RequestInPlace
    <3> SUFFICES ASSUME NEW i \in DOMAIN pipe, pipe[i][1] = "start"
                 PROVE  \E c \in Clients : pc[c] = "creating" /\ target[c] = pipe[i][2] /\ pending[c] = 0
      BY DEF RequestInPlace
    <3>1. pipe[i][2] \in Managed /\ <<"start", pipe[i][2]>> \in Requests
      BY <2>1
    <3>2. PICK c \in Clients : pc[c] = "creating" /\ target[c] = pipe[i][2]
      BY <3>1, ThreadFacts DEF Asked
    <3>3. QED
      BY <3>1, <3>2, ClientFacts DEF Creates
  <2>4. CleanedOnce
    <3> SUFFICES ASSUME NEW i \in DOMAIN pipe, pipe[i][1] = "cleanup"
                 PROVE  /\ listed[pipe[i][2]] /\ mapped[pipe[i][2]] /\ ~detached[pipe[i][2]]
                        /\ \A j \in DOMAIN pipe : pipe[j] = pipe[i] => i = j
      BY DEF CleanedOnce
    <3>1. pipe[i][2] \in Managed /\ <<"cleanup", pipe[i][2]>> \in Requests
      BY <2>1
    <3>2. listed[pipe[i][2]] /\ mapped[pipe[i][2]] /\ ~detached[pipe[i][2]]
      BY <3>1, ThreadFacts DEF Asked, Stack
    <3>3. QED
      BY <2>1, <3>2 DEF PipeOnce
  <2>5. QED
    BY <2>1, <2>2, <2>3, <2>4 DEF StacksSafe
<1>2. QED
  BY <1>1, LifeInductive, PTL
==============================================================================
