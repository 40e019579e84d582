------------------------------ MODULE NetProofs ------------------------------
(***************************************************************************)
(* Proofs about the network code: calls over UDP (RpcUdp), the resolver    *)
(* (Resolver) and record marking for RPC over TCP (XdrRec).                *)
(*                                                                         *)
(* For XdrRec the bytes in flight are one stream, from the header of which *)
(* the reader has read a part to the end of the last fragment in the       *)
(* writer's buffer.  The invariant says that the stream is framed: behind  *)
(* a header stand the bytes that it promises, and then the header of the   *)
(* fragment that goes on where this one ended.  The writer's steps add a   *)
(* fragment at the end, the reader's take bytes from the front.            *)
(***************************************************************************)
EXTENDS RpcUdp, Resolver, XdrRec, FiniteSetTheorems, SequenceTheorems, WellFoundedInduction, NaturalsInduction, TLAPS

(* A set of numbers has a least one. *)
LEMMA LeastExists ==
  ASSUME NEW T \in SUBSET Nat, T # {}
  PROVE  Min(T) \in T /\ \A y \in T : Min(T) <= y
<1>1. \E x \in T : \A y \in T : ~(<<y, x>> \in OpToRel(<, Nat))
  BY NatLessThanWellFounded, WFMin, Zenon
<1>2. \E x \in T : \A y \in T : x <= y
  <2>1. PICK x \in T : \A y \in T : ~(<<y, x>> \in OpToRel(<, Nat))
    BY <1>1
  <2>2. ASSUME NEW y \in T PROVE x <= y
    <3>1. x \in Nat /\ y \in Nat
      OBVIOUS
    <3>2. ~(<<y, x>>[1] < <<y, x>>[2])
      BY <2>1, <3>1, Zenon DEF OpToRel
    <3>3. QED
      BY <3>1, <3>2
  <2>3. QED
    BY <2>2
<1>3. QED
  BY <1>2 DEF Min

(* A set of numbers with a bound has a greatest one. *)
LEMMA GreatestExists ==
  ASSUME NEW T \in SUBSET Nat, T # {}, NEW n \in Nat, \A x \in T : x <= n
  PROVE  Max(T) \in T /\ \A y \in T : Max(T) >= y
<1> DEFINE U == {n - x : x \in T}
<1>1. U \in SUBSET Nat /\ U # {}
  <2>1. \A x \in T : n - x \in Nat
    OBVIOUS
  <2>2. QED
    BY <2>1
<1>2. Min(U) \in U /\ \A u \in U : Min(U) <= u
  BY <1>1, LeastExists
<1>3. PICK x \in T : \A y \in T : n - x <= n - y
  BY <1>2
<1>4. \A y \in T : x >= y
  BY <1>3
<1>5. QED
  BY <1>4 DEF Max

-----------------------------------------------------------------------------
(* Calls over UDP.  RpcRight speaks of what a call returns; what makes it  *)
(* true is what the datagrams in flight say, so the invariant follows      *)
(* every one of them, late, repeated and reordered ones included.          *)

RpcStat ==
  {"none", "SUCCESS", "CANTENCODEARGS", "CANTDECODERES", "CANTSEND", "CANTRECV", "TIMEDOUT",
   "PROGUNAVAIL", "PROGVERSMISMATCH", "PROCUNAVAIL", "CANTDECODEARGS", "SYSTEMERROR", "AUTHERROR"}

Handle ==
  [pc : {"idle", "wait"}, xid : Nat, call : 0 .. MaxCalls, timeout : Nat, waited : Nat,
   nrefreshes : 0 .. 2, cred : {"orig", "short"}, status : RpcStat, result : Nat, low : Nat,
   high : Nat]

RequestMsg ==
  [to : {"server"}, c : Client, xid : Nat \ {0}, cred : {"orig", "short"}, call : 1 .. MaxCalls]

Stat == {"SUCCESS", "PROG_UNAVAIL", "PROG_MISMATCH", "PROC_UNAVAIL", "GARBAGE_ARGS",
         "SYSTEM_ERR", "AUTH_ERROR"}

ReplyMsg ==
  [to : Client, xid : Nat \ {0}, stat : Stat, call : 1 .. MaxCalls, verf : {"null"} \cup Shorthand,
   low : Nat, high : Nat]

RpcTypeOK ==
  /\ cl \in [Client -> Handle] /\ net \subseteq RequestMsg \cup ReplyMsg /\ IsFiniteSet(net)
  /\ svc_head \subseteq Version /\ dups \in 0 .. MaxDup /\ changes \in 0 .. MaxChange
  /\ sent \in [Calls -> Nat] /\ ran \in [Calls -> Nat]

(* A client that waits has time left, and has made a call; one that has    *)
(* not refreshed its credentials in this call may have shorthand ones.     *)
HandleKept(h) ==
  /\ h.waited <= h.timeout
  /\ h.pc = "wait" => h.waited < h.timeout /\ h.call > 0 /\ h.xid > 0
  /\ h.pc = "wait" /\ h.cred = "short" => h.nrefreshes > 0

Handles == \A c \in Client : HandleKept(cl[c])

(* The requests in flight are old ones, or those of the running call, with *)
(* the credentials that it has.                                            *)
RequestKept(m, h) ==
  /\ m.xid <= h.xid
  /\ m.xid = h.xid => m.call = h.call
  /\ m.xid = h.xid /\ h.pc = "wait" => m.cred = h.cred

(* So are the replies; one that says success comes from an execution, one  *)
(* that rejects the credentials from shorthand ones.                       *)
ReplyKept(m, h) ==
  /\ m.xid <= h.xid
  /\ m.xid = h.xid => m.call = h.call
  /\ m.stat = "AUTH_ERROR" /\ m.xid = h.xid /\ h.pc = "wait" => h.cred = "short"

ReplyTrue(m) ==
  /\ m.stat = "SUCCESS" => ran[m.to, m.call] > 0
  /\ m.stat = "PROG_MISMATCH" =>
       /\ m.low <= m.high /\ m.low \in Version /\ m.high \in Version
       /\ m.low # CallVersion /\ m.high # CallVersion

Requests == \A m \in net : m \in RequestMsg => RequestKept(m, cl[m.c])
Replies  == \A m \in net : m \in ReplyMsg => ReplyKept(m, cl[m.to]) /\ ReplyTrue(m)

(* The requests of a call that can still be executed. *)
InFlight(k, n) == {m \in n : m \in RequestMsg /\ m.c = k[1] /\ m.call = k[2]}

(* Executions, and those that the datagrams in flight can still cause. *)
Counted == \A k \in Calls : ran[k] + Cardinality(InFlight(k, net)) <= sent[k] + dups

(* What a call that has returned says. *)
OutcomeTrue(h, c) ==
  h.pc = "idle" =>
    /\ h.status = "SUCCESS" => h.result = h.call /\ h.call > 0 /\ ran[c, h.call] > 0
    /\ h.status # "AUTHERROR"
    /\ h.status = "PROGVERSMISMATCH" =>
         /\ h.low <= h.high /\ h.low \in Version /\ h.high \in Version
         /\ h.low # CallVersion /\ h.high # CallVersion

Outcomes == \A c \in Client : OutcomeTrue(cl[c], c)

RpcInv == RpcTypeOK /\ Handles /\ Requests /\ Replies /\ Counted /\ Outcomes

(* A datagram is a request or a reply, not both, and says whose it is. *)
LEMMA MsgKinds ==
  /\ \A m \in RequestMsg :
       /\ m.to = "server" /\ m.c \in Client /\ m.xid \in Nat \ {0} /\ m.call \in 1 .. MaxCalls
       /\ m.cred \in {"orig", "short"} /\ m \notin ReplyMsg
  /\ \A m \in ReplyMsg :
       /\ m.to \in Client /\ m.to # "server" /\ m.xid \in Nat \ {0} /\ m.call \in 1 .. MaxCalls
       /\ m.stat \in Stat /\ m.low \in Nat /\ m.high \in Nat /\ m \notin RequestMsg
BY RpcUdpAssumption DEF RequestMsg, ReplyMsg

(* The fields of a client handle. *)
LEMMA HandleFields ==
  ASSUME NEW h \in Handle
  PROVE  /\ h.pc \in {"idle", "wait"} /\ h.xid \in Nat /\ h.call \in 0 .. MaxCalls
         /\ h.timeout \in Nat /\ h.waited \in Nat /\ h.nrefreshes \in 0 .. 2
         /\ h.cred \in {"orig", "short"} /\ h.status \in RpcStat /\ h.result \in Nat
         /\ h.low \in Nat /\ h.high \in Nat
BY DEF Handle

(* The datagrams of a call that can still be executed do not become more   *)
(* when some are gone, and are one more at most after another is sent.     *)
LEMMA InFlightCount ==
  ASSUME NEW n, IsFiniteSet(n), NEW k
  PROVE  /\ Cardinality(InFlight(k, n)) \in Nat
         /\ \A o \in SUBSET n : IsFiniteSet(o) /\ Cardinality(InFlight(k, o)) <= Cardinality(InFlight(k, n))
         /\ \A m : Cardinality(InFlight(k, n \cup {m})) <= Cardinality(InFlight(k, n)) + 1
<1>1. IsFiniteSet(InFlight(k, n)) /\ Cardinality(InFlight(k, n)) \in Nat
  BY FS_Subset, FS_CardinalityType DEF InFlight
<1>2. ASSUME NEW o \in SUBSET n
      PROVE  IsFiniteSet(o) /\ Cardinality(InFlight(k, o)) <= Cardinality(InFlight(k, n))
  <2>1. InFlight(k, o) \in SUBSET InFlight(k, n)
    BY DEF InFlight
  <2>2. QED
    BY <1>1, <2>1, FS_Subset
<1>3. ASSUME NEW m
      PROVE  Cardinality(InFlight(k, n \cup {m})) <= Cardinality(InFlight(k, n)) + 1
  <2>1. InFlight(k, n \cup {m}) \in SUBSET (InFlight(k, n) \cup {m})
    BY DEF InFlight
  <2>2. /\ IsFiniteSet(InFlight(k, n) \cup {m})
        /\ Cardinality(InFlight(k, n) \cup {m}) \in Nat
        /\ Cardinality(InFlight(k, n) \cup {m}) <= Cardinality(InFlight(k, n)) + 1
    BY <1>1, FS_AddElement, FS_CardinalityType
  <2>3. /\ IsFiniteSet(InFlight(k, n \cup {m}))
        /\ Cardinality(InFlight(k, n \cup {m})) <= Cardinality(InFlight(k, n) \cup {m})
    BY <2>1, <2>2, FS_Subset
  <2>4. Cardinality(InFlight(k, n \cup {m})) \in Nat
    BY <2>3, FS_CardinalityType
  <2>5. QED
    BY <1>1, <2>2, <2>3, <2>4
<1>4. QED
  BY <1>1, <1>2, <1>3

(* When datagrams only disappear, and at most one of them is counted as    *)
(* repeated, executions stay accounted for.                                *)
LEMMA CountedShrinks ==
  ASSUME RpcInv, net' \in SUBSET net, sent' = sent, ran' = ran, dups' \in {dups, dups + 1}
  PROVE  Counted' /\ IsFiniteSet(net')
<1>1. IsFiniteSet(net')
  BY InFlightCount DEF RpcInv, RpcTypeOK
<1>2. ASSUME NEW k \in Calls PROVE ran'[k] + Cardinality(InFlight(k, net')) <= sent'[k] + dups'
  <2>1. /\ Cardinality(InFlight(k, net')) <= Cardinality(InFlight(k, net))
        /\ Cardinality(InFlight(k, net)) \in Nat /\ Cardinality(InFlight(k, net')) \in Nat
    BY <1>1, InFlightCount DEF RpcInv, RpcTypeOK
  <2>2. ran[k] + Cardinality(InFlight(k, net)) <= sent[k] + dups
    BY DEF RpcInv, Counted
  <2>3. ran[k] \in Nat /\ sent[k] \in Nat /\ dups \in Nat
    BY RpcUdpAssumption DEF RpcInv, RpcTypeOK
  <2>4. QED
    BY <2>1, <2>2, <2>3
<1>3. QED
  BY <1>1, <1>2 DEF Counted

(* The client's call returns, or it goes on without a datagram: its handle *)
(* is h, and what was in the network is still there or not.                *)
LEMMA HandleStep ==
  ASSUME RpcInv, NEW c \in Client, NEW h \in Handle,
         cl' = [cl EXCEPT ![c] = h], net' \in SUBSET net,
         sent' = sent, ran' = ran, svc_head' = svc_head, changes' = changes,
         dups' \in {dups, dups + 1}, dups' <= MaxDup,
         h.xid >= cl[c].xid, h.xid = cl[c].xid => h.call = cl[c].call,
         h.pc = "idle", HandleKept(h), OutcomeTrue(h, c)
  PROVE  RpcInv'
<1>1. Counted' /\ IsFiniteSet(net')
  BY CountedShrinks
<1>2. RpcTypeOK'
  BY <1>1, RpcUdpAssumption DEF RpcInv, RpcTypeOK
<1>3. \A d \in Client : cl'[d] = IF d = c THEN h ELSE cl[d]
  BY DEF RpcInv, RpcTypeOK
<1>4. Handles'
  BY <1>3 DEF RpcInv, Handles
<1>5. cl[c].xid \in Nat /\ h.xid \in Nat
  BY HandleFields DEF RpcInv, RpcTypeOK
<1>6. Requests'
  <2>1. SUFFICES ASSUME NEW m \in net', m \in RequestMsg PROVE RequestKept(m, cl'[m.c])
    BY DEF Requests
  <2>2. m \in net /\ m.c \in Client /\ m.xid \in Nat /\ RequestKept(m, cl[m.c])
    BY <2>1, MsgKinds DEF RpcInv, Requests
  <2>3. QED
    BY <1>3, <1>5, <2>2 DEF RequestKept
<1>7. Replies'
  <2>1. SUFFICES ASSUME NEW m \in net', m \in ReplyMsg PROVE ReplyKept(m, cl'[m.to]) /\ ReplyTrue(m)'
    BY DEF Replies
  <2>2. m \in net /\ m.to \in Client /\ m.xid \in Nat /\ ReplyKept(m, cl[m.to]) /\ ReplyTrue(m)
    BY <2>1, MsgKinds DEF RpcInv, Replies
  <2>3. ReplyTrue(m)'
    BY <2>2 DEF ReplyTrue
  <2>4. ReplyKept(m, cl'[m.to])
    <3>1. CASE m.to = c
      BY <1>3, <1>5, <2>2, <3>1 DEF ReplyKept
    <3>2. CASE m.to # c
      BY <1>3, <2>2, <3>2
    <3>3. QED
      BY <3>1, <3>2
  <2>5. QED
    BY <2>3, <2>4
<1>8. Outcomes'
  BY <1>3, ZenonT(60) DEF RpcInv, Outcomes, OutcomeTrue
<1>9. QED
  BY <1>1, <1>2, <1>4, <1>6, <1>7, <1>8 DEF RpcInv

(* Nothing happens to the handles, and datagrams are lost or ignored. *)
LEMMA NetStep ==
  ASSUME RpcInv, net' \in SUBSET net, dups' \in {dups, dups + 1}, dups' <= MaxDup,
         UNCHANGED <<cl, sent, ran, changes>>, svc_head' \subseteq Version
  PROVE  RpcInv'
<1>1. Counted' /\ IsFiniteSet(net')
  BY CountedShrinks
<1>2. RpcTypeOK'
  BY <1>1, RpcUdpAssumption DEF RpcInv, RpcTypeOK
<1>3. Handles' /\ Requests' /\ Replies' /\ Outcomes'
  BY DEF RpcInv, Handles, Requests, Replies, ReplyTrue, Outcomes, OutcomeTrue
<1>4. QED
  BY <1>1, <1>2, <1>3 DEF RpcInv

(* The client sends a datagram and waits for the reply, or, with a timeout *)
(* of 0, does not.                                                         *)
LEMMA DatagramStep ==
  ASSUME RpcInv, NEW c \in Client, NEW h \in Handle, NEW g \in Handle, NEW rest \in SUBSET net,
         cl' = [cl EXCEPT ![c] = g], net' = rest \cup {Request(c, h)},
         sent' = [sent EXCEPT ![<<c, h.call>>] = @ + 1],
         ran' = ran, svc_head' = svc_head, changes' = changes,
         dups' \in {dups, dups + 1}, dups' <= MaxDup,
         g.xid = h.xid, g.call = h.call, g.cred = h.cred, h.xid > 0, h.call > 0,
         \/ h.xid > cl[c].xid
         \/ h.xid = cl[c].xid /\ h.call = cl[c].call /\ h.cred = cl[c].cred /\ cl[c].pc = "wait",
         HandleKept(g), OutcomeTrue(g, c)
  PROVE  RpcInv'
<1> DEFINE req == Request(c, h)
<1>1. cl[c] \in Handle
  BY DEF RpcInv, RpcTypeOK
<1>2. /\ cl[c].xid \in Nat /\ h.xid \in Nat /\ h.call \in 1 .. MaxCalls
      /\ h.cred \in {"orig", "short"} /\ g.pc \in {"idle", "wait"}
  BY <1>1, HandleFields
<1>3. /\ req \in RequestMsg /\ req \notin ReplyMsg
      /\ req.c = c /\ req.xid = h.xid /\ req.call = h.call /\ req.cred = h.cred
  <2>1. req \in RequestMsg
    BY <1>2 DEF Request, RequestMsg
  <2>2. QED
    BY <2>1, MsgKinds DEF Request
<1> HIDE DEF req
<1>4. net' = rest \cup {req}
  BY DEF req
<1>5. IsFiniteSet(net')
  <2>1. IsFiniteSet(rest)
    BY InFlightCount DEF RpcInv, RpcTypeOK
  <2>2. QED
    BY <1>4, <2>1, FS_AddElement
<1>6. sent' \in [Calls -> Nat] /\ \A k \in Calls : sent'[k] = IF k = <<c, h.call>> THEN sent[k] + 1 ELSE sent[k]
  BY <1>2 DEF RpcInv, RpcTypeOK, Calls
<1>7. RpcTypeOK'
  <2>1. net' \subseteq RequestMsg \cup ReplyMsg
    BY <1>3, <1>4 DEF RpcInv, RpcTypeOK
  <2>2. QED
    BY <1>5, <1>6, <2>1, RpcUdpAssumption DEF RpcInv, RpcTypeOK
<1>8. \A d \in Client : cl'[d] = IF d = c THEN g ELSE cl[d]
  BY DEF RpcInv, RpcTypeOK
<1>9. Handles' /\ Outcomes'
  <2>1. Handles'
    BY <1>8 DEF RpcInv, Handles
  <2>2. ASSUME NEW d \in Client PROVE OutcomeTrue(cl[d], d)'
    <3>1. CASE d = c
      BY <1>8, <3>1 DEF OutcomeTrue
    <3>2. CASE d # c
      BY <1>8, <3>2 DEF RpcInv, Outcomes, OutcomeTrue
    <3>3. QED
      BY <3>1, <3>2
  <2>3. QED
    BY <2>1, <2>2 DEF Outcomes
<1>10. Requests'
  <2>1. SUFFICES ASSUME NEW m \in net', m \in RequestMsg PROVE RequestKept(m, cl'[m.c])
    BY DEF Requests
  <2>2. CASE m = req
    BY <1>3, <1>8, <2>2, <1>2 DEF RequestKept
  <2>3. CASE m # req
    <3>1. m \in net /\ m.c \in Client /\ m.xid \in Nat /\ RequestKept(m, cl[m.c])
      BY <1>4, <2>1, <2>3, MsgKinds DEF RpcInv, Requests
    <3>2. CASE m.c = c
      BY <1>2, <1>8, <3>1, <3>2 DEF RequestKept
    <3>3. CASE m.c # c
      BY <1>8, <3>1, <3>3
    <3>4. QED
      BY <3>2, <3>3
  <2>4. QED
    BY <2>2, <2>3
<1>11. Replies'
  <2>1. SUFFICES ASSUME NEW m \in net', m \in ReplyMsg PROVE ReplyKept(m, cl'[m.to]) /\ ReplyTrue(m)'
    BY DEF Replies
  <2>2. m \in net /\ m.to \in Client /\ m.xid \in Nat /\ ReplyKept(m, cl[m.to]) /\ ReplyTrue(m)
    BY <1>3, <1>4, <2>1, MsgKinds DEF RpcInv, Replies
  <2>3. ReplyTrue(m)'
    BY <2>2 DEF ReplyTrue
  <2>4. CASE m.to = c
    BY <1>2, <1>8, <2>2, <2>3, <2>4 DEF ReplyKept
  <2>5. CASE m.to # c
    BY <1>8, <2>2, <2>3, <2>5
  <2>6. QED
    BY <2>4, <2>5
<1>12. Counted'
  <2>1. SUFFICES ASSUME NEW k \in Calls
                 PROVE  ran[k] + Cardinality(InFlight(k, net')) <= sent'[k] + dups'
    BY DEF Counted
  <2>2. ran[k] \in Nat /\ sent[k] \in Nat /\ dups \in Nat
    BY RpcUdpAssumption DEF RpcInv, RpcTypeOK
  <2>3. /\ Cardinality(InFlight(k, rest)) <= Cardinality(InFlight(k, net))
        /\ Cardinality(InFlight(k, net)) \in Nat /\ IsFiniteSet(rest)
    BY InFlightCount DEF RpcInv, RpcTypeOK
  <2>4. ran[k] + Cardinality(InFlight(k, net)) <= sent[k] + dups
    BY DEF RpcInv, Counted
  <2>5. Cardinality(InFlight(k, rest)) \in Nat /\ Cardinality(InFlight(k, net')) \in Nat
    BY <1>5, <2>3, InFlightCount
  <2>6. CASE k = <<c, h.call>>
    <3>1. Cardinality(InFlight(k, net')) <= Cardinality(InFlight(k, rest)) + 1
      BY <1>4, <2>3, InFlightCount
    <3>2. sent'[k] = sent[k] + 1
      BY <1>6, <2>6
    <3>3. QED
      BY <2>2, <2>3, <2>4, <2>5, <3>1, <3>2
  <2>7. CASE k # <<c, h.call>>
    <3>1. InFlight(k, net') = InFlight(k, rest)
      BY <1>3, <1>4, <2>7 DEF InFlight, Calls
    <3>2. sent'[k] = sent[k]
      BY <1>6, <2>7
    <3>3. QED
      BY <2>2, <2>3, <2>4, <2>5, <3>1, <3>2
  <2>8. QED
    BY <2>6, <2>7
<1>13. QED
  BY <1>7, <1>9, <1>10, <1>11, <1>12 DEF RpcInv

(* A call that returns leaves its numbers in the handle. *)
LEMMA EndedHandle ==
  ASSUME NEW h \in Handle, NEW st \in RpcStat
  PROVE  /\ Ended(h, st) \in Handle /\ Ended(h, st).pc = "idle" /\ Ended(h, st).status = st
         /\ Ended(h, st).xid = h.xid /\ Ended(h, st).call = h.call /\ Ended(h, st).cred = h.cred
         /\ Ended(h, st).waited = h.waited /\ Ended(h, st).timeout = h.timeout
<1>1. Ended(h, st) \in Handle
  BY DEF Handle, Ended
<1>2. QED
  BY DEF Handle, Ended

(* So does one that waits. *)
LEMMA WaitingHandle ==
  ASSUME NEW h \in Handle, NEW g, g = [h EXCEPT !.pc = "wait"]
  PROVE  /\ g \in Handle /\ g.pc = "wait" /\ g.xid = h.xid /\ g.call = h.call
         /\ g.cred = h.cred /\ g.waited = h.waited /\ g.timeout = h.timeout
         /\ g.nrefreshes = h.nrefreshes
BY DEF Handle

(* A new transaction number changes nothing else. *)
LEMMA RenumberedHandle ==
  ASSUME NEW h \in Handle, NEW g, g = [h EXCEPT !.xid = @ + 1]
  PROVE  /\ g \in Handle /\ g.xid = h.xid + 1 /\ g.call = h.call
         /\ g.cred = h.cred /\ g.waited = h.waited /\ g.timeout = h.timeout
         /\ g.nrefreshes = h.nrefreshes
BY DEF Handle

(* h may be sent: there is time, and shorthand credentials can be          *)
(* refreshed.                                                              *)
Sendable(h) ==
  /\ h.call > 0 /\ h.waited <= h.timeout /\ (h.timeout > 0 => h.waited < h.timeout)
  /\ h.cred = "short" => h.nrefreshes > 0

(* send_again, of this call or of the same datagram once more. *)
LEMMA SendStep ==
  ASSUME RpcInv, NEW c \in Client, NEW h \in Handle, NEW rest \in SUBSET net,
         Send(c, h, rest), Sendable(h), h.xid > 0,
         ran' = ran, svc_head' = svc_head, changes' = changes,
         dups' \in {dups, dups + 1}, dups' <= MaxDup,
         \/ h.xid > cl[c].xid
         \/ h.xid = cl[c].xid /\ h.call = cl[c].call /\ h.cred = cl[c].cred /\ cl[c].pc = "wait"
  PROVE  RpcInv'
<1>1. h.timeout \in Nat /\ h.waited \in Nat /\ h.xid \in Nat /\ cl[c].xid \in Nat
  <2>1. cl[c] \in Handle
    BY DEF RpcInv, RpcTypeOK
  <2>2. QED
    BY <2>1, HandleFields
<1>2. CASE /\ cl' = [cl EXCEPT ![c] = Ended(h, "CANTSEND")] /\ net' = rest /\ UNCHANGED sent
  <2> DEFINE g == Ended(h, "CANTSEND")
  <2>1. /\ g \in Handle /\ g.pc = "idle" /\ g.status = "CANTSEND" /\ g.xid = h.xid
        /\ g.call = h.call /\ g.waited = h.waited /\ g.timeout = h.timeout
    BY EndedHandle DEF RpcStat
  <2>2. cl' = [cl EXCEPT ![c] = g]
    BY <1>2
  <2> HIDE DEF g
  <2>3. HandleKept(g) /\ OutcomeTrue(g, c)
    BY <2>1 DEF HandleKept, OutcomeTrue, Sendable
  <2>4. g.xid >= cl[c].xid /\ (g.xid = cl[c].xid => g.call = cl[c].call)
    BY <1>1, <2>1
  <2>5. QED
    BY <1>2, <2>1, <2>2, <2>3, <2>4, HandleStep
<1>3. CASE /\ cl' = [cl EXCEPT ![c] = IF h.timeout = 0 THEN Ended(h, "TIMEDOUT") ELSE [h EXCEPT !.pc = "wait"]]
           /\ net' = rest \cup {Request(c, h)}
           /\ sent' = [sent EXCEPT ![<<c, h.call>>] = @ + 1]
  <2> DEFINE g == IF h.timeout = 0 THEN Ended(h, "TIMEDOUT") ELSE [h EXCEPT !.pc = "wait"]
  <2>1. cl' = [cl EXCEPT ![c] = g]
    BY <1>3
  <2>2. g \in Handle /\ g.xid = h.xid /\ g.call = h.call /\ g.cred = h.cred
    BY EndedHandle, WaitingHandle DEF RpcStat
  <2>3. HandleKept(g) /\ OutcomeTrue(g, c)
    <3>1. CASE h.timeout = 0
      <4>1. /\ g.pc = "idle" /\ g.status = "TIMEDOUT" /\ g.waited = h.waited /\ g.timeout = h.timeout
        BY <3>1, EndedHandle DEF RpcStat
      <4> HIDE DEF g
      <4>2. QED
        BY <4>1 DEF HandleKept, OutcomeTrue, Sendable
    <3>2. CASE h.timeout # 0
      <4>1. /\ g.pc = "wait" /\ g.waited = h.waited /\ g.timeout = h.timeout /\ g.call = h.call
            /\ g.cred = h.cred /\ g.nrefreshes = h.nrefreshes /\ g.xid = h.xid
        BY <3>2, WaitingHandle
      <4> HIDE DEF g
      <4>2. QED
        BY <1>1, <3>2, <4>1 DEF HandleKept, OutcomeTrue, Sendable
    <3>3. QED
      BY <3>1, <3>2
  <2>4. h.call > 0
    BY DEF Sendable
  <2> HIDE DEF g
  <2>5. QED
    BY <1>3, <2>1, <2>2, <2>3, <2>4, DatagramStep
<1>4. QED
  BY <1>2, <1>3 DEF Send

(* call_again: the next transaction number, sent or not. *)
LEMMA CallAgainStep ==
  ASSUME RpcInv, NEW c \in Client, NEW h \in Handle, NEW rest \in SUBSET net,
         CallAgain(c, h, rest), Sendable(h), h.xid = cl[c].xid,
         ran' = ran, svc_head' = svc_head, changes' = changes,
         dups' \in {dups, dups + 1}, dups' <= MaxDup
  PROVE  RpcInv'
<1> DEFINE n == [h EXCEPT !.xid = @ + 1]
<1>1. /\ n \in Handle /\ n.xid = h.xid + 1 /\ n.call = h.call /\ n.cred = h.cred
      /\ n.waited = h.waited /\ n.timeout = h.timeout /\ n.nrefreshes = h.nrefreshes
      /\ h.xid \in Nat
  BY RenumberedHandle, HandleFields
<1>2. Send(c, n, rest) \/ (cl' = [cl EXCEPT ![c] = Ended(n, "CANTENCODEARGS")] /\ net' = rest /\ UNCHANGED sent)
  BY DEF CallAgain
<1> HIDE DEF n
<1>3. Sendable(n) /\ n.xid > 0 /\ n.xid > cl[c].xid
  BY <1>1 DEF Sendable
<1>4. CASE Send(c, n, rest)
  BY <1>1, <1>3, <1>4, SendStep
<1>5. CASE cl' = [cl EXCEPT ![c] = Ended(n, "CANTENCODEARGS")] /\ net' = rest /\ UNCHANGED sent
  <2> DEFINE g == Ended(n, "CANTENCODEARGS")
  <2>1. /\ g \in Handle /\ g.pc = "idle" /\ g.status = "CANTENCODEARGS" /\ g.xid = n.xid
        /\ g.waited = n.waited /\ g.timeout = n.timeout
    BY <1>1, EndedHandle DEF RpcStat
  <2>2. cl' = [cl EXCEPT ![c] = g]
    BY <1>5
  <2> HIDE DEF g
  <2>3. HandleKept(g) /\ OutcomeTrue(g, c)
    BY <1>3, <2>1 DEF HandleKept, OutcomeTrue, Sendable
  <2>4. g.xid >= cl[c].xid /\ g.xid # cl[c].xid
    BY <1>1, <2>1
  <2>5. QED
    BY <1>5, <2>1, <2>2, <2>3, <2>4, HandleStep
<1>6. QED
  BY <1>2, <1>4, <1>5

(* What _seterr_reply makes of the server's answer: the two errors that    *)
(* the invariant is about, and success, each have one cause.               *)
LEMMA ReStatus ==
  ASSUME NEW stat \in Stat
  PROVE  /\ re_status(stat) \in RpcStat
         /\ re_status(stat) = "SUCCESS" <=> stat = "SUCCESS"
         /\ re_status(stat) = "AUTHERROR" <=> stat = "AUTH_ERROR"
         /\ re_status(stat) = "PROGVERSMISMATCH" <=> stat = "PROG_MISMATCH"
BY DEF Stat, re_status, RpcStat

(* The handle after a reply has been decoded. *)
LEMMA DecodedHandle ==
  ASSUME NEW h \in Handle, NEW m \in ReplyMsg
  PROVE  /\ Decoded(h, m) \in Handle /\ Decoded(h, m).pc = "idle"
         /\ Decoded(h, m).status = re_status(m.stat) /\ Decoded(h, m).result = m.call
         /\ Decoded(h, m).low = m.low /\ Decoded(h, m).high = m.high
         /\ Decoded(h, m).xid = h.xid /\ Decoded(h, m).call = h.call
         /\ Decoded(h, m).waited = h.waited /\ Decoded(h, m).timeout = h.timeout
<1>1. m.call \in Nat /\ m.low \in Nat /\ m.high \in Nat /\ re_status(m.stat) \in RpcStat
  BY MsgKinds, ReStatus
<1>2. Ended(h, re_status(m.stat)) \in Handle
  BY <1>1, EndedHandle
<1>3. Decoded(h, m) \in Handle
  BY <1>1, <1>2 DEF Decoded, Handle
<1>4. QED
  BY <1>1, <1>2, <1>3, EndedHandle DEF Decoded, Handle

(* The same after authunix_validate. *)
LEMMA ValidatedHandle ==
  ASSUME NEW h \in Handle, NEW verf
  PROVE  /\ Validated(h, verf) \in Handle /\ Validated(h, verf).pc = h.pc
         /\ Validated(h, verf).status = h.status /\ Validated(h, verf).result = h.result
         /\ Validated(h, verf).xid = h.xid /\ Validated(h, verf).call = h.call
         /\ Validated(h, verf).waited = h.waited /\ Validated(h, verf).timeout = h.timeout
BY DEF Validated, Handle

(* The same after authunix_refresh. *)
LEMMA RefreshedHandle ==
  ASSUME NEW h \in Handle, h.nrefreshes > 0
  PROVE  /\ Refreshed(h) \in Handle /\ Refreshed(h).cred = "orig"
         /\ Refreshed(h).xid = h.xid /\ Refreshed(h).call = h.call
         /\ Refreshed(h).waited = h.waited /\ Refreshed(h).timeout = h.timeout
<1>1. h.nrefreshes - 1 \in 0 .. 2
  BY HandleFields
<1>2. Refreshed(h) \in Handle
  BY <1>1 DEF Refreshed, Handle
<1>3. QED
  BY <1>2 DEF Refreshed, Handle

(* clntudp_call with the reply that it waits for. *)
LEMMA AcceptStep ==
  ASSUME RpcInv, NEW c \in Client, cl[c].pc = "wait", NEW m \in net, m.to = c, m.xid = cl[c].xid,
         Accept(c, m), UNCHANGED <<svc_head, changes, ran>>
  PROVE  RpcInv'
<1> DEFINE h == cl[c]
<1>1. h \in Handle /\ HandleKept(h)
  BY DEF RpcInv, RpcTypeOK, Handles
<1>2. /\ h.nrefreshes \in 0 .. 2 /\ h.xid \in Nat /\ h.waited \in Nat /\ h.timeout \in Nat
      /\ h.call \in 0 .. MaxCalls /\ h.cred \in {"orig", "short"}
  BY <1>1, HandleFields
<1>3. m \in ReplyMsg
  BY MsgKinds, RpcUdpAssumption DEF RpcInv, RpcTypeOK
<1>4. /\ m.stat \in Stat /\ m.call = h.call /\ ReplyTrue(m)
      /\ m.stat = "AUTH_ERROR" => h.cred = "short"
  BY <1>3, MsgKinds DEF RpcInv, Replies, ReplyKept
<1>5. h.waited < h.timeout /\ h.call > 0 /\ (h.cred = "short" => h.nrefreshes > 0)
  BY <1>1 DEF HandleKept
<1>6. dups \in Nat /\ dups <= MaxDup /\ MaxDup \in Nat
  BY RpcUdpAssumption DEF RpcInv, RpcTypeOK
<1>7. Take(m) => net' \in SUBSET net /\ dups' \in {dups, dups + 1} /\ dups' <= MaxDup
  BY <1>6 DEF Take
<1>8. ASSUME NEW g \in Handle, cl' = [cl EXCEPT ![c] = g], Take(m), sent' = sent,
             g.pc = "idle", g.xid = h.xid, g.call = h.call, g.waited = h.waited,
             g.timeout = h.timeout, OutcomeTrue(g, c)
      PROVE  RpcInv'
  <2>1. HandleKept(g) /\ g.xid >= cl[c].xid /\ (g.xid = cl[c].xid => g.call = cl[c].call)
    BY <1>2, <1>5, <1>8 DEF HandleKept
  <2>2. QED
    BY <1>7, <1>8, <2>1, HandleStep
<1>9. CASE /\ m.stat = "SUCCESS" /\ Take(m)
           /\ cl' = [cl EXCEPT ![c] = Validated(Decoded(h, m), m.verf)] /\ UNCHANGED sent
  <2> DEFINE g == Validated(Decoded(h, m), m.verf)
  <2>1. /\ g \in Handle /\ g.pc = "idle" /\ g.status = "SUCCESS" /\ g.result = m.call
        /\ g.xid = h.xid /\ g.call = h.call /\ g.waited = h.waited /\ g.timeout = h.timeout
    BY <1>1, <1>3, <1>4, <1>9, DecodedHandle, ValidatedHandle, ReStatus
  <2>2. cl' = [cl EXCEPT ![c] = g]
    BY <1>9
  <2> HIDE DEF g
  <2>3. OutcomeTrue(g, c)
    BY <1>4, <1>5, <1>9, <2>1 DEF OutcomeTrue, ReplyTrue
  <2>4. QED
    BY <1>8, <1>9, <2>1, <2>2, <2>3
<1>10. CASE /\ m.stat # "SUCCESS" /\ ~CanRefresh(h) /\ Take(m)
            /\ cl' = [cl EXCEPT ![c] = Decoded(h, m)] /\ UNCHANGED sent
  <2> DEFINE g == Decoded(h, m)
  <2>1. /\ g \in Handle /\ g.pc = "idle" /\ g.status = re_status(m.stat)
        /\ g.low = m.low /\ g.high = m.high
        /\ g.xid = h.xid /\ g.call = h.call /\ g.waited = h.waited /\ g.timeout = h.timeout
    BY <1>1, <1>3, DecodedHandle
  <2>2. cl' = [cl EXCEPT ![c] = g]
    BY <1>10
  <2> HIDE DEF g
  <2>3. m.stat # "AUTH_ERROR"
    BY <1>4, <1>5, <1>10 DEF CanRefresh
  <2>4. OutcomeTrue(g, c)
    BY <1>4, <1>10, <2>1, <2>3, ReStatus DEF OutcomeTrue, ReplyTrue
  <2>5. QED
    BY <1>8, <1>10, <2>1, <2>2, <2>4
<1>11. CASE /\ m.stat # "SUCCESS" /\ CanRefresh(h)
            /\ \/ CallAgain(c, Refreshed(h), net \ {m}) /\ UNCHANGED dups
               \/ dups < MaxDup /\ dups' = dups + 1 /\ CallAgain(c, Refreshed(h), net)
  <2> DEFINE g == Refreshed(h)
  <2>1. /\ g \in Handle /\ g.cred = "orig" /\ g.xid = h.xid /\ g.call = h.call
        /\ g.waited = h.waited /\ g.timeout = h.timeout
    BY <1>1, <1>11, RefreshedHandle DEF CanRefresh
  <2>2. \/ CallAgain(c, g, net \ {m}) /\ UNCHANGED dups
        \/ dups < MaxDup /\ dups' = dups + 1 /\ CallAgain(c, g, net)
    BY <1>11
  <2> HIDE DEF g
  <2>3. Sendable(g)
    BY <1>2, <1>5, <2>1 DEF Sendable
  <2>4. PICK rest \in SUBSET net : CallAgain(c, g, rest) /\ dups' \in {dups, dups + 1} /\ dups' <= MaxDup
    BY <1>6, <2>2
  <2>5. QED
    BY <2>1, <2>3, <2>4, CallAgainStep
<1>12. CASE Take(m) /\ cl' = [cl EXCEPT ![c] = Ended(h, "CANTDECODERES")] /\ UNCHANGED sent
  <2> DEFINE g == Ended(h, "CANTDECODERES")
  <2>1. /\ g \in Handle /\ g.pc = "idle" /\ g.status = "CANTDECODERES"
        /\ g.xid = h.xid /\ g.call = h.call /\ g.waited = h.waited /\ g.timeout = h.timeout
    BY <1>1, EndedHandle DEF RpcStat
  <2>2. cl' = [cl EXCEPT ![c] = g]
    BY <1>12
  <2> HIDE DEF g
  <2>3. OutcomeTrue(g, c)
    BY <2>1 DEF OutcomeTrue
  <2>4. QED
    BY <1>8, <1>12, <2>1, <2>2, <2>3
<1>13. QED
  BY <1>9, <1>10, <1>11, <1>12 DEF Accept

(* The server's answers to a request: replies to it that are true, and the *)
(* credentials are rejected only if they are shorthand.                    *)
LEMMA AnswersTrue ==
  ASSUME RpcInv, NEW m \in RequestMsg, NEW a \in Answers(m)
  PROVE  /\ a \in ReplyMsg /\ a.to = m.c /\ a.xid = m.xid /\ a.call = m.call
         /\ a.stat = "AUTH_ERROR" => m.cred = "short"
         /\ a.stat = "PROG_MISMATCH" =>
              /\ a.low <= a.high /\ a.low \in Version /\ a.high \in Version
              /\ a.low # CallVersion /\ a.high # CallVersion
<1>1. /\ m.c \in Client /\ m.xid \in Nat \ {0} /\ m.call \in 1 .. MaxCalls
      /\ m.cred \in {"orig", "short"}
  BY MsgKinds
<1>2. svc_head \subseteq Version /\ Version \subseteq Nat /\ MaxLong \in Nat
      /\ \A v \in Version : v < MaxLong /\ v > 0
  BY RpcUdpAssumption DEF RpcInv, RpcTypeOK
<1>3. ASSUME NEW stat \in Stat
      PROVE  /\ Reply(m, stat) \in ReplyMsg /\ Reply(m, stat).to = m.c /\ Reply(m, stat).xid = m.xid
             /\ Reply(m, stat).call = m.call /\ Reply(m, stat).stat = stat
  BY <1>1 DEF Reply, ReplyMsg
<1>4. CASE a = Reply(m, "AUTH_ERROR") /\ ~Authenticated(m)
  BY <1>1, <1>3, <1>4 DEF Stat, Authenticated
<1>5. CASE a = Reply(m, "PROG_UNAVAIL")
  BY <1>3, <1>5 DEF Stat
<1>6. CASE svc_head # {} /\ CallVersion \notin svc_head /\ a = ReplyMismatch(m)
  <2> DEFINE lo == Min(svc_head \cup {MaxLong})
             hi == Max(svc_head \cup {0})
  <2>1. lo \in svc_head \cup {MaxLong} /\ \A y \in svc_head \cup {MaxLong} : lo <= y
    BY <1>2, LeastExists
  <2>2. hi \in svc_head \cup {0} /\ \A y \in svc_head \cup {0} : hi >= y
    <3>1. /\ svc_head \cup {0} \in SUBSET Nat /\ svc_head \cup {0} # {}
          /\ \A x \in svc_head \cup {0} : x <= MaxLong
      BY <1>2
    <3>2. QED
      BY <1>2, <3>1, GreatestExists
  <2>3. a = [Reply(m, "PROG_MISMATCH") EXCEPT !.low = lo, !.high = hi]
    BY <1>6 DEF ReplyMismatch
  <2> HIDE DEF lo, hi
  <2>4. PICK v \in svc_head : TRUE
    BY <1>6
  <2>5. v \in Nat /\ v < MaxLong /\ v > 0 /\ lo <= v /\ hi >= v
    BY <1>2, <2>1, <2>2, <2>4
  <2>6. lo \in svc_head
    BY <1>2, <2>1, <2>5
  <2>7. hi \in svc_head
    BY <1>2, <2>2, <2>5
  <2>8. lo \in Nat /\ hi \in Nat /\ lo \in Version /\ hi \in Version
    BY <1>2, <2>6, <2>7
  <2>9. lo <= hi /\ lo # CallVersion /\ hi # CallVersion
    BY <1>6, <2>1, <2>6, <2>7
  <2>10. /\ a \in ReplyMsg /\ a.to = m.c /\ a.xid = m.xid /\ a.call = m.call
         /\ a.stat = "PROG_MISMATCH" /\ a.low = lo /\ a.high = hi
    <3>1. a = [Reply(m, "PROG_MISMATCH") EXCEPT !.low = lo, !.high = hi] /\ Reply(m, "PROG_MISMATCH") \in ReplyMsg
      BY <1>3, <2>3 DEF Stat
    <3>2. QED
      BY <2>8, <3>1, <1>1 DEF Reply, ReplyMsg, Stat
  <2>11. QED
    BY <2>8, <2>9, <2>10
<1>7. CASE a \in {Reply(m, s) : s \in Complaint}
  <2>1. PICK s \in Complaint : a = Reply(m, s)
    BY <1>7
  <2>2. s \in {"PROC_UNAVAIL", "GARBAGE_ARGS", "SYSTEM_ERR"}
    BY <2>1, RpcUdpAssumption
  <2>3. QED
    BY <1>3, <2>1, <2>2 DEF Stat
<1>8. CASE a \in {[Reply(m, "SUCCESS") EXCEPT !.verf = v] : v \in {"null"} \cup Shorthand}
  <2>1. PICK v \in {"null"} \cup Shorthand : a = [Reply(m, "SUCCESS") EXCEPT !.verf = v]
    BY <1>8
  <2>2. a \in ReplyMsg /\ a.to = m.c /\ a.xid = m.xid /\ a.call = m.call /\ a.stat = "SUCCESS"
    BY <1>1, <2>1 DEF Reply, ReplyMsg, Stat
  <2>3. QED
    BY <2>2
<1>9. QED
  BY <1>4, <1>5, <1>6, <1>7, <1>8 DEF Answers

(* svc_getreqset: a datagram is answered, and perhaps executed. *)
LEMMA ServeStep == RpcInv /\ Serve => RpcInv'
<1> SUFFICES ASSUME RpcInv, Serve PROVE RpcInv'
  OBVIOUS
<1>1. PICK m \in net : /\ m.to = "server"
                       /\ \E a \in Answers(m), keep \in BOOLEAN :
                            /\ keep => dups < MaxDup
                            /\ dups' = IF keep THEN dups + 1 ELSE dups
                            /\ net' = (IF keep THEN net ELSE net \ {m}) \cup {a}
                            /\ ran' = IF a.stat = "SUCCESS" THEN [ran EXCEPT ![<<m.c, m.call>>] = @ + 1] ELSE ran
                       /\ UNCHANGED <<cl, sent, svc_head, changes>>
  BY DEF Serve
<1>2. PICK a \in Answers(m), base \in SUBSET net :
             /\ net' = base \cup {a}
             /\ \/ base = net /\ dups < MaxDup /\ dups' = dups + 1
                \/ base = net \ {m} /\ dups' = dups
             /\ ran' = IF a.stat = "SUCCESS" THEN [ran EXCEPT ![<<m.c, m.call>>] = @ + 1] ELSE ran
  BY <1>1
<1>3. m \in RequestMsg
  BY <1>1, MsgKinds DEF RpcInv, RpcTypeOK
<1>4. /\ a \in ReplyMsg /\ a.to = m.c /\ a.xid = m.xid /\ a.call = m.call
      /\ a.stat = "AUTH_ERROR" => m.cred = "short"
      /\ a.stat = "PROG_MISMATCH" =>
           /\ a.low <= a.high /\ a.low \in Version /\ a.high \in Version
           /\ a.low # CallVersion /\ a.high # CallVersion
  BY <1>3, AnswersTrue
<1>5. /\ m.c \in Client /\ m.call \in 1 .. MaxCalls /\ <<m.c, m.call>> \in Calls
      /\ RequestKept(m, cl[m.c]) /\ a \notin RequestMsg
  BY <1>3, <1>4, MsgKinds DEF RpcInv, Requests, Calls
<1>6. /\ ran' \in [Calls -> Nat]
      /\ \A k \in Calls : ran'[k] = IF a.stat = "SUCCESS" /\ k = <<m.c, m.call>> THEN ran[k] + 1 ELSE ran[k]
  <2>1. CASE a.stat = "SUCCESS"
    BY <1>2, <1>5, <2>1 DEF RpcInv, RpcTypeOK
  <2>2. CASE a.stat # "SUCCESS"
    BY <1>2, <2>2 DEF RpcInv, RpcTypeOK
  <2>3. QED
    BY <2>1, <2>2
<1>7. \A k \in Calls : ran[k] \in Nat /\ ran'[k] \in Nat /\ ran'[k] >= ran[k]
  BY <1>6 DEF RpcInv, RpcTypeOK
<1>8. dups \in Nat /\ dups <= MaxDup /\ MaxDup \in Nat
  BY RpcUdpAssumption DEF RpcInv, RpcTypeOK
<1>9. IsFiniteSet(base) /\ IsFiniteSet(net')
  <2>1. IsFiniteSet(base)
    BY InFlightCount DEF RpcInv, RpcTypeOK
  <2>2. QED
    BY <1>2, <2>1, FS_AddElement
<1>10. RpcTypeOK'
  <2>1. net' \subseteq RequestMsg \cup ReplyMsg
    BY <1>2, <1>4 DEF RpcInv, RpcTypeOK
  <2>2. dups' \in 0 .. MaxDup
    BY <1>2, <1>8
  <2>3. QED
    BY <1>1, <1>6, <1>9, <2>1, <2>2 DEF RpcInv, RpcTypeOK
<1>11. Handles' /\ Requests'
  <2>1. Handles'
    BY <1>1 DEF RpcInv, Handles
  <2>2. \A n \in net' : n \in RequestMsg => n \in net
    BY <1>2, <1>5
  <2>3. QED
    BY <1>1, <2>1, <2>2 DEF RpcInv, Requests
<1>12. Replies'
  <2>1. SUFFICES ASSUME NEW n \in net', n \in ReplyMsg PROVE ReplyKept(n, cl[n.to]) /\ ReplyTrue(n)'
    BY <1>1 DEF Replies
  <2>2. CASE n = a
    <3>1. ReplyKept(n, cl[n.to])
      BY <1>4, <1>5, <2>2 DEF ReplyKept, RequestKept
    <3>2. a.stat = "SUCCESS" => ran'[<<m.c, m.call>>] > 0
      BY <1>5, <1>6, <1>7
    <3>3. ReplyTrue(n)'
      BY <1>4, <2>2, <3>2 DEF ReplyTrue
    <3>4. QED
      BY <3>1, <3>3
  <2>3. CASE n # a
    <3>1. n \in net /\ ReplyKept(n, cl[n.to]) /\ ReplyTrue(n) /\ <<n.to, n.call>> \in Calls
      BY <1>2, <2>1, <2>3, MsgKinds DEF RpcInv, Replies, Calls
    <3>2. ran[<<n.to, n.call>>] > 0 => ran'[<<n.to, n.call>>] > 0
      BY <1>7, <3>1
    <3>3. ReplyTrue(n)'
      BY <3>1, <3>2 DEF ReplyTrue
    <3>4. QED
      BY <3>1, <3>3
  <2>4. QED
    BY <2>2, <2>3
<1>13. Outcomes'
  <2>1. SUFFICES ASSUME NEW c \in Client PROVE OutcomeTrue(cl[c], c)'
    BY DEF Outcomes
  <2>2. OutcomeTrue(cl[c], c) /\ cl[c].call \in 0 .. MaxCalls
    BY HandleFields DEF RpcInv, RpcTypeOK, Outcomes
  <2>3. cl[c].call > 0 /\ ran[<<c, cl[c].call>>] > 0 => ran'[<<c, cl[c].call>>] > 0
    BY <1>7, <2>2 DEF Calls
  <2>4. QED
    BY <1>1, <2>2, <2>3 DEF OutcomeTrue
<1>14. Counted'
  <2>1. SUFFICES ASSUME NEW k \in Calls
                 PROVE  ran'[k] + Cardinality(InFlight(k, net')) <= sent[k] + dups'
    BY <1>1 DEF Counted
  <2>2. InFlight(k, net') = InFlight(k, base)
    BY <1>2, <1>5 DEF InFlight
  <2>3. /\ Cardinality(InFlight(k, base)) <= Cardinality(InFlight(k, net))
        /\ Cardinality(InFlight(k, net)) \in Nat /\ Cardinality(InFlight(k, base)) \in Nat
    BY <1>9, InFlightCount DEF RpcInv, RpcTypeOK
  <2>4. ran[k] + Cardinality(InFlight(k, net)) <= sent[k] + dups /\ sent[k] \in Nat
    BY DEF RpcInv, RpcTypeOK, Counted
  <2>5. CASE k # <<m.c, m.call>>
    BY <1>2, <1>6, <1>7, <1>8, <2>2, <2>3, <2>4, <2>5
  <2>6. CASE k = <<m.c, m.call>> /\ base = net /\ dups' = dups + 1
    BY <1>6, <1>7, <1>8, <2>2, <2>3, <2>4, <2>6
  <2>7. CASE k = <<m.c, m.call>> /\ base = net \ {m} /\ dups' = dups
    <3>1. InFlight(k, base) = InFlight(k, net) \ {m} /\ m \in InFlight(k, net)
      BY <1>3, <2>7 DEF InFlight
    <3>2. IsFiniteSet(InFlight(k, net))
      BY FS_Subset DEF InFlight, RpcInv, RpcTypeOK
    <3>3. Cardinality(InFlight(k, base)) = Cardinality(InFlight(k, net)) - 1
      <4> DEFINE f == InFlight(k, net)
      <4>1. m \in f /\ IsFiniteSet(f)
        BY <3>1, <3>2
      <4> HIDE DEF f
      <4>2. Cardinality(f \ {m}) = Cardinality(f) - 1
        BY <4>1, FS_RemoveElement
      <4>3. QED
        BY <3>1, <4>2 DEF f
    <3>4. QED
      BY <1>6, <1>7, <1>8, <2>2, <2>3, <2>4, <2>7, <3>3
  <2>8. QED
    BY <1>2, <2>5, <2>6, <2>7
<1>15. QED
  BY <1>10, <1>11, <1>12, <1>13, <1>14 DEF RpcInv

(* The handles at the start, and a network without datagrams. *)
LEMMA RpcInitInv == RInit => RpcInv
<1> SUFFICES ASSUME RInit PROVE RpcInv
  OBVIOUS
<1> DEFINE h == [pc |-> "idle", xid |-> 0, call |-> 0, timeout |-> 0, waited |-> 0,
                 nrefreshes |-> 2, cred |-> "orig", status |-> "none",
                 result |-> 0, low |-> 0, high |-> 0]
<1>1. h \in Handle
  BY RpcUdpAssumption DEF Handle, RpcStat
<1>2. HandleKept(h) /\ \A c \in Client : OutcomeTrue(h, c)
  BY DEF HandleKept, OutcomeTrue
<1>3. \A c \in Client : cl[c] = h
  BY DEF RInit
<1>4. cl \in [Client -> Handle]
  BY <1>1 DEF RInit
<1> HIDE DEF h
<1>5. RpcTypeOK
  BY <1>4, FS_EmptySet, RpcUdpAssumption DEF RInit, RpcTypeOK
<1>6. Handles /\ Outcomes /\ Requests /\ Replies
  BY <1>2, <1>3 DEF RInit, Handles, Outcomes, Requests, Replies
<1>7. Counted
  <2>1. \A k \in Calls : InFlight(k, {}) = {}
    BY DEF InFlight
  <2>2. QED
    BY <2>1, FS_EmptySet DEF RInit, Counted
<1>8. QED
  BY <1>5, <1>6, <1>7 DEF RpcInv

(* No step of a client, of the server or of the network breaks the         *)
(* invariant.                                                              *)
LEMMA RpcNextInv == RpcInv /\ [RNext]_rvars => RpcInv'
<1> SUFFICES ASSUME RpcInv, [RNext]_rvars PROVE RpcInv'
  OBVIOUS
<1>0. /\ \A c \in Client : cl[c] \in Handle /\ HandleKept(cl[c])
      /\ dups \in Nat /\ dups <= MaxDup /\ MaxDup \in Nat /\ svc_head \subseteq Version
      /\ Total \in Nat \ {0} /\ MaxCalls \in Nat /\ changes \in 0 .. MaxChange /\ MaxChange \in Nat
  BY RpcUdpAssumption DEF RpcInv, RpcTypeOK, Handles
<1>1. ASSUME NEW c \in Client, NEW time \in Nat, Call(c, time) PROVE RpcInv'
  <2> DEFINE h == [cl[c] EXCEPT !.call = @ + 1, !.timeout = time, !.waited = 0, !.nrefreshes = 2]
  <2>1. cl[c] \in Handle /\ cl[c].call \in 0 .. MaxCalls - 1 /\ CallAgain(c, h, net)
        /\ UNCHANGED <<svc_head, dups, changes, ran>>
    BY <1>0, <1>1, HandleFields DEF Call
  <2>2. cl[c].call + 1 \in 0 .. MaxCalls /\ 2 \in 0 .. 2 /\ 0 \in Nat
    BY <1>0, <2>1
  <2>3. h \in Handle
    BY <2>1, <2>2 DEF Handle
  <2>4. h.call > 0 /\ h.xid = cl[c].xid /\ h.waited = 0 /\ h.timeout = time /\ h.nrefreshes = 2
    BY <2>1, <2>2 DEF Handle
  <2> HIDE DEF h
  <2>5. Sendable(h)
    BY <2>4 DEF Sendable
  <2>6. QED
    BY <1>0, <2>1, <2>3, <2>4, <2>5, CallAgainStep
<1>2. ASSUME NEW c \in Client, SelectTimeout(c) PROVE RpcInv'
  <2> DEFINE h == [cl[c] EXCEPT !.waited = @ + 1]
  <2>1. /\ cl[c] \in Handle /\ cl[c].pc = "wait" /\ UNCHANGED <<svc_head, dups, changes, ran>>
        /\ IF h.waited < h.timeout THEN Send(c, h, net)
           ELSE cl' = [cl EXCEPT ![c] = Ended(h, "TIMEDOUT")] /\ UNCHANGED <<net, sent>>
    BY <1>0, <1>2 DEF SelectTimeout
  <2>2. /\ cl[c].waited \in Nat /\ cl[c].timeout \in Nat /\ cl[c].waited < cl[c].timeout
        /\ cl[c].call > 0 /\ (cl[c].cred = "short" => cl[c].nrefreshes > 0)
        /\ cl[c].call \in Nat /\ cl[c].xid \in Nat
    BY <1>0, <2>1, HandleFields DEF HandleKept
  <2>3. h \in Handle
    BY <2>1, <2>2 DEF Handle
  <2>4. /\ h.waited = cl[c].waited + 1 /\ h.timeout = cl[c].timeout /\ h.call = cl[c].call
        /\ h.cred = cl[c].cred /\ h.nrefreshes = cl[c].nrefreshes /\ h.xid = cl[c].xid
    BY <2>1 DEF Handle
  <2> HIDE DEF h
  <2>5. CASE h.waited < h.timeout
    <3>1. Sendable(h)
      BY <2>2, <2>4, <2>5 DEF Sendable
    <3>2. h.xid > 0
      BY <1>0, <2>1, <2>4 DEF HandleKept
    <3>3. QED
      BY <1>0, <2>1, <2>3, <2>4, <2>5, <3>1, <3>2, SendStep
  <2>6. CASE ~(h.waited < h.timeout)
    <3> DEFINE g == Ended(h, "TIMEDOUT")
    <3>1. /\ g \in Handle /\ g.pc = "idle" /\ g.status = "TIMEDOUT" /\ g.xid = h.xid
          /\ g.call = h.call /\ g.waited = h.waited /\ g.timeout = h.timeout
      BY <2>3, EndedHandle DEF RpcStat
    <3>2. cl' = [cl EXCEPT ![c] = g] /\ UNCHANGED <<net, sent>>
      BY <2>1, <2>6
    <3> HIDE DEF g
    <3>3. HandleKept(g) /\ OutcomeTrue(g, c)
      BY <2>2, <2>4, <2>6, <3>1 DEF HandleKept, OutcomeTrue
    <3>4. g.xid >= cl[c].xid /\ g.call = cl[c].call
      BY <2>2, <2>4, <3>1
    <3>5. QED
      BY <1>0, <2>1, <3>1, <3>2, <3>3, <3>4, HandleStep
  <2>7. QED
    BY <2>5, <2>6
<1>3. ASSUME NEW c \in Client, Receive(c) PROVE RpcInv'
  <2>1. PICK m \in net : /\ m.to = c
                         /\ \/ m.xid = cl[c].xid /\ Accept(c, m)
                            \/ m.xid # cl[c].xid /\ Take(m) /\ UNCHANGED <<cl, sent>>
    BY <1>3 DEF Receive
  <2>2. cl[c].pc = "wait" /\ UNCHANGED <<svc_head, changes, ran>>
    BY <1>3 DEF Receive
  <2>3. CASE m.xid = cl[c].xid /\ Accept(c, m)
    BY <2>1, <2>2, <2>3, AcceptStep
  <2>4. CASE m.xid # cl[c].xid /\ Take(m) /\ UNCHANGED <<cl, sent>>
    <3>1. net' \in SUBSET net /\ dups' \in {dups, dups + 1} /\ dups' <= MaxDup
      BY <1>0, <2>4 DEF Take
    <3>2. QED
      BY <1>0, <2>2, <2>4, <3>1, NetStep
  <2>5. QED
    BY <2>1, <2>3, <2>4
<1>4. ASSUME NEW c \in Client, ReceiveFails(c) PROVE RpcInv'
  <2> DEFINE g == Ended(cl[c], "CANTRECV")
  <2>1. cl' = [cl EXCEPT ![c] = g] /\ UNCHANGED <<net, sent, svc_head, dups, changes, ran>>
    BY <1>4 DEF ReceiveFails
  <2>2. /\ g \in Handle /\ g.pc = "idle" /\ g.status = "CANTRECV" /\ g.xid = cl[c].xid
        /\ g.call = cl[c].call /\ g.waited = cl[c].waited /\ g.timeout = cl[c].timeout
        /\ cl[c].xid \in Nat
    BY <1>0, EndedHandle, HandleFields DEF RpcStat
  <2> HIDE DEF g
  <2>3. HandleKept(g) /\ OutcomeTrue(g, c)
    BY <1>0, <2>2 DEF HandleKept, OutcomeTrue
  <2>4. g.xid >= cl[c].xid
    BY <2>2
  <2>5. QED
    BY <1>0, <2>1, <2>2, <2>3, <2>4, HandleStep
<1>5. ASSUME NEW v \in Version, Register(v) \/ Unregister(v) PROVE RpcInv'
  <2>1. svc_head' \subseteq Version /\ changes' \in 0 .. MaxChange /\ UNCHANGED <<cl, net, sent, dups, ran>>
    BY <1>0, <1>5 DEF Register, Unregister
  <2>2. RpcTypeOK'
    BY <2>1 DEF RpcInv, RpcTypeOK
  <2>3. Handles' /\ Requests' /\ Replies' /\ Outcomes' /\ Counted'
    BY <2>1 DEF RpcInv, Handles, Requests, Replies, ReplyTrue, Outcomes, OutcomeTrue, Counted
  <2>4. QED
    BY <2>2, <2>3 DEF RpcInv
<1>6. CASE Serve
  BY <1>6, ServeStep
<1>7. CASE Lose
  BY <1>0, <1>7, NetStep DEF Lose
<1>8. CASE UNCHANGED rvars
  BY <1>0, <1>8, NetStep DEF rvars
<1>9. QED
  <2>1. 0 \in Nat /\ Total \in Nat
    BY <1>0
  <2>2. QED
    BY <1>1, <1>2, <1>3, <1>4, <1>5, <1>6, <1>7, <1>8, <2>1 DEF RNext, ClientWork

(* So it holds in every reachable state. *)
LEMMA RpcInductive == RSpec => []RpcInv
BY RpcInitInv, RpcNextInv, PTL DEF RSpec

(* Whatever the network loses, repeats or reorders, a call over UDP that   *)
(* succeeds returns the result of its own execution, rejected shorthand    *)
(* credentials are not the caller's problem, a call is executed at most    *)
(* once per datagram, and a range of versions is one that was offered.     *)
THEOREM RpcIsRight == RSpec => []RpcRight
<1>1. RpcInv => RpcRight
  <2> SUFFICES ASSUME RpcInv PROVE RpcRight
    OBVIOUS
  <2>1. \A c \in Client : cl[c] \in Handle /\ HandleKept(cl[c]) /\ OutcomeTrue(cl[c], c)
    BY DEF RpcInv, RpcTypeOK, Handles, Outcomes
  <2>2. OwnResult /\ ShorthandRecovers /\ MismatchRange
    BY <2>1 DEF OwnResult, ShorthandRecovers, MismatchRange, Status, OutcomeTrue
  <2>3. ExecutionsBounded
    <3>1. ASSUME NEW k \in Calls PROVE ran[k] <= sent[k] + dups
      <4>1. /\ ran[k] \in Nat /\ sent[k] \in Nat /\ dups \in Nat
            /\ Cardinality(InFlight(k, net)) \in Nat
        BY RpcUdpAssumption, InFlightCount DEF RpcInv, RpcTypeOK
      <4>2. ran[k] + Cardinality(InFlight(k, net)) <= sent[k] + dups
        BY DEF RpcInv, Counted
      <4>3. QED
        BY <4>1, <4>2
    <3>2. QED
      BY <3>1 DEF ExecutionsBounded
  <2>4. RTypeOK
    <3>1. ASSUME NEW c \in Client
          PROVE  /\ cl[c].pc \in {"idle", "wait"} /\ cl[c].cred \in {"orig", "short"}
                 /\ cl[c].call \in 0 .. MaxCalls /\ cl[c].xid \in Nat
                 /\ cl[c].waited \in 0 .. cl[c].timeout /\ cl[c].nrefreshes \in 0 .. 2
      BY <2>1, HandleFields DEF HandleKept
    <3>2. ASSUME NEW m \in net
          PROVE  m.xid > 0 /\ m.xid <= cl[IF m.to = "server" THEN m.c ELSE m.to].xid
      <4>1. CASE m \in RequestMsg
        BY <4>1, MsgKinds DEF RpcInv, Requests, RequestKept
      <4>2. CASE m \in ReplyMsg
        BY <4>2, MsgKinds DEF RpcInv, Replies, ReplyKept
      <4>3. QED
        BY <4>1, <4>2 DEF RpcInv, RpcTypeOK
    <3>3. QED
      BY <3>1, <3>2 DEF RTypeOK, RpcInv, RpcTypeOK
  <2>5. QED
    BY <2>2, <2>3, <2>4 DEF RpcRight
<1>2. QED
  BY <1>1, RpcInductive, PTL

-----------------------------------------------------------------------------
(* The resolver.  The invariant ties the time of a query to its count      *)
(* down, and while nothing has been heard it says exactly where the round  *)
(* over the servers is.                                                    *)

QueryRec ==
  [pc : {"idle", "loop", "poll"}, lookup : Nat, name : 0 .. MaxSearch, id : Nat, j : 0 .. Tries,
   i : Nat, now : Nat, last : Int, fd : {-1, 0, 4, 6}, mc : BOOLEAN,
   status : {"none", "OK", "NO_DATA", "HOST_NOT_FOUND"}, got : {<<>>} \cup (Nat \X Nat),
   asked : SUBSET Nat, sent : Nat, heard : Nat]

QuerySent == [sock : {4, 6, Multicast}, id : Nat \ {0}, name : Nat \X Nat]

Packet == [sock : {4, 6, Multicast}, id : Nat \ {0}, name : Nat \X Nat,
           kind : {"answer", "error", "broken", "junk"}]

ResTypeOK ==
  /\ conf.ns \in 0 .. Len(Family) /\ conf.search \in 0 .. MaxSearch
  /\ nscount \in {0, conf.ns} /\ dns_search \in 0 .. MaxSearch /\ fds \subseteq {4, 6}
  /\ q \in QueryRec /\ out \subseteq QuerySent /\ dnet \subseteq Packet
  /\ packets \in 0 .. MaxPackets

(* The time that has passed and the tries that are left make up the count  *)
(* down, and the datagrams lie more than Pause seconds apart.              *)
Clock(h) ==
  /\ h.j >= 1 /\ h.now + h.j <= Tries /\ h.name <= dns_search /\ h.id > 0
  /\ h.sent >= 1 => h.last >= 0
  /\ h.sent >= 2 => h.last >= Pause + 1

(* The round over one or two servers, at the top of the loop and at poll,  *)
(* while nothing has come: who is next, when the last datagram went out    *)
(* and who has got one.                                                    *)
LoopRound(h) ==
  /\ h.fd # -1 /\ h.j = Tries - h.now
  /\ h.i = IF nscount = 1 THEN 0 ELSE h.now % 2
  /\ h.now = 0 => h.last = -Pause - 1
  /\ h.now \in 1 .. Pause + 1 => h.last = 0 /\ h.asked = {0}
  /\ h.now > Pause + 1 => h.last = Pause + 1 /\ h.asked = 0 .. nscount - 1
  /\ h.now = 0 => h.asked = {}

PollRound(h) ==
  /\ h.fd # -1 /\ h.j = Tries - h.now
  /\ h.i = IF nscount = 1 THEN 0 ELSE (h.now + 1) % 2
  /\ h.now <= Pause => h.last = 0 /\ h.asked = {0}
  /\ h.now > Pause => h.last = Pause + 1 /\ h.asked = 0 .. nscount - 1

InRange(h) ==
  /\ h.now <= Tries /\ h.sent <= 2
  /\ nscount > 0 => h.i \in 0 .. nscount - 1
  /\ nscount = 0 => h.i = 0

QueryGood(h) ==
  /\ InRange(h)
  /\ h.pc # "idle" => Clock(h)
  /\ h.heard = 0 /\ nscount \in 1 .. 2 /\ h.pc = "loop" => LoopRound(h)
  /\ h.heard = 0 /\ nscount \in 1 .. 2 /\ h.pc = "poll" => PollRound(h)
  /\ h.pc = "idle" /\ h.status \in {"OK", "NO_DATA"} => h.got = <<h.lookup, h.name>>

(* Nothing in the network has an id that is yet to come, and what has the  *)
(* id of the query has its name.                                           *)
PacketsOld(h, ps) ==
  \A m \in ps : m.id <= h.id /\ (m.id = h.id => m.name = <<h.lookup, h.name>>)

ResInv == ResTypeOK /\ QueryGood(q) /\ PacketsOld(q, out) /\ PacketsOld(q, dnet)

(* The fields of a query. *)
LEMMA QueryFields ==
  ASSUME NEW h \in QueryRec
  PROVE  /\ h.pc \in {"idle", "loop", "poll"} /\ h.lookup \in Nat /\ h.name \in 0 .. MaxSearch
         /\ h.id \in Nat /\ h.j \in 0 .. Tries /\ h.i \in Nat /\ h.now \in Nat /\ h.last \in Int
         /\ h.fd \in {-1, 0, 4, 6} /\ h.sent \in Nat /\ h.heard \in Nat /\ h.asked \in SUBSET Nat
         /\ h.status \in {"none", "OK", "NO_DATA", "HOST_NOT_FOUND"} /\ h.mc \in BOOLEAN
BY DEF QueryRec

(* The numbers of resolv.conf and of the code. *)
LEMMA ResNumbers ==
  /\ Tries \in Nat /\ Pause \in Nat /\ Grace \in Nat /\ Pause > 0 /\ Grace > 1
  /\ Tries <= 2 * Pause + 1 /\ Tries >= Pause + 2 /\ Pause % 2 = 0 /\ (Pause + 1) % 2 = 1
  /\ MaxSearch \in Nat /\ MaxPackets \in Nat /\ Len(Family) \in Nat
  /\ \A n \in 1 .. Len(Family) : Family[n] \in {4, 6}
<1>1. /\ Tries \in Nat /\ Pause \in Nat /\ Grace \in Nat /\ Pause > 0 /\ Grace > 1
      /\ Tries \div 2 = Pause /\ Pause % 2 = 0 /\ MaxSearch \in Nat /\ MaxPackets \in Nat
  BY ResolverAssumption
<1>2. Tries <= 2 * Pause + 1 /\ Tries >= 2 * Pause
  BY <1>1
<1>3. (Pause + 1) % 2 = 1 /\ Pause >= 2
  BY <1>1
<1>4. Len(Family) \in Nat /\ \A n \in 1 .. Len(Family) : Family[n] \in {4, 6}
  BY ResolverAssumption
<1>5. QED
  BY <1>1, <1>2, <1>3, <1>4

(* A step of the query that runs, which may send a datagram and take       *)
(* packets from the sockets.                                               *)
LEMMA SameQuery ==
  ASSUME ResInv, NEW h \in QueryRec, q' = h, h.id = q.id, h.lookup = q.lookup, h.name = q.name,
         QueryGood(h), dnet' \in SUBSET dnet, UNCHANGED <<conf, nscount, dns_search>>,
         fds' \subseteq {4, 6}, packets' \in 0 .. MaxPackets,
         \A o \in out' : o \in out \/ (o \in QuerySent /\ o.id = q.id /\ o.name = <<q.lookup, q.name>>)
  PROVE  ResInv'
<1>1. ResTypeOK'
  BY DEF ResInv, ResTypeOK
<1>2. QueryGood(q)'
  BY DEF QueryGood, InRange, Clock, LoopRound, PollRound
<1>3. PacketsOld(q, out)' /\ PacketsOld(q, dnet)'
  <2>1. q.id \in Nat
    BY QueryFields DEF ResInv, ResTypeOK
  <2>2. QED
    BY <2>1 DEF ResInv, PacketsOld
<1>4. QED
  BY <1>1, <1>2, <1>3 DEF ResInv

(* The sockets and the counter of packets, as every step of a query leaves *)
(* them.                                                                   *)
Surroundings ==
  /\ fds' \subseteq {4, 6} /\ packets' \in 0 .. MaxPackets /\ dnet' \in SUBSET dnet

(* A name is asked with an id that nothing in the network has yet. *)
LEMMA NewQuery ==
  ASSUME ResInv, NEW h \in QueryRec, h.id = q.id, NEW name \in 0 .. MaxSearch, Query(h, name),
         conf' = conf, nscount' \in {0, conf.ns}, dns_search' \in 0 .. MaxSearch,
         name <= dns_search', Surroundings
  PROVE  ResInv'
<1>1. PICK mc \in BOOLEAN :
        /\ q' = [h EXCEPT !.pc = "loop", !.name = name, !.id = @ + 1, !.j = Tries, !.i = 0, !.now = 0,
                          !.last = -Pause - 1, !.fd = 0, !.mc = mc, !.asked = {}, !.sent = 0, !.heard = 0]
        /\ out' = IF mc THEN out \cup {[sock |-> Multicast, id |-> h.id + 1, name |-> <<h.lookup, name>>]}
                  ELSE out
  BY DEF Query
<1>2. /\ Tries \in Nat /\ Pause \in Nat /\ Tries > 0 /\ Pause > 0 /\ conf.ns \in 0 .. Len(Family)
      /\ Len(Family) \in Nat /\ MaxSearch \in Nat
  BY ResNumbers DEF ResInv, ResTypeOK
<1>3. /\ h.lookup \in Nat /\ h.id \in Nat /\ q.id \in Nat
  BY QueryFields DEF ResInv, ResTypeOK
<1>4. /\ q' \in QueryRec /\ q'.pc = "loop" /\ q'.name = name /\ q'.id = q.id + 1 /\ q'.j = Tries
      /\ q'.i = 0 /\ q'.now = 0 /\ q'.last = -Pause - 1 /\ q'.fd = 0 /\ q'.asked = {} /\ q'.sent = 0
      /\ q'.lookup = h.lookup
  <2> DEFINE last == -Pause - 1
             id == h.id + 1
  <2>1. last \in Int /\ id \in Nat /\ Tries \in 0 .. Tries /\ 0 \in Nat
    BY <1>2, <1>3
  <2>2. q' = [h EXCEPT !.pc = "loop", !.name = name, !.id = id, !.j = Tries, !.i = 0, !.now = 0,
                       !.last = last, !.fd = 0, !.mc = mc, !.asked = {}, !.sent = 0, !.heard = 0]
    BY <1>1, Zenon
  <2>3. id = q.id + 1
    OBVIOUS
  <2> HIDE DEF last, id
  <2>4. q' \in QueryRec
    BY <2>1, <2>2 DEF QueryRec
  <2>5. /\ q'.pc = "loop" /\ q'.name = name /\ q'.id = id /\ q'.j = Tries
        /\ q'.i = 0 /\ q'.now = 0 /\ q'.last = last /\ q'.fd = 0 /\ q'.asked = {} /\ q'.sent = 0
        /\ q'.lookup = h.lookup
    BY <2>2 DEF QueryRec
  <2>6. QED
    BY <2>3, <2>4, <2>5 DEF last
<1>5. \A o \in out' : o \in out \/ (o \in QuerySent /\ o.id = q.id + 1 /\ o.name = <<h.lookup, name>>)
  BY <1>1, <1>2, <1>3 DEF QuerySent
<1>6. ResTypeOK'
  BY <1>4, <1>5 DEF ResInv, ResTypeOK, Surroundings
<1>7. QueryGood(q)'
  <2>1. nscount' \in Nat
    BY <1>2
  <2>2. q'.now <= Tries /\ q'.sent <= 2 /\ (nscount' > 0 => q'.i \in 0 .. nscount' - 1)
    <3>1. q'.now <= Tries /\ q'.sent <= 2
      BY <1>2, <1>4
    <3>2. \A n \in Nat : n > 0 => 0 \in 0 .. n - 1
      OBVIOUS
    <3>3. QED
      BY <1>4, <2>1, <3>1, <3>2
  <2>3. InRange(q)'
    BY <1>4, <2>2 DEF InRange
  <2>4. Clock(q)'
    BY <1>2, <1>3, <1>4, <2>1 DEF Clock
  <2>5. /\ q'.now % 2 = 0 /\ q'.j = Tries - q'.now /\ q'.fd # -1
        /\ ~(q'.now \in 1 .. Pause + 1) /\ ~(q'.now > Pause + 1)
    BY <1>2, <1>4
  <2>6. LoopRound(q)'
    BY <1>4, <2>5 DEF LoopRound
  <2>7. QED
    BY <1>4, <2>3, <2>4, <2>6 DEF QueryGood
<1>8. PacketsOld(q, out)'
  <2>1. \A o \in out : o.id <= q.id /\ o.id \in Nat
    BY DEF ResInv, ResTypeOK, PacketsOld, QuerySent
  <2>2. QED
    BY <1>3, <1>4, <1>5, <2>1 DEF PacketsOld
<1>9. PacketsOld(q, dnet)'
  <2>1. \A m \in dnet : m.id <= q.id /\ m.id \in Nat
    BY DEF ResInv, ResTypeOK, PacketsOld, Packet
  <2>2. QED
    BY <1>3, <1>4, <2>1 DEF PacketsOld, Surroundings
<1>10. QED
  BY <1>6, <1>7, <1>8, <1>9 DEF ResInv

(* What holds of the query that runs. *)
LEMMA Running ==
  ASSUME ResInv, q.pc # "idle"
  PROVE  /\ q \in QueryRec /\ InRange(q) /\ Clock(q) /\ q.name <= dns_search
         /\ nscount \in Nat /\ nscount <= Len(Family) /\ dns_search \in 0 .. MaxSearch
         /\ fds \subseteq {4, 6} /\ packets \in 0 .. MaxPackets
<1>1. Len(Family) \in Nat
  BY ResNumbers
<1>2. QED
  BY <1>1 DEF ResInv, ResTypeOK, QueryGood, Clock

(* h is the query that runs, changed. *)
OfQuery(h) == h \in QueryRec /\ h.id = q.id /\ h.lookup = q.lookup /\ h.name = q.name

(* The name is given up, for the next one or for good. *)
LEMMA NotFoundStep ==
  ASSUME ResInv, q.pc # "idle", NEW h, OfQuery(h), InRange(h), NotFound(h),
         UNCHANGED <<conf, nscount, dns_search>>, Surroundings
  PROVE  ResInv'
<1>1. h \in QueryRec /\ h.name \in 0 .. MaxSearch /\ h.name <= dns_search /\ dns_search \in 0 .. MaxSearch
  BY Running, QueryFields DEF OfQuery
<1>2. CASE h.name = dns_search
  <2> DEFINE g == [h EXCEPT !.pc = "idle", !.status = "HOST_NOT_FOUND"]
  <2>1. q' = g /\ out' = out
    BY <1>2 DEF NotFound
  <2>2. g \in QueryRec /\ g.id = q.id /\ g.lookup = q.lookup /\ g.name = q.name
    BY DEF QueryRec, OfQuery
  <2>3. QueryGood(g)
    BY DEF QueryGood, InRange, OfQuery, QueryRec
  <2> HIDE DEF g
  <2>4. QED
    BY <2>1, <2>2, <2>3, SameQuery DEF Surroundings
<1>3. CASE h.name # dns_search
  <2>1. Query(h, h.name + 1)
    BY <1>3 DEF NotFound
  <2>2. h.name + 1 \in 0 .. MaxSearch /\ h.name + 1 <= dns_search'
    BY <1>1, <1>3, ResNumbers
  <2>3. nscount' \in {0, conf.ns} /\ dns_search' \in 0 .. MaxSearch
    BY DEF ResInv, ResTypeOK
  <2>4. h.id = q.id /\ conf' = conf
    BY DEF OfQuery
  <2>5. QED
    BY <1>1, <2>1, <2>2, <2>3, <2>4, NewQuery
<1>4. QED
  BY <1>2, <1>3

(* The loop goes round again, or the count down is over. *)
LEMMA ContinueStep ==
  ASSUME ResInv, q.pc # "idle", NEW h, OfQuery(h), InRange(h),
         h.j > 1 => QueryGood([h EXCEPT !.pc = "loop", !.j = @ - 1]), Continue(h),
         UNCHANGED <<conf, nscount, dns_search>>, Surroundings
  PROVE  ResInv'
<1>1. CASE h.j > 1
  <2> DEFINE g == [h EXCEPT !.pc = "loop", !.j = @ - 1]
  <2>1. q' = g /\ out' = out
    BY <1>1 DEF Continue
  <2>2. g \in QueryRec /\ g.id = q.id /\ g.lookup = q.lookup /\ g.name = q.name
    <3>1. h.j \in 0 .. Tries /\ Tries \in Nat
      BY ResNumbers DEF QueryRec, OfQuery
    <3>2. h.j - 1 \in 0 .. Tries
      BY <1>1, <3>1
    <3>3. QED
      BY <3>2 DEF QueryRec, OfQuery
  <2>3. QueryGood(g)
    BY <1>1
  <2> HIDE DEF g
  <2>4. QED
    BY <2>1, <2>2, <2>3, SameQuery DEF Surroundings
<1>2. CASE ~(h.j > 1)
  BY <1>2, NotFoundStep DEF Continue
<1>3. QED
  BY <1>1, <1>2

(* The query waits, or it is given up. *)
LEMMA ToPollStep ==
  ASSUME ResInv, q.pc # "idle", NEW h, OfQuery(h), InRange(h), QueryGood([h EXCEPT !.pc = "poll"]),
         ToPoll(h), UNCHANGED <<conf, nscount, dns_search>>, Surroundings
  PROVE  ResInv'
<1>1. CASE h.fd = -1 /\ (h.now > 0 \/ ~h.mc)
  BY <1>1, NotFoundStep DEF ToPoll
<1>2. CASE ~(h.fd = -1 /\ (h.now > 0 \/ ~h.mc))
  <2> DEFINE g == [h EXCEPT !.pc = "poll"]
  <2>1. q' = g /\ out' = out
    BY <1>2 DEF ToPoll
  <2>2. g \in QueryRec /\ g.id = q.id /\ g.lookup = q.lookup /\ g.name = q.name
    BY DEF QueryRec, OfQuery
  <2>3. QueryGood(g)
    OBVIOUS
  <2> HIDE DEF g
  <2>4. QED
    BY <2>1, <2>2, <2>3, SameQuery DEF Surroundings
<1>3. QED
  BY <1>1, <1>2

(* The next server is one of those configured. *)
LEMMA NextServerInRange ==
  ASSUME ResInv, NEW h \in QueryRec, nscount > 0 => h.i \in 0 .. nscount - 1
  PROVE  /\ NextServer(h) = [h EXCEPT !.i = NextServer(h).i] /\ NextServer(h).i \in Nat
         /\ nscount > 0 => NextServer(h).i \in 0 .. nscount - 1
         /\ nscount = 0 => NextServer(h).i = 0
         /\ nscount = 1 => NextServer(h).i = 0
         /\ nscount = 2 /\ h.i = 0 => NextServer(h).i = 1
         /\ nscount = 2 /\ h.i = 1 => NextServer(h).i = 0
<1>1. h.i \in Nat /\ nscount \in Nat
  <2>1. Len(Family) \in Nat
    BY ResNumbers
  <2>2. QED
    BY <2>1, QueryFields DEF ResInv, ResTypeOK
<1>2. NextServer(h).i = IF h.i + 1 >= nscount THEN 0 ELSE h.i + 1
  BY DEF NextServer, QueryRec
<1>3. NextServer(h) = [h EXCEPT !.i = NextServer(h).i]
  BY <1>2 DEF NextServer
<1>4. QED
  BY <1>1, <1>2, <1>3

(* Odd and even seconds. *)
LEMMA Alternates ==
  ASSUME NEW t \in Nat
  PROVE  /\ t % 2 \in {0, 1} /\ (t % 2 = 0 => (t + 1) % 2 = 1) /\ (t % 2 = 1 => (t + 1) % 2 = 0)
OBVIOUS

(* __dns_gethostbyx_r begins. *)
LEMMA LookupKeeps == ResInv /\ Lookup => ResInv'
<1> SUFFICES ASSUME ResInv, Lookup PROVE ResInv'
  OBVIOUS
<1> DEFINE h == [Idle EXCEPT !.lookup = q.lookup + 1, !.id = q.id]
<1>1. /\ q.lookup \in Nat /\ q.id \in Nat /\ Tries \in Nat /\ MaxSearch \in Nat /\ Len(Family) \in Nat
  BY QueryFields, ResNumbers DEF ResInv, ResTypeOK
<1>2. h \in QueryRec /\ h.id = q.id
  <2>1. Idle \in QueryRec
    BY <1>1 DEF Idle, QueryRec
  <2>2. q.lookup + 1 \in Nat
    BY <1>1
  <2>3. QED
    BY <1>1, <2>1, <2>2 DEF QueryRec
<1>3. Query(h, 0)
  BY DEF Lookup
<1>4. /\ conf' = conf /\ nscount' \in {0, conf.ns} /\ dns_search' \in 0 .. MaxSearch
      /\ 0 \in 0 .. MaxSearch /\ 0 <= dns_search'
  BY <1>1 DEF Lookup, ResInv, ResTypeOK
<1>5. Surroundings
  BY DEF Lookup, Surroundings, ResInv, ResTypeOK
<1> HIDE DEF h
<1>6. QED
  BY <1>2, <1>3, <1>4, <1>5, NewQuery

(* res_init, res_close and the replies leave the query alone. *)
LEMMA OthersKeep == ResInv /\ (ResInit \/ ResClose \/ Respond) => ResInv'
<1> SUFFICES ASSUME ResInv, ResInit \/ ResClose \/ Respond PROVE ResInv'
  OBVIOUS
<1>1. q' = q /\ q \in QueryRec
  BY DEF ResInit, ResClose, Respond, ResInv, ResTypeOK
<1>2. CASE ResInit
  <2>1. PICK search \in 0 .. MaxSearch : conf' = [conf EXCEPT !.search = search]
    BY <1>2 DEF ResInit
  <2>2. conf'.ns = conf.ns
    BY <2>1
  <2>3. ResTypeOK'
    BY <1>2, <2>1, <2>2 DEF ResInit, ResInv, ResTypeOK
  <2>4. q.pc = "idle" /\ nscount' = conf.ns /\ conf.ns \in Nat
    <3>1. Len(Family) \in Nat
      BY ResNumbers
    <3>2. QED
      BY <1>2, <2>2, <3>1 DEF ResInit, ResInv, ResTypeOK
  <2>5. InRange(q)'
    <3>1. InRange(q) /\ nscount \in {0, conf.ns}
      BY DEF ResInv, QueryGood, ResTypeOK
    <3>2. \A n \in Nat : n > 0 => 0 \in 0 .. n - 1
      OBVIOUS
    <3>3. QED
      BY <1>1, <2>4, <3>1, <3>2 DEF InRange
  <2>6. QueryGood(q)'
    BY <1>1, <2>4, <2>5 DEF ResInv, QueryGood
  <2>7. QED
    BY <1>1, <1>2, <2>3, <2>6 DEF ResInit, ResInv, PacketsOld
<1>3. CASE ResClose
  <2>1. /\ dnet' \in SUBSET dnet /\ out' \in SUBSET out /\ fds' = {}
        /\ UNCHANGED <<conf, nscount, dns_search, packets>>
    BY <1>3 DEF ResClose
  <2>2. QueryGood(q)
    BY DEF ResInv
  <2>3. QED
    BY <1>1, <2>1, <2>2, SameQuery DEF ResInv, ResTypeOK
<1>4. CASE Respond
  <2>1. UNCHANGED <<conf, nscount, dns_search, fds, q, out>> /\ packets' = packets + 1 /\ packets < MaxPackets
    BY <1>4 DEF Respond
  <2>2. PICK o \in out : \E kind \in {"answer", "error", "broken", "junk"} :
          dnet' = dnet \cup {[sock |-> o.sock, id |-> o.id, name |-> o.name, kind |-> kind]}
    BY <1>4 DEF Respond
  <2>3. PICK kind \in {"answer", "error", "broken", "junk"} :
          dnet' = dnet \cup {[sock |-> o.sock, id |-> o.id, name |-> o.name, kind |-> kind]}
    BY <2>2
  <2>4. o \in QuerySent /\ o.id <= q.id /\ (o.id = q.id => o.name = <<q.lookup, q.name>>)
    BY DEF ResInv, ResTypeOK, PacketsOld
  <2>5. [sock |-> o.sock, id |-> o.id, name |-> o.name, kind |-> kind] \in Packet
    BY <2>4 DEF QuerySent, Packet
  <2>6. packets' \in 0 .. MaxPackets
    BY <2>1, ResNumbers DEF ResInv, ResTypeOK
  <2>7. ResTypeOK'
    BY <2>1, <2>3, <2>5, <2>6 DEF ResInv, ResTypeOK
  <2>8. QueryGood(q)'
    BY <2>1 DEF ResInv, QueryGood, InRange, Clock, LoopRound, PollRound
  <2>9. PacketsOld(q, out)' /\ PacketsOld(q, dnet)'
    BY <2>1, <2>3, <2>4 DEF ResInv, PacketsOld
  <2>10. QED
    BY <2>7, <2>8, <2>9 DEF ResInv
<1>5. QED
  BY <1>2, <1>3, <1>4

(* The round over the servers while nothing has come, and no datagram is   *)
(* due.                                                                    *)
LEMMA SkipKeeps == ResInv /\ Skip => ResInv'
<1> SUFFICES ASSUME ResInv, Skip PROVE ResInv'
  OBVIOUS
<1> DEFINE last == IF Due THEN q.now ELSE q.last
           i == NextServer(q).i
           h == [q EXCEPT !.i = i, !.last = last]
           g == [q EXCEPT !.i = i, !.last = last, !.pc = "poll"]
<1>1. q.pc = "loop" /\ (~Due \/ q.fd = -1)
  BY DEF Skip
<1>2. q \in QueryRec /\ InRange(q) /\ Clock(q) /\ nscount \in Nat
  BY <1>1, Running
<1>3. /\ q.pc \in {"idle", "loop", "poll"} /\ q.j \in Nat /\ q.i \in Nat /\ q.now \in Nat /\ q.last \in Int
      /\ q.sent \in Nat /\ Tries \in Nat /\ Pause \in Nat /\ q.heard \in Nat
  BY <1>2, QueryFields, ResNumbers, SMTT(30)
<1>4. /\ NextServer(q) = [q EXCEPT !.i = i] /\ i \in Nat
      /\ nscount > 0 => i \in 0 .. nscount - 1
      /\ nscount = 0 => i = 0
      /\ nscount = 1 => i = 0
      /\ nscount = 2 /\ q.i = 0 => i = 1
      /\ nscount = 2 /\ q.i = 1 => i = 0
  BY <1>2, NextServerInRange DEF InRange
<1>5. last \in Int /\ (q.sent >= 1 => last >= 0) /\ (q.sent >= 2 => last >= Pause + 1)
  <2>1. Due => q.now - q.last > Pause
    BY DEF Due
  <2>2. QED
    BY <1>2, <1>3, <2>1 DEF Clock
<1>6. ToPoll(h)
  <2>1. ToPoll([NextServer(q) EXCEPT !.last = last])
    BY <1>2 DEF Skip, NextServer, QueryRec
  <2>2. [NextServer(q) EXCEPT !.last = last] = h
    BY <1>2, <1>4 DEF QueryRec
  <2>3. QED
    BY <2>1, <2>2
<1>7. q.heard = 0 /\ nscount \in 1 .. 2 => PollRound(g)
  <2> SUFFICES ASSUME q.heard = 0, nscount \in 1 .. 2 PROVE PollRound(g)
    OBVIOUS
  <2>1. LoopRound(q)
    BY <1>1 DEF ResInv, QueryGood
  <2>2. ~Due
    BY <1>1, <2>1 DEF LoopRound
  <2>3. q.now - q.last <= Pause
    BY <1>3, <2>2 DEF Due
  <2>4. q.now # 0 /\ q.now # Pause + 1
    BY <1>3, <2>1, <2>3 DEF LoopRound
  <2>5. last = q.last
    BY <2>2
  <2>6. /\ q.now <= Pause => last = 0 /\ q.asked = {0}
        /\ q.now > Pause => last = Pause + 1 /\ q.asked = 0 .. nscount - 1
    BY <1>3, <2>1, <2>4, <2>5 DEF LoopRound
  <2>7. i = IF nscount = 1 THEN 0 ELSE (q.now + 1) % 2
    <3>1. nscount = 1 \/ nscount = 2
      OBVIOUS
    <3>2. q.i = IF nscount = 1 THEN 0 ELSE q.now % 2
      BY <2>1 DEF LoopRound
    <3>3. QED
      BY <1>3, <1>4, <3>1, <3>2, Alternates
  <2>8. /\ g.fd = q.fd /\ g.j = q.j /\ g.now = q.now /\ g.i = i /\ g.last = last /\ g.asked = q.asked
    BY <1>2 DEF QueryRec
  <2> HIDE DEF g, i, last
  <2>9. QED
    BY <2>1, <2>6, <2>7, <2>8 DEF LoopRound, PollRound
<1> HIDE DEF last, i
<1>8. /\ h \in QueryRec /\ g \in QueryRec /\ h.id = q.id /\ h.lookup = q.lookup /\ h.name = q.name
      /\ h.now = q.now /\ h.sent = q.sent /\ h.i = i
      /\ g.now = q.now /\ g.sent = q.sent /\ g.i = i /\ g.last = last /\ g.name = q.name /\ g.j = q.j
      /\ g.pc = "poll" /\ g.heard = q.heard /\ g.id = q.id
      /\ g = [h EXCEPT !.pc = "poll"]
  BY <1>2, <1>4, <1>5 DEF QueryRec
<1> HIDE DEF g, h
<1>9. OfQuery(h) /\ InRange(h) /\ InRange(g)
  BY <1>2, <1>4, <1>8 DEF OfQuery, InRange
<1>10. QueryGood(g)
  <2>1. Clock(g)
    BY <1>2, <1>5, <1>8 DEF Clock
  <2>2. QED
    BY <1>7, <1>8, <1>9, <2>1 DEF QueryGood
<1>11. UNCHANGED <<conf, nscount, dns_search>> /\ Surroundings
  BY DEF Skip, Surroundings, ResInv, ResTypeOK
<1>12. QueryGood([h EXCEPT !.pc = "poll"])
  BY <1>8, <1>10
<1>13. QED
  BY <1>1, <1>6, <1>9, <1>11, <1>12, ToPollStep

(* A datagram goes out, the first of the query or a second one more than   *)
(* Pause seconds later.                                                    *)
LEMMA DSendKeeps == ResInv /\ DSend => ResInv'
<1> SUFFICES ASSUME ResInv, DSend PROVE ResInv'
  OBVIOUS
<1> DEFINE fam == IF nscount = 0 THEN 4 ELSE Family[q.i + 1]
<1>1. q.pc = "loop" /\ q.fd # -1 /\ UNCHANGED <<conf, nscount, dns_search, dnet, packets>>
  BY DEF DSend
<1>2. /\ q \in QueryRec /\ InRange(q) /\ Clock(q) /\ nscount \in Nat /\ nscount <= Len(Family)
      /\ fds \subseteq {4, 6} /\ packets \in 0 .. MaxPackets
  BY <1>1, Running
<1>3. /\ q.j \in Nat /\ q.i \in Nat /\ q.now \in Nat /\ q.last \in Int /\ q.id \in Nat /\ q.lookup \in Nat
      /\ q.sent \in Nat /\ Tries \in Nat /\ Pause \in Nat /\ q.heard \in Nat /\ Pause > 0
      /\ Tries <= 2 * Pause + 1 /\ (Pause + 1) % 2 = 1 /\ q.asked \in SUBSET Nat /\ q.name \in Nat
  BY <1>2, QueryFields, ResNumbers
<1>4. q.now - q.last > Pause
  BY DEF DSend, Due
<1>5. fam \in {4, 6}
  <2>1. nscount > 0 => q.i + 1 \in 1 .. Len(Family)
    BY <1>2, <1>3, ResNumbers, SMTT(30) DEF InRange
  <2>2. QED
    BY <1>2, <2>1, ResNumbers
<1> HIDE DEF fam
<1>6. CASE fds' \in {fds, fds \cup {fam}} /\ NotFound([q EXCEPT !.fd = fam])
  <2> DEFINE h == [q EXCEPT !.fd = fam]
  <2>1. /\ OfQuery(h) /\ h.i = q.i /\ h.sent = q.sent /\ h.now = q.now
    BY <1>2, <1>5 DEF OfQuery, QueryRec
  <2>2. NotFound(h) /\ Surroundings
    BY <1>1, <1>2, <1>5, <1>6 DEF Surroundings
  <2> HIDE DEF h
  <2>3. InRange(h)
    BY <1>2, <2>1 DEF InRange
  <2>4. QED
    BY <1>1, <2>1, <2>2, <2>3, NotFoundStep
<1>7. CASE /\ nscount > 0
           /\ fds' = fds \cup {fam}
           /\ q' = [NextServer(Sent(q)) EXCEPT !.pc = "poll", !.fd = fam]
           /\ out' = out \cup {[sock |-> fam, id |-> q.id, name |-> <<q.lookup, q.name>>]}
  <2> DEFINE asked == q.asked \cup {q.i}
             count == q.sent + 1
             s == [q EXCEPT !.last = q.now, !.sent = count, !.asked = asked]
             i == NextServer(s).i
             g == [s EXCEPT !.i = i, !.pc = "poll", !.fd = fam]
  <2>1. count \in Nat /\ asked \in SUBSET Nat
    BY <1>3
  <2>2. Sent(q) = s
    BY <1>2 DEF Sent, QueryRec
  <2>3. count <= 2 /\ (count >= 2 => q.now >= Pause + 1)
    <3>1. /\ q.j >= 1 /\ q.now + q.j <= Tries /\ (q.sent >= 1 => q.last >= 0)
          /\ q.sent >= 2 => q.last >= Pause + 1
      BY <1>2 DEF Clock
    <3>2. q.now <= 2 * Pause
      BY <1>3, <3>1
    <3>3. ~(q.sent >= 2)
      BY <1>3, <1>4, <3>1, <3>2
    <3>4. q.sent >= 1 => q.now >= Pause + 1
      BY <1>3, <1>4, <3>1
    <3>5. QED
      BY <1>3, <3>3, <3>4
  <2> HIDE DEF count, asked
  <2>4. s \in QueryRec /\ s.i = q.i
    <3>1. q.now \in Int
      BY <1>3
    <3>2. QED
      BY <1>2, <2>1, <3>1 DEF QueryRec
  <2>5. /\ NextServer(s) = [s EXCEPT !.i = i] /\ i \in Nat
        /\ nscount > 0 => i \in 0 .. nscount - 1
        /\ nscount = 0 => i = 0
        /\ nscount = 1 => i = 0
        /\ nscount = 2 /\ s.i = 0 => i = 1
        /\ nscount = 2 /\ s.i = 1 => i = 0
    <3>1. nscount > 0 => s.i \in 0 .. nscount - 1
      BY <1>2, <2>4 DEF InRange
    <3> HIDE DEF s
    <3>2. QED
      BY <2>4, <3>1, NextServerInRange
  <2> HIDE DEF i
  <2>6. q' = g
    BY <1>7, <2>2, <2>4, <2>5, ZenonT(60) DEF QueryRec
  <2>7. /\ g \in QueryRec /\ g.id = q.id /\ g.lookup = q.lookup /\ g.name = q.name /\ g.now = q.now
        /\ g.last = q.now /\ g.sent = count /\ g.asked = asked /\ g.i = i /\ g.j = q.j /\ g.fd = fam
        /\ g.pc = "poll" /\ g.heard = q.heard
    BY <1>2, <1>5, <2>4, <2>5 DEF QueryRec
  <2> HIDE DEF g, s
  <2>8. InRange(g) /\ Clock(g)
    BY <1>2, <1>3, <2>1, <2>3, <2>5, <2>7 DEF InRange, Clock
  <2>9. q.heard = 0 /\ nscount \in 1 .. 2 => PollRound(g)
    <3> SUFFICES ASSUME q.heard = 0, nscount \in 1 .. 2 PROVE PollRound(g)
      OBVIOUS
    <3>1. LoopRound(q)
      BY <1>1 DEF ResInv, QueryGood
    <3>2. q.now = 0 \/ q.now = Pause + 1
      <4>1. q.j >= 1 /\ q.now + q.j <= Tries
        BY <1>2 DEF Clock
      <4>2. /\ q.now \in 1 .. Pause + 1 => q.last = 0
            /\ q.now > Pause + 1 => q.last = Pause + 1
        BY <3>1 DEF LoopRound
      <4>3. q.now <= Pause + 1
        BY <1>3, <1>4, <4>1, <4>2
      <4>4. QED
        BY <1>3, <1>4, <4>2, <4>3
    <3>3. nscount = 1 \/ nscount = 2
      OBVIOUS
    <3>4. q.i = IF nscount = 1 THEN 0 ELSE q.now % 2
      BY <3>1 DEF LoopRound
    <3>5. i = IF nscount = 1 THEN 0 ELSE (q.now + 1) % 2
      BY <1>3, <2>4, <2>5, <3>3, <3>4, Alternates
    <3>6. CASE q.now = 0
      <4>1. asked = {0}
        BY <3>1, <3>4, <3>6 DEF LoopRound, asked
      <4>2. QED
        BY <1>3, <1>5, <2>7, <3>1, <3>5, <3>6, <4>1 DEF LoopRound, PollRound
    <3>7. CASE q.now = Pause + 1
      <4>1. q.asked = {0}
        BY <1>3, <3>1, <3>7 DEF LoopRound
      <4>2. q.i = IF nscount = 1 THEN 0 ELSE 1
        BY <1>3, <3>4, <3>7
      <4>3. asked = 0 .. nscount - 1
        BY <3>3, <4>1, <4>2 DEF asked
      <4>4. QED
        BY <1>3, <1>5, <2>7, <3>1, <3>5, <3>7, <4>3 DEF LoopRound, PollRound
    <3>8. QED
      BY <3>2, <3>6, <3>7
  <2>10. QueryGood(g)
    BY <2>7, <2>8, <2>9 DEF QueryGood
  <2>11. fds' \subseteq {4, 6} /\ packets' \in 0 .. MaxPackets /\ dnet' \in SUBSET dnet
    BY <1>1, <1>2, <1>5, <1>7
  <2>12. \A o \in out' : o \in out \/ (o \in QuerySent /\ o.id = q.id /\ o.name = <<q.lookup, q.name>>)
    <3>1. q.id > 0
      BY <1>2 DEF Clock
    <3>2. QED
      BY <1>3, <1>5, <1>7, <3>1 DEF QuerySent
  <2>13. QED
    BY <1>1, <2>6, <2>7, <2>10, <2>11, <2>12, SameQuery
<1>8. QED
  BY <1>6, <1>7 DEF DSend, fam

(* After poll: the time has advanced by a try at most. *)
LEMMA Polling ==
  ASSUME ResInv, q.pc = "poll", NEW h, OfQuery(h), h.now \in {q.now, q.now + 1}, h.j <= q.j,
         h.i = q.i, h.sent = q.sent, h.last = q.last,
         h.heard = 0 /\ nscount \in 1 .. 2 /\ h.j > 1 => LoopRound([h EXCEPT !.pc = "loop", !.j = @ - 1])
  PROVE  InRange(h) /\ (h.j > 1 => QueryGood([h EXCEPT !.pc = "loop", !.j = @ - 1]))
<1>1. q \in QueryRec /\ InRange(q) /\ Clock(q) /\ h \in QueryRec
  BY Running DEF OfQuery
<1>2. q.j \in Nat /\ q.now \in Nat /\ h.j \in Nat /\ Tries \in Nat
  BY <1>1, QueryFields, ResNumbers, SMTT(30)
<1>3. q.j >= 1 /\ q.now + q.j <= Tries
  BY <1>1 DEF Clock
<1>4. InRange(h)
  <2>1. h.now <= Tries
    BY <1>2, <1>3
  <2>2. QED
    BY <1>1, <2>1 DEF InRange
<1>5. ASSUME h.j > 1 PROVE QueryGood([h EXCEPT !.pc = "loop", !.j = @ - 1])
  <2> DEFINE g == [h EXCEPT !.pc = "loop", !.j = @ - 1]
  <2>1. /\ g.pc = "loop" /\ g.j = h.j - 1 /\ g.now = h.now /\ g.i = h.i /\ g.sent = h.sent
        /\ g.last = h.last /\ g.name = q.name /\ g.id = q.id /\ g.heard = h.heard
    BY <1>1 DEF QueryRec, OfQuery
  <2>2. h.heard = 0 /\ nscount \in 1 .. 2 => LoopRound(g)
    BY <1>5
  <2> HIDE DEF g
  <2>3. InRange(g)
    BY <1>4, <2>1 DEF InRange
  <2>4. g.j >= 1 /\ g.now + g.j <= Tries
    BY <1>2, <1>3, <1>5, <2>1
  <2>5. Clock(g)
    BY <1>1, <2>1, <2>4 DEF Clock
  <2>6. QueryGood(g)
    BY <2>1, <2>2, <2>3, <2>5 DEF QueryGood
  <2>7. QED
    BY <2>6 DEF g
<1>6. QED
  BY <1>4, <1>5

(* A second without a packet. *)
LEMMA PollTimeoutKeeps == ResInv /\ PollTimeout => ResInv'
<1> SUFFICES ASSUME ResInv, PollTimeout PROVE ResInv'
  OBVIOUS
<1> DEFINE now == q.now + 1
           h == [q EXCEPT !.now = now]
<1>1. /\ q.pc = "poll" /\ Continue(h)
      /\ UNCHANGED <<conf, nscount, dns_search, fds, dnet, packets>>
  BY DEF PollTimeout
<1>2. q \in QueryRec /\ nscount \in Nat /\ Clock(q)
  BY <1>1, Running
<1>3. /\ q.now \in Nat /\ q.j \in Nat /\ Pause \in Nat /\ Tries \in Nat /\ now \in Nat
  BY <1>2, QueryFields, ResNumbers
<1> HIDE DEF now
<1>4. /\ OfQuery(h) /\ h.now = now /\ h.j = q.j /\ h.i = q.i /\ h.sent = q.sent /\ h.last = q.last
      /\ h.heard = q.heard /\ h.fd = q.fd /\ h.asked = q.asked
  BY <1>2, <1>3 DEF OfQuery, QueryRec
<1> HIDE DEF h
<1>5. ASSUME h.heard = 0, nscount \in 1 .. 2, h.j > 1 PROVE LoopRound([h EXCEPT !.pc = "loop", !.j = @ - 1])
  <2> DEFINE g == [h EXCEPT !.pc = "loop", !.j = @ - 1]
  <2>1. g.j = h.j - 1 /\ g.now = h.now /\ g.i = h.i /\ g.last = h.last /\ g.fd = h.fd /\ g.asked = h.asked
    BY <1>4 DEF QueryRec, OfQuery
  <2> HIDE DEF g
  <2>2. PollRound(q)
    BY <1>1, <1>4, <1>5 DEF ResInv, QueryGood
  <2>3. now = q.now + 1
    BY DEF now
  <2>4. g.fd # -1 /\ g.i = IF nscount = 1 THEN 0 ELSE g.now % 2
    BY <1>4, <2>1, <2>2, <2>3 DEF PollRound
  <2>5. q.j = Tries - q.now
    BY <2>2 DEF PollRound
  <2>6. g.j = Tries - g.now /\ g.now # 0
    BY <1>3, <1>4, <2>1, <2>3, <2>5
  <2>7. /\ g.now \in 1 .. Pause + 1 => g.last = 0 /\ g.asked = {0}
        /\ g.now > Pause + 1 => g.last = Pause + 1 /\ g.asked = 0 .. nscount - 1
    <3>1. g.now \in 1 .. Pause + 1 => q.now <= Pause
      BY <1>3, <1>4, <2>1, <2>3
    <3>2. g.now > Pause + 1 => q.now > Pause
      BY <1>3, <1>4, <2>1, <2>3
    <3>3. QED
      BY <1>4, <2>1, <2>2, <3>1, <3>2 DEF PollRound
  <2>8. LoopRound(g)
    BY <2>4, <2>6, <2>7 DEF LoopRound
  <2>9. QED
    BY <2>8 DEF g
<1>6. h.now \in {q.now, q.now + 1} /\ h.j <= q.j
  BY <1>3, <1>4 DEF now
<1>7. InRange(h) /\ (h.j > 1 => QueryGood([h EXCEPT !.pc = "loop", !.j = @ - 1]))
  BY <1>1, <1>4, <1>5, <1>6, Polling
<1>8. Surroundings
  BY <1>1 DEF Surroundings, ResInv, ResTypeOK
<1>9. QED
  BY <1>1, <1>4, <1>7, <1>8, ContinueStep

(* Something has been heard. *)
LEMMA HeardStep ==
  ASSUME ResInv, q.pc = "poll"
  PROVE  LET h == [q EXCEPT !.heard = @ + 1]
         IN  /\ OfQuery(h) /\ InRange(h) /\ h.mc = q.mc /\ h.j = q.j
             /\ h.j > 1 => QueryGood([h EXCEPT !.pc = "loop", !.j = @ - 1])
<1> DEFINE heard == q.heard + 1
           h == [q EXCEPT !.heard = heard]
<1>1. q \in QueryRec
  BY Running
<1>2. heard \in Nat /\ heard # 0 /\ q.now \in Nat /\ q.j \in Nat
  BY <1>1, QueryFields
<1>3. h = [q EXCEPT !.heard = @ + 1]
  BY <1>1, Zenon DEF QueryRec
<1> HIDE DEF heard
<1>4. /\ OfQuery(h) /\ h.now = q.now /\ h.j = q.j /\ h.i = q.i /\ h.sent = q.sent /\ h.last = q.last
      /\ h.heard = heard /\ h.mc = q.mc
  BY <1>1, <1>2 DEF OfQuery, QueryRec
<1> HIDE DEF h
<1>5. InRange(h) /\ (h.j > 1 => QueryGood([h EXCEPT !.pc = "loop", !.j = @ - 1]))
  <2>1. h.now \in {q.now, q.now + 1} /\ h.j <= q.j /\ h.heard # 0
    BY <1>2, <1>4
  <2>2. QED
    BY <1>4, <2>1, Polling
<1>6. QED
  BY <1>3, <1>4, <1>5

(* A signal. *)
LEMMA PollInterruptedKeeps == ResInv /\ PollInterrupted => ResInv'
<1> SUFFICES ASSUME ResInv, PollInterrupted PROVE ResInv'
  OBVIOUS
<1> DEFINE h == [q EXCEPT !.heard = @ + 1]
<1>1. /\ q.pc = "poll" /\ Continue(h) /\ packets < MaxPackets /\ packets' = packets + 1
      /\ UNCHANGED <<conf, nscount, dns_search, fds, dnet>>
  BY DEF PollInterrupted
<1>2. /\ OfQuery(h) /\ InRange(h)
      /\ h.j > 1 => QueryGood([h EXCEPT !.pc = "loop", !.j = @ - 1])
  BY <1>1, HeardStep
<1> HIDE DEF h
<1>3. Surroundings
  <2>1. packets' \in 0 .. MaxPackets
    BY <1>1, ResNumbers DEF ResInv, ResTypeOK
  <2>2. QED
    BY <1>1, <2>1 DEF Surroundings, ResInv, ResTypeOK
<1>4. QED
  BY <1>1, <1>2, <1>3, ContinueStep

(* A packet, of which only the answer to this very query is returned. *)
LEMMA PollPacketKeeps == ResInv /\ PollPacket => ResInv'
<1> SUFFICES ASSUME ResInv, PollPacket PROVE ResInv'
  OBVIOUS
<1> DEFINE h == [q EXCEPT !.heard = @ + 1]
<1>1. PICK m \in Polled : dnet' = dnet \ {m} /\ DReceive(m)
  BY DEF PollPacket
<1>2. q.pc = "poll" /\ UNCHANGED <<conf, nscount, dns_search, fds, packets>>
  BY DEF PollPacket
<1>3. m \in dnet
  BY DEF Polled
<1>4. Surroundings
  BY <1>1, <1>2 DEF Surroundings, ResInv, ResTypeOK
<1>5. /\ OfQuery(h) /\ InRange(h) /\ h.mc = q.mc /\ h.j = q.j
      /\ h.j > 1 => QueryGood([h EXCEPT !.pc = "loop", !.j = @ - 1])
  BY <1>2, HeardStep
<1>6. q \in QueryRec /\ InRange(q) /\ Clock(q)
  BY <1>2, Running
<1>7. \/ Continue(h) \/ Denied(h) \/ NotFound(h)
      \/ m.id = q.id /\ Returned(m.name)
  BY <1>1 DEF DReceive, Relevant
<1> HIDE DEF h
<1>8. CASE Continue(h)
  BY <1>2, <1>4, <1>5, <1>8, ContinueStep
<1>9. CASE NotFound(h)
  BY <1>2, <1>4, <1>5, <1>9, NotFoundStep
<1>10. CASE Denied(h)
  <2>1. CASE ~h.mc
    BY <1>2, <1>4, <1>5, <1>10, <2>1, NotFoundStep DEF Denied
  <2>2. CASE h.mc
    <3> DEFINE j == IF h.j > Grace THEN Grace ELSE h.j
               g == [h EXCEPT !.fd = -1, !.j = j]
    <3>1. Continue(g)
      BY <1>5, <1>10, <2>2 DEF Denied, OfQuery, QueryRec
    <3>2. h \in QueryRec /\ h.j \in 0 .. Tries /\ Tries \in Nat /\ Grace \in Nat /\ q.j \in Nat
      BY <1>5, <1>6, QueryFields, ResNumbers DEF OfQuery
    <3>3. j \in 0 .. Tries /\ j <= h.j
      BY <3>2
    <3> HIDE DEF j
    <3>4. /\ OfQuery(g) /\ g.j = j /\ g.now = h.now /\ g.i = h.i /\ g.sent = h.sent /\ g.last = h.last
          /\ g.heard = h.heard
      BY <1>5, <3>2, <3>3 DEF OfQuery, QueryRec
    <3>5. /\ h.now = q.now /\ h.i = q.i /\ h.sent = q.sent /\ h.last = q.last /\ h.heard # 0
      <4>1. q.heard \in Nat
        BY <1>6, QueryFields
      <4>2. QED
        BY <1>6, <4>1 DEF h, QueryRec
    <3> HIDE DEF g
    <3>6. InRange(g) /\ (g.j > 1 => QueryGood([g EXCEPT !.pc = "loop", !.j = @ - 1]))
      <4>1. g.j <= q.j /\ g.now \in {q.now, q.now + 1} /\ g.heard # 0
        BY <1>5, <3>3, <3>4, <3>5
      <4>2. QED
        BY <1>2, <3>4, <3>5, <4>1, Polling
    <3>7. QED
      BY <1>2, <1>4, <3>1, <3>4, <3>6, ContinueStep
  <2>3. QED
    BY <2>1, <2>2
<1>11. CASE m.id = q.id /\ Returned(m.name)
  <2>1. PICK status \in {"OK", "NO_DATA"} : q' = [q EXCEPT !.pc = "idle", !.status = status, !.got = m.name]
    BY <1>11 DEF Returned
  <2> DEFINE g == [q EXCEPT !.pc = "idle", !.status = status, !.got = m.name]
  <2>2. m.name = <<q.lookup, q.name>> /\ m.name \in Nat \X Nat
    BY <1>3, <1>11 DEF ResInv, PacketsOld, ResTypeOK, Packet
  <2>3. /\ g \in QueryRec /\ g.id = q.id /\ g.lookup = q.lookup /\ g.name = q.name /\ g.now = q.now
        /\ g.sent = q.sent /\ g.i = q.i /\ g.pc = "idle" /\ g.got = <<q.lookup, q.name>>
    BY <1>6, <2>2 DEF QueryRec
  <2>4. q' = g /\ out' = out
    BY <1>11, <2>1 DEF Returned
  <2> HIDE DEF g
  <2>5. QueryGood(g)
    BY <1>6, <2>3 DEF QueryGood, InRange
  <2>6. QED
    BY <1>2, <1>4, <2>3, <2>4, <2>5, SameQuery DEF Surroundings
<1>12. QED
  BY <1>7, <1>8, <1>9, <1>10, <1>11

(* The invariant of the resolver holds. *)
LEMMA ResInductive == DSpec => []ResInv
<1>1. DInit => ResInv
  <2> SUFFICES ASSUME DInit PROVE ResInv
    OBVIOUS
  <2>1. /\ conf \in [ns : 0 .. Len(Family), search : 0 .. MaxSearch]
        /\ nscount = 0 /\ dns_search = 0 /\ fds = {} /\ q = Idle /\ out = {} /\ dnet = {} /\ packets = 0
    BY DEF DInit
  <2>2. Tries \in Nat /\ MaxSearch \in Nat /\ MaxPackets \in Nat /\ Len(Family) \in Nat
    BY ResNumbers
  <2>3. q \in QueryRec
    BY <2>1, <2>2 DEF Idle, QueryRec
  <2>4. ResTypeOK
    BY <2>1, <2>2, <2>3 DEF ResTypeOK
  <2>5. InRange(q)
    BY <2>1, <2>2 DEF InRange, Idle
  <2>6. q.pc = "idle" /\ q.status = "none"
    BY <2>1 DEF Idle
  <2>7. QED
    BY <2>1, <2>4, <2>5, <2>6 DEF ResInv, QueryGood, PacketsOld
<1>2. ResInv /\ [DNext]_dvars => ResInv'
  <2> SUFFICES ASSUME ResInv, [DNext]_dvars PROVE ResInv'
    OBVIOUS
  <2>1. CASE UNCHANGED dvars
    BY <2>1 DEF dvars, ResInv, ResTypeOK, QueryGood, InRange, Clock, LoopRound, PollRound, PacketsOld
  <2>2. QED
    BY <2>1, LookupKeeps, OthersKeep, SkipKeeps, DSendKeeps, PollTimeoutKeeps, PollInterruptedKeeps,
       PollPacketKeeps DEF DNext, Resolving
<1>3. QED
  BY <1>1, <1>2, PTL DEF DSpec

(* The answer returned is to the query last sent, a name costs Tries       *)
(* seconds and two datagrams at most, and when all is silent both of two   *)
(* servers are asked, for any number of servers, names and packets.        *)
THEOREM ResolverIsRight == DSpec => []ResolverRight
<1>1. ResInv => ResolverRight
  <2> SUFFICES ASSUME ResInv PROVE ResolverRight
    OBVIOUS
  <2>1. /\ q \in QueryRec /\ nscount \in 0 .. Len(Family) /\ dns_search \in 0 .. MaxSearch
        /\ fds \subseteq {4, 6} /\ packets \in 0 .. MaxPackets
    BY ResNumbers DEF ResInv, ResTypeOK
  <2>2. QueryGood(q) /\ InRange(q)
    BY DEF ResInv, QueryGood
  <2>3. \A m \in dnet : m.id \in 1 .. q.id
    <3>1. \A m \in dnet : m.id \in Nat \ {0} /\ m.id <= q.id
      BY DEF ResInv, ResTypeOK, PacketsOld, Packet
    <3>2. QED
      BY <2>1, <3>1, QueryFields
  <2>4. DTypeOK
    BY <2>1, <2>2, <2>3, QueryFields DEF DTypeOK, InRange
  <2>5. OwnAnswer /\ EffortBounded
    BY <2>2 DEF OwnAnswer, EffortBounded, QueryGood, InRange
  <2>6. SecondServerAsked
    <3> SUFFICES ASSUME q.pc = "poll", q.j = 1, q.heard = 0, nscount \in 1 .. 2
                 PROVE  q.asked = 0 .. nscount - 1
      BY DEF SecondServerAsked
    <3>1. PollRound(q)
      BY <2>2 DEF QueryGood
    <3>2. q.now > Pause
      BY <2>1, <3>1, QueryFields, ResNumbers DEF PollRound
    <3>3. QED
      BY <3>1, <3>2 DEF PollRound
  <2>7. QED
    BY <2>4, <2>5, <2>6 DEF ResolverRight
<1>2. QED
  BY <1>1, ResInductive, PTL

(* A name that was asked by multicast is given up in the second in which   *)
(* the question was sent only when the reply was invalid or all tries are  *)
(* used up: the server's no leaves Grace polls, and no second datagram can *)
(* be due.                                                                 *)
THEOREM MulticastIsHeard == DSpec => MulticastHeard
<1> DEFINE Heard == GivesUp /\ q.mc /\ q.sent > 0 =>
                      q.now > 0 \/ q.j <= 1 \/ \E m \in dnet \ dnet' : m.kind = "broken"
<1>1. ResInv /\ [DNext]_dvars => [Heard]_dvars
  <2> SUFFICES ASSUME ResInv, DNext, GivesUp, q.mc, q.sent > 0
               PROVE  q.now > 0 \/ q.j <= 1 \/ \E m \in dnet \ dnet' : m.kind = "broken"
    OBVIOUS
  <2>1. q.pc # "idle" /\ (q'.id # q.id \/ (q'.pc = "idle" /\ q'.status = "HOST_NOT_FOUND"))
    BY DEF GivesUp
  <2>2. q \in QueryRec /\ Clock(q)
    BY <2>1, Running
  <2>3. /\ q.now \in Nat /\ q.j \in Nat /\ q.last \in Int /\ Pause \in Nat /\ Grace \in Nat /\ Grace > 1
        /\ q.sent \in Nat
    BY <2>2, QueryFields, ResNumbers
  <2>4. ASSUME NEW h, OfQuery(h), Continue(h) PROVE ~(h.j > 1)
    <3>1. ASSUME h.j > 1 PROVE FALSE
      <4>1. q' = [h EXCEPT !.pc = "loop", !.j = @ - 1]
        BY <2>4, <3>1 DEF Continue
      <4>2. q'.id = q.id /\ q'.pc = "loop"
        BY <2>4, <4>1 DEF OfQuery, QueryRec
      <4>3. QED
        BY <2>1, <4>2
    <3>2. QED
      BY <3>1
  <2>5. CASE Lookup \/ ResInit \/ ResClose
    BY <2>1, <2>5 DEF Lookup, ResInit, ResClose
  <2>6. CASE Skip
    <3> DEFINE h == [NextServer(q) EXCEPT !.last = IF Due THEN q.now ELSE @]
    <3>1. ToPoll(h) /\ h.id = q.id /\ h.now = q.now /\ h.mc = q.mc
      BY <2>2, <2>6 DEF Skip, NextServer, QueryRec
    <3>2. CASE h.fd = -1 /\ (h.now > 0 \/ ~h.mc)
      BY <3>1, <3>2
    <3>3. CASE ~(h.fd = -1 /\ (h.now > 0 \/ ~h.mc))
      <4>1. q' = [h EXCEPT !.pc = "poll"]
        BY <3>1, <3>3 DEF ToPoll
      <4>2. q'.id = q.id /\ q'.pc = "poll"
        BY <2>2, <4>1 DEF NextServer, QueryRec
      <4>3. QED
        BY <2>1, <4>2
    <3>4. QED
      BY <3>2, <3>3
  <2>7. CASE DSend
    <3>1. q.now - q.last > Pause /\ q.last >= 0
      BY <2>2, <2>3, <2>7 DEF DSend, Due, Clock
    <3>2. QED
      BY <2>3, <3>1
  <2>8. CASE PollTimeout
    <3> DEFINE h == [q EXCEPT !.now = @ + 1]
    <3>1. q.now + 1 \in Nat /\ Continue(h)
      BY <2>3, <2>8 DEF PollTimeout
    <3>2. OfQuery(h) /\ h.j = q.j
      BY <2>2, <3>1 DEF OfQuery, QueryRec
    <3> HIDE DEF h
    <3>3. QED
      BY <2>3, <2>4, <3>1, <3>2
  <2>9. CASE PollInterrupted
    <3> DEFINE h == [q EXCEPT !.heard = @ + 1]
    <3>1. q.pc = "poll" /\ Continue(h)
      BY <2>9 DEF PollInterrupted
    <3>2. OfQuery(h) /\ h.j = q.j
      BY <3>1, HeardStep
    <3> HIDE DEF h
    <3>3. QED
      BY <2>3, <2>4, <3>1, <3>2
  <2>10. CASE PollPacket
    <3> DEFINE h == [q EXCEPT !.heard = @ + 1]
    <3>1. PICK m \in dnet : dnet' = dnet \ {m} /\ DReceive(m)
      BY <2>10 DEF PollPacket, Polled
    <3>2. q.pc = "poll"
      BY <2>10 DEF PollPacket
    <3>3. OfQuery(h) /\ h.mc = q.mc /\ h.j = q.j
      BY <3>2, HeardStep
    <3>4. \/ Continue(h) \/ Denied(h) \/ m.kind = "broken" \/ Returned(m.name)
      BY <3>1 DEF DReceive
    <3> HIDE DEF h
    <3>5. CASE Continue(h)
      BY <2>3, <2>4, <3>3, <3>5
    <3>6. CASE Denied(h)
      <4> DEFINE j == IF h.j > Grace THEN Grace ELSE h.j
                 g == [h EXCEPT !.fd = -1, !.j = j]
      <4>1. Continue(g)
        BY <3>3, <3>6 DEF Denied, OfQuery, QueryRec
      <4>2. h.j \in 0 .. Tries /\ Tries \in Nat
        BY <3>3, QueryFields, ResNumbers DEF OfQuery
      <4>3. j \in 0 .. Tries /\ (~(j > 1) => h.j <= 1)
        BY <2>3, <4>2
      <4> HIDE DEF j
      <4>4. OfQuery(g) /\ g.j = j
        BY <3>3, <4>3 DEF OfQuery, QueryRec
      <4> HIDE DEF g
      <4>5. QED
        BY <2>4, <3>3, <4>1, <4>3, <4>4
    <3>7. CASE m.kind = "broken"
      BY <3>1, <3>7
    <3>8. CASE Returned(m.name)
      <4>1. PICK status \in {"OK", "NO_DATA"} : q' = [q EXCEPT !.pc = "idle", !.status = status, !.got = m.name]
        BY <3>8 DEF Returned
      <4>2. q'.id = q.id /\ q'.status = status
        BY <2>2, <4>1 DEF QueryRec
      <4>3. QED
        BY <2>1, <4>2
    <3>9. QED
      BY <3>4, <3>5, <3>6, <3>7, <3>8
  <2>11. CASE Respond
    BY <2>1, <2>11 DEF Respond
  <2>12. QED
    BY <2>5, <2>6, <2>7, <2>8, <2>9, <2>10, <2>11 DEF DNext, Resolving
<1>2. QED
  BY <1>1, ResInductive, PTL DEF DSpec, MulticastHeard

-----------------------------------------------------------------------------
(* Record marking for RPC over TCP (XdrRec).                               *)

-----------------------------------------------------------------------------
(* The stream.                                                             *)

DataByte == {"d"} \X Nat \X Nat

(* A header is never that of an empty fragment which is not the last. *)
HeadByte ==
  {b \in {"h"} \X (0 .. SendSize) \X BOOLEAN \X Nat \X Nat \X (1 .. Unit) : b[2] = 0 => b[3]}

Byte == DataByte \cup HeadByte

(* A header begins at pos, of the fragment that begins with byte i of     *)
(* record k; or the stream ends there, and the writer is at that byte.     *)
Follows(T, k, i, wk, wi, pos) ==
  IF pos <= Len(T) THEN T[pos][1] = "h" /\ T[pos][4] = k /\ T[pos][5] = i /\ T[pos][6] = 1
  ELSE k = wk /\ i = wi

(* From p on there are the last len bytes of a fragment, from byte i of    *)
(* record k; then the next fragment.                                       *)
Rest(T, z, wk, wi, p, len, last, k, i) ==
  /\ p + len - 1 <= Len(T)
  /\ \A j \in p .. p + len - 1 : T[j] = <<"d", k, i + (j - p)>>
  /\ last => k = 0 \/ (k <= Len(z) /\ i + len - 1 = z[k])
  /\ IF last THEN Follows(T, k + 1, 1, wk, wi, p + len) ELSE Follows(T, k, i + len, wk, wi, p + len)

(* Behind the first byte of a header there are the others, and the bytes   *)
(* that it promises.                                                       *)
Framed(T, z, wk, wi) ==
  \A p \in 1 .. Len(T) : T[p][1] = "h" /\ T[p][6] = 1 =>
    /\ T[p][4] > 0 /\ p + Unit - 1 <= Len(T)
    /\ \A j \in 1 .. Unit : T[p + j - 1] = <<"h", T[p][2], T[p][3], T[p][4], T[p][5], j>>
    /\ Rest(T, z, wk, wi, p + Unit, T[p][2], T[p][3], T[p][4], T[p][5])

LEMMA ByteIs ==
  ASSUME NEW b \in Byte
  PROVE  /\ b[1] = "d" \/ b[1] = "h"
         /\ b[1] = "d" => b[2] \in Nat /\ b[3] \in Nat
         /\ b[1] = "h" => /\ b[2] \in 0 .. SendSize /\ b[3] \in BOOLEAN /\ b[4] \in Nat /\ b[5] \in Nat
                          /\ b[6] \in 1 .. Unit /\ (b[2] = 0 => b[3])
BY DEF Byte, DataByte, HeadByte

LEMMA HeadIs ==
  ASSUME NEW len \in 0 .. SendSize, NEW last \in BOOLEAN, NEW k \in Nat, NEW from \in Nat, NEW i \in 1 .. Unit,
         len = 0 => last
  PROVE  <<"h", len, last, k, from, i>> \in Byte
<1> DEFINE b == <<"h", len, last, k, from, i>>
<1>1. b[2] = len /\ b[3] = last
  OBVIOUS
<1>2. b \in {"h"} \X (0 .. SendSize) \X BOOLEAN \X Nat \X Nat \X (1 .. Unit)
  OBVIOUS
<1>3. QED
  BY <1>1, <1>2, Zenon DEF Byte, HeadByte

LEMMA DataIs ==
  ASSUME NEW k \in Nat, NEW i \in Nat
  PROVE  <<"d", k, i>> \in Byte
BY DEF Byte, DataByte

(* Some of the bytes of a fragment are taken. *)
Taking(T, z, wk, wi, p, len, last, k, i, n) ==
  /\ T \in Seq(Byte) /\ p \in Nat /\ len \in Nat /\ last \in BOOLEAN /\ k \in Nat /\ i \in Nat
  /\ n \in 0 .. len /\ Rest(T, z, wk, wi, p, len, last, k, i)

LEMMA RestTaken ==
  ASSUME NEW T, NEW z, NEW wk, NEW wi, NEW p, NEW len, NEW last, NEW k, NEW i, NEW n,
         Taking(T, z, wk, wi, p, len, last, k, i, n)
  PROVE  Rest(T, z, wk, wi, p + n, len - n, last, k, i + n)
<1> USE DEF Taking
<1>1. (p + n) + (len - n) = p + len /\ (i + n) + (len - n) = i + len /\ (i + n) + (len - n) - 1 = i + len - 1
      /\ (p + n) + (len - n) - 1 = p + len - 1
  OBVIOUS
<1>2. \A j \in p + n .. p + len - 1 : j \in p .. p + len - 1 /\ i + (j - p) = (i + n) + (j - (p + n))
  OBVIOUS
<1>3. \A j \in p + n .. p + len - 1 : T[j] = <<"d", k, (i + n) + (j - (p + n))>>
  BY <1>2 DEF Rest
<1>4. QED
  BY <1>1, <1>3 DEF Rest

(* What is behind the first part of a stream. *)
LEMMA RestBehind ==
  ASSUME NEW a \in Seq(Byte), NEW b \in Seq(Byte), NEW z, NEW wk, NEW wi, NEW p \in Nat \ {0}, NEW len \in Nat,
         NEW last \in BOOLEAN, NEW k \in Nat, NEW i \in Nat,
         Rest(a \o b, z, wk, wi, p + Len(a), len, last, k, i)
  PROVE  Rest(b, z, wk, wi, p, len, last, k, i)
<1> DEFINE T == a \o b
           m == Len(a)
<1>1. m \in Nat /\ Len(b) \in Nat /\ Len(T) = m + Len(b)
  BY ConcatProperties
<1>2. \A j \in 1 .. Len(b) : T[j + m] = b[j]
  <2>1. \A j \in 1 .. m + Len(b) : T[j] = IF j <= m THEN a[j] ELSE b[j - m]
    BY ConcatProperties
  <2>2. \A j \in 1 .. Len(b) : j + m \in 1 .. m + Len(b) /\ ~(j + m <= m) /\ (j + m) - m = j
    BY <1>1
  <2>3. QED
    BY <2>1, <2>2
<1> HIDE DEF T, m
<1>3. /\ (p + m) + len - 1 <= Len(T)
      /\ \A j \in p + m .. (p + m) + len - 1 : T[j] = <<"d", k, i + (j - (p + m))>>
      /\ last => k = 0 \/ (k <= Len(z) /\ i + len - 1 = z[k])
      /\ IF last THEN Follows(T, k + 1, 1, wk, wi, (p + m) + len) ELSE Follows(T, k, i + len, wk, wi, (p + m) + len)
  BY DEF Rest, T, m
<1>4. p + len - 1 <= Len(b)
  BY <1>1, <1>3
<1>5. \A j \in p .. p + len - 1 : b[j] = <<"d", k, i + (j - p)>>
  <2> SUFFICES ASSUME NEW j \in p .. p + len - 1 PROVE b[j] = <<"d", k, i + (j - p)>>
    OBVIOUS
  <2>1. j + m \in p + m .. (p + m) + len - 1 /\ (j + m) - (p + m) = j - p /\ j \in 1 .. Len(b)
    BY <1>1, <1>4
  <2>2. QED
    BY <1>2, <1>3, <2>1
<1>6. ASSUME NEW x, NEW y, Follows(T, x, y, wk, wi, (p + m) + len) PROVE Follows(b, x, y, wk, wi, p + len)
  <2>1. (p + m) + len = (p + len) + m /\ ((p + m) + len <= Len(T) <=> p + len <= Len(b))
    BY <1>1
  <2>2. p + len <= Len(b) => T[(p + m) + len] = b[p + len]
    <3>1. p + len <= Len(b) => p + len \in 1 .. Len(b)
      BY <1>1
    <3>2. QED
      BY <1>2, <2>1, <3>1
  <2>3. QED
    BY <1>6, <2>1, <2>2 DEF Follows
<1>7. QED
  BY <1>3, <1>4, <1>5, <1>6 DEF Rest

LEMMA FramedBehind ==
  ASSUME NEW a \in Seq(Byte), NEW b \in Seq(Byte), NEW z, NEW wk, NEW wi, Unit \in Nat \ {0}, SendSize \in Nat,
         Framed(a \o b, z, wk, wi)
  PROVE  Framed(b, z, wk, wi)
<1> DEFINE T == a \o b
           m == Len(a)
<1>1. m \in Nat /\ Len(b) \in Nat /\ Len(T) = m + Len(b)
  BY ConcatProperties
<1>2. \A j \in 1 .. Len(b) : T[j + m] = b[j] /\ j + m \in 1 .. Len(T)
  <2>1. \A j \in 1 .. m + Len(b) : T[j] = IF j <= m THEN a[j] ELSE b[j - m]
    BY ConcatProperties
  <2>2. \A j \in 1 .. Len(b) : j + m \in 1 .. m + Len(b) /\ ~(j + m <= m) /\ (j + m) - m = j
    BY <1>1
  <2>3. QED
    BY <1>1, <2>1, <2>2
<1> SUFFICES ASSUME NEW p \in 1 .. Len(b), b[p][1] = "h", b[p][6] = 1
             PROVE  /\ b[p][4] > 0 /\ p + Unit - 1 <= Len(b)
                    /\ \A j \in 1 .. Unit : b[p + j - 1] = <<"h", b[p][2], b[p][3], b[p][4], b[p][5], j>>
                    /\ Rest(b, z, wk, wi, p + Unit, b[p][2], b[p][3], b[p][4], b[p][5])
  BY DEF Framed
<1>3. T[p + m] = b[p] /\ p + m \in 1 .. Len(T)
  BY <1>2
<1>4. b[p] \in Byte
  BY ElementOfSeq
<1>5. b[p][2] \in Nat /\ b[p][3] \in BOOLEAN /\ b[p][4] \in Nat /\ b[p][5] \in Nat
  BY <1>4, ByteIs
<1> HIDE DEF T
<1>6. /\ b[p][4] > 0 /\ (p + m) + Unit - 1 <= Len(T)
      /\ \A j \in 1 .. Unit : T[(p + m) + j - 1] = <<"h", b[p][2], b[p][3], b[p][4], b[p][5], j>>
      /\ Rest(T, z, wk, wi, (p + m) + Unit, b[p][2], b[p][3], b[p][4], b[p][5])
  BY <1>3 DEF Framed, T
<1>7. p + Unit - 1 <= Len(b)
  BY <1>1, <1>6
<1>8. \A j \in 1 .. Unit : b[p + j - 1] = <<"h", b[p][2], b[p][3], b[p][4], b[p][5], j>>
  <2> SUFFICES ASSUME NEW j \in 1 .. Unit PROVE b[p + j - 1] = T[(p + m) + j - 1]
    BY <1>6
  <2>1. p + j - 1 \in 1 .. Len(b) /\ (p + j - 1) + m = (p + m) + j - 1
    BY <1>1, <1>7
  <2>2. QED
    BY <1>2, <2>1
<1>9. Rest(b, z, wk, wi, p + Unit, b[p][2], b[p][3], b[p][4], b[p][5])
  <2>1. (p + m) + Unit = (p + Unit) + m /\ p + Unit \in Nat \ {0}
    BY <1>1
  <2>2. Rest(a \o b, z, wk, wi, (p + Unit) + Len(a), b[p][2], b[p][3], b[p][4], b[p][5])
    BY <1>6, <2>1 DEF T
  <2> DEFINE pos == p + Unit
             len == b[p][2]
             last == b[p][3]
             k == b[p][4]
             i == b[p][5]
  <2>3. /\ pos \in Nat \ {0} /\ len \in Nat /\ last \in BOOLEAN /\ k \in Nat /\ i \in Nat
        /\ Rest(a \o b, z, wk, wi, pos + Len(a), len, last, k, i)
    BY <1>5, <2>1, <2>2
  <2> HIDE DEF pos, len, last, k, i
  <2>4. Rest(b, z, wk, wi, pos, len, last, k, i)
    BY <2>3, RestBehind, SMTT(30)
  <2>5. QED
    BY <2>4 DEF pos, len, last, k, i
<1>10. QED
  BY <1>6, <1>7, <1>8, <1>9

(* The writer adds a fragment N that it has filled, and goes on from byte  *)
(* vi of record vk.                                                        *)
Fragment(F, len, last, wk, wi) ==
  /\ F \in Seq(Byte) /\ Len(F) = Unit + len
  /\ \A j \in 1 .. Unit : F[j] = <<"h", len, last, wk, wi, j>>
  /\ \A j \in 1 .. len : F[Unit + j] = <<"d", wk, wi + j - 1>>

(* The sizes of more records are known. *)
Longer(y, z) == Len(z) <= Len(y) /\ \A j \in 1 .. Len(z) : y[j] = z[j]

(* After the fragment the writer is at byte vi of record vk. *)
Advanced0(y, len, last, wk, wi, vk, vi) ==
  IF last THEN vk = wk + 1 /\ vi = 1 /\ wk <= Len(y) /\ wi + len - 1 = y[wk] ELSE vk = wk /\ vi = wi + len

Adding(T, F, z, y, wk, wi, vk, vi, len, last) ==
  /\ T \in Seq(Byte) /\ F \in Seq(Byte) /\ z \in Seq(Nat) /\ y \in Seq(Nat)
  /\ wk \in Nat /\ wi \in Nat /\ vk \in Nat /\ vi \in Nat /\ len \in Nat /\ last \in BOOLEAN
  /\ Unit \in Nat \ {0} /\ SendSize \in Nat /\ wk > 0
  /\ Longer(y, z) /\ Fragment(F, len, last, wk, wi) /\ Advanced0(y, len, last, wk, wi, vk, vi)

LEMMA RestMore ==
  ASSUME NEW T, NEW F, NEW z, NEW y, NEW wk, NEW wi, NEW vk, NEW vi, NEW len1, NEW last1,
         Adding(T, F, z, y, wk, wi, vk, vi, len1, last1)
  PROVE  \A p \in Nat \ {0}, len \in Nat, last \in BOOLEAN, k \in Nat, i \in Nat :
           Rest(T, z, wk, wi, p, len, last, k, i) => Rest(T \o F, y, vk, vi, p, len, last, k, i)
<1>a. /\ T \in Seq(Byte) /\ F \in Seq(Byte) /\ z \in Seq(Nat) /\ y \in Seq(Nat)
      /\ wk \in Nat /\ wi \in Nat /\ vk \in Nat /\ vi \in Nat /\ len1 \in Nat /\ last1 \in BOOLEAN
      /\ Unit \in Nat \ {0} /\ Longer(y, z) /\ Fragment(F, len1, last1, wk, wi)
  BY DEF Adding
<1> USE <1>a
<1> SUFFICES ASSUME NEW p \in Nat \ {0}, NEW len \in Nat, NEW last \in BOOLEAN, NEW k \in Nat, NEW i \in Nat,
                    Rest(T, z, wk, wi, p, len, last, k, i)
             PROVE  Rest(T \o F, y, vk, vi, p, len, last, k, i)
  OBVIOUS
<1> DEFINE N == T \o F
           m == Len(T)
<1>1. m \in Nat /\ Len(F) \in Nat /\ Len(N) = m + Len(F) /\ Len(F) >= 1
  <2>1. m \in Nat /\ Len(F) \in Nat /\ Len(N) = m + Len(F)
    BY ConcatProperties
  <2>2. Len(F) = Unit + len1
    BY DEF Fragment
  <2>3. QED
    BY <2>1, <2>2
<1>2. \A j \in 1 .. m : N[j] = T[j] /\ N[m + 1] = F[1]
  <2>1. \A j \in 1 .. m + Len(F) : N[j] = IF j <= m THEN T[j] ELSE F[j - m]
    BY ConcatProperties
  <2>2. QED
    BY <1>1, <2>1
<1>3. N[m + 1] = <<"h", len1, last1, wk, wi, 1>>
  <2>1. \A j \in 1 .. m + Len(F) : N[j] = IF j <= m THEN T[j] ELSE F[j - m]
    BY ConcatProperties
  <2>2. m + 1 \in 1 .. m + Len(F) /\ ~(m + 1 <= m) /\ (m + 1) - m = 1 /\ 1 \in 1 .. Unit
    BY <1>1
  <2>3. N[m + 1] = F[1] /\ F[1] = <<"h", len1, last1, wk, wi, 1>>
    BY <2>1, <2>2 DEF Fragment
  <2>4. QED
    BY <2>3
<1> HIDE DEF N, m
<1>4. /\ p + len - 1 <= m
      /\ \A j \in p .. p + len - 1 : T[j] = <<"d", k, i + (j - p)>>
      /\ last => k = 0 \/ (k <= Len(z) /\ i + len - 1 = z[k])
      /\ IF last THEN Follows(T, k + 1, 1, wk, wi, p + len) ELSE Follows(T, k, i + len, wk, wi, p + len)
  BY DEF Rest, m
<1>5. p + len - 1 <= Len(N)
  BY <1>1, <1>4, SMTT(30)
<1>6. \A j \in p .. p + len - 1 : N[j] = <<"d", k, i + (j - p)>>
  <2>0. p + len - 1 <= m /\ m \in Nat
    BY <1>1, <1>4
  <2>1. \A j \in p .. p + len - 1 : j \in 1 .. m
    BY <2>0
  <2>2. QED
    BY <1>2, <1>4, <2>1
<1>7. last => k = 0 \/ (k <= Len(y) /\ i + len - 1 = y[k])
  <2>1. Len(z) \in Nat /\ Len(y) \in Nat
    OBVIOUS
  <2>2. k # 0 /\ k <= Len(z) => k \in 1 .. Len(z) /\ k <= Len(y)
    BY <2>1, SMTT(30) DEF Longer
  <2>3. QED
    BY <1>4, <2>2 DEF Longer
<1>8. ASSUME NEW x, NEW v, Follows(T, x, v, wk, wi, p + len) PROVE Follows(N, x, v, vk, vi, p + len)
  <2>1. p + len <= Len(N) /\ p + len \in 1 .. m + 1
    BY <1>1, <1>4
  <2>2. CASE p + len <= m
    <3>1. p + len \in 1 .. m
      BY <1>1, <2>2
    <3>2. N[p + len] = T[p + len]
      BY <1>2, <3>1
    <3>3. QED
      BY <1>8, <2>1, <2>2, <3>2 DEF Follows, m
  <2>3. CASE ~(p + len <= m)
    <3>1. p + len = m + 1
      BY <1>1, <2>1, <2>3
    <3>2. x = wk /\ v = wi
      BY <1>8, <2>3 DEF Follows, m
    <3>3. N[p + len][1] = "h" /\ N[p + len][4] = x /\ N[p + len][5] = v /\ N[p + len][6] = 1
      BY <1>3, <3>1, <3>2, SMTT(30)
    <3>4. QED
      BY <2>1, <3>3 DEF Follows
  <2>4. QED
    BY <2>2, <2>3
<1>9. QED
  BY <1>4, <1>5, <1>6, <1>7, <1>8 DEF Rest, N

LEMMA FramedMore ==
  ASSUME NEW T, NEW F, NEW z, NEW y, NEW wk, NEW wi, NEW vk, NEW vi, NEW len, NEW last,
         Adding(T, F, z, y, wk, wi, vk, vi, len, last), Framed(T, z, wk, wi)
  PROVE  Framed(T \o F, y, vk, vi)
<1>r. \A p \in Nat \ {0}, len0 \in Nat, last0 \in BOOLEAN, k \in Nat, i \in Nat :
        Rest(T, z, wk, wi, p, len0, last0, k, i) => Rest(T \o F, y, vk, vi, p, len0, last0, k, i)
  BY RestMore
<1>a. /\ T \in Seq(Byte) /\ F \in Seq(Byte) /\ z \in Seq(Nat) /\ y \in Seq(Nat)
      /\ wk \in Nat /\ wi \in Nat /\ vk \in Nat /\ vi \in Nat /\ len \in Nat /\ last \in BOOLEAN
      /\ Unit \in Nat \ {0} /\ SendSize \in Nat /\ wk > 0
      /\ Longer(y, z) /\ Fragment(F, len, last, wk, wi) /\ Advanced0(y, len, last, wk, wi, vk, vi)
  BY DEF Adding
<1> USE <1>a
<1> DEFINE N == T \o F
           m == Len(T)
<1>1. m \in Nat /\ Len(F) = Unit + len /\ Len(N) = m + (Unit + len) /\ N \in Seq(Byte)
  <2>1. m \in Nat /\ Len(N) = m + Len(F) /\ N \in Seq(Byte)
    BY ConcatProperties
  <2>2. Len(F) = Unit + len
    BY DEF Fragment
  <2>3. QED
    BY <2>1, <2>2
<1>2. \A j \in 1 .. m + (Unit + len) : N[j] = IF j <= m THEN T[j] ELSE F[j - m]
  BY <1>1, ConcatProperties
<1>3. \A j \in 1 .. m : N[j] = T[j]
  BY <1>1, <1>2
<1>4. \A j \in 1 .. Unit : N[m + j] = <<"h", len, last, wk, wi, j>>
  <2> SUFFICES ASSUME NEW j \in 1 .. Unit PROVE N[m + j] = F[j]
    BY DEF Fragment
  <2>1. m + j \in 1 .. m + (Unit + len) /\ ~(m + j <= m) /\ (m + j) - m = j
    BY <1>1
  <2>2. QED
    BY <1>2, <2>1
<1>5. \A j \in 1 .. len : N[m + (Unit + j)] = <<"d", wk, wi + j - 1>>
  <2> SUFFICES ASSUME NEW j \in 1 .. len PROVE N[m + (Unit + j)] = F[Unit + j]
    BY DEF Fragment
  <2>1. m + (Unit + j) \in 1 .. m + (Unit + len) /\ ~(m + (Unit + j) <= m) /\ (m + (Unit + j)) - m = Unit + j
    BY <1>1
  <2>2. QED
    BY <1>2, <2>1
<1>0. Framed(T, z, wk, wi) /\ m = Len(T)
  OBVIOUS
<1> HIDE DEF N, m
<1> SUFFICES ASSUME NEW p \in 1 .. Len(N), N[p][1] = "h", N[p][6] = 1
             PROVE  /\ N[p][4] > 0 /\ p + Unit - 1 <= Len(N)
                    /\ \A j \in 1 .. Unit : N[p + j - 1] = <<"h", N[p][2], N[p][3], N[p][4], N[p][5], j>>
                    /\ Rest(N, y, vk, vi, p + Unit, N[p][2], N[p][3], N[p][4], N[p][5])
  BY DEF Framed, N
<1>6. CASE p <= m
  <2>1. p \in 1 .. m /\ N[p] = T[p]
    BY <1>1, <1>3, <1>6, SMTT(30)
  <2>2. T[p] \in Byte
    BY <1>0, <2>1, ElementOfSeq
  <2>3. T[p][2] \in Nat /\ T[p][3] \in BOOLEAN /\ T[p][4] \in Nat /\ T[p][5] \in Nat
    <3> DEFINE b == T[p]
    <3>1. b \in Byte /\ b[1] = "h"
      BY <2>1, <2>2
    <3> HIDE DEF b
    <3>2. b[2] \in Nat /\ b[3] \in BOOLEAN /\ b[4] \in Nat /\ b[5] \in Nat
      BY <3>1, ByteIs, SMTT(30)
    <3>3. QED
      BY <3>2 DEF b
  <2>4. /\ T[p][4] > 0 /\ p + Unit - 1 <= m
        /\ \A j \in 1 .. Unit : T[p + j - 1] = <<"h", T[p][2], T[p][3], T[p][4], T[p][5], j>>
        /\ Rest(T, z, wk, wi, p + Unit, T[p][2], T[p][3], T[p][4], T[p][5])
    BY <1>0, <2>1 DEF Framed
  <2>5. \A j \in 1 .. Unit : p + j - 1 \in 1 .. m
    <3>1. p \in Nat /\ p >= 1 /\ p + Unit - 1 <= m /\ m \in Nat
      BY <1>1, <2>1, <2>4, SMTT(30)
    <3>2. QED
      BY <3>1
  <2>6. \A j \in 1 .. Unit : N[p + j - 1] = <<"h", N[p][2], N[p][3], N[p][4], N[p][5], j>>
    BY <1>3, <2>1, <2>4, <2>5
  <2>7. Rest(N, y, vk, vi, p + Unit, N[p][2], N[p][3], N[p][4], N[p][5])
    <3> DEFINE pos == p + Unit
               len0 == T[p][2]
               last0 == T[p][3]
               k == T[p][4]
               i == T[p][5]
    <3>1. /\ pos \in Nat \ {0} /\ len0 \in Nat /\ last0 \in BOOLEAN /\ k \in Nat /\ i \in Nat
          /\ Rest(T, z, wk, wi, pos, len0, last0, k, i)
      BY <2>3, <2>4, SMTT(30)
    <3> HIDE DEF pos, len0, last0, k, i
    <3>2. Rest(T \o F, y, vk, vi, pos, len0, last0, k, i)
      BY <1>r, <3>1
    <3>3. QED
      BY <2>1, <3>2 DEF pos, len0, last0, k, i, N
  <2>8. p + Unit - 1 <= Len(N)
    <3>1. p + Unit - 1 <= m /\ m \in Nat /\ m <= Len(N) /\ Len(N) \in Nat /\ p + Unit - 1 \in Int
      BY <1>1, <2>1, <2>4
    <3>2. QED
      BY <3>1
  <2>9. N[p][4] > 0
    BY <2>1, <2>4
  <2>10. QED
    BY <2>6, <2>7, <2>8, <2>9
<1>7. CASE ~(p <= m)
  <2>1. p = m + 1
    <3>1. PICK j \in 1 .. Unit + len : p = m + j
      <4>1. p - m \in 1 .. Unit + len /\ p = m + (p - m)
        BY <1>1, <1>7
      <4>2. QED
        BY <4>1
    <3>2. CASE j <= Unit
      <4>1. j \in 1 .. Unit /\ N[p][6] = j
        BY <1>4, <3>1, <3>2, SMTT(30)
      <4>2. QED
        BY <3>1, <4>1
    <3>3. CASE ~(j <= Unit)
      <4>1. j - Unit \in 1 .. len /\ Unit + (j - Unit) = j
        BY <3>3
      <4>2. N[p] = <<"d", wk, wi + (j - Unit) - 1>>
        BY <1>5, <3>1, <4>1
      <4>3. N[p][1] = "d"
        BY <4>2
      <4>4. QED
        BY <4>3
    <3>4. QED
      BY <3>2, <3>3
  <2>2. N[p] = <<"h", len, last, wk, wi, 1>>
    BY <1>4, <2>1, SMTT(30)
  <2>3. N[p][2] = len /\ N[p][3] = last /\ N[p][4] = wk /\ N[p][5] = wi
    BY <2>2
  <2>4. \A j \in 1 .. Unit : N[p + j - 1] = <<"h", len, last, wk, wi, j>>
    <3>1. \A j \in 1 .. Unit : p + j - 1 = m + j
      BY <1>1, <2>1
    <3>2. QED
      BY <1>4, <3>1
  <2>5. Rest(N, y, vk, vi, p + Unit, len, last, wk, wi)
    <3> DEFINE pos == p + Unit
    <3>1. pos = m + Unit + 1 /\ pos + len - 1 <= Len(N) /\ ~(pos + len <= Len(N))
      BY <1>1, <2>1
    <3> HIDE DEF pos
    <3>2. \A j \in pos .. pos + len - 1 : N[j] = <<"d", wk, wi + (j - pos)>>
      <4> SUFFICES ASSUME NEW j \in pos .. pos + len - 1 PROVE N[j] = <<"d", wk, wi + (j - pos)>>
        OBVIOUS
      <4>1. j - pos + 1 \in 1 .. len /\ m + (Unit + (j - pos + 1)) = j /\ wi + (j - pos + 1) - 1 = wi + (j - pos)
        BY <1>1, <3>1
      <4>2. QED
        BY <1>5, <4>1
    <3>3. last => wk <= Len(y) /\ wi + len - 1 = y[wk]
      BY DEF Advanced0
    <3>4. IF last THEN Follows(N, wk + 1, 1, vk, vi, pos + len) ELSE Follows(N, wk, wi + len, vk, vi, pos + len)
      BY <3>1 DEF Follows, Advanced0
    <3>5. QED
      BY <3>1, <3>2, <3>3, <3>4 DEF Rest, pos
  <2>6. p + Unit - 1 <= Len(N)
    BY <1>1, <2>1, SMTT(30)
  <2>7. QED
    BY <2>3, <2>4, <2>5, <2>6
<1>8. QED
  BY <1>6, <1>7

-----------------------------------------------------------------------------
(* The bytes between the writer and the reader: those of a header of which *)
(* a part was read, those in the buffer of the reader, on the wire, and in *)
(* the buffer of the writer up to the fragment that it is filling.         *)
Stream == ((r.header \o r.buf) \o wire) \o SubSeq(w.out, 1, w.frag)

(* Where the fragment begins that the writer is filling. *)
WRec == Len(sizes) + 1
WFrom == w.len - FragLen(w) + 1

Writer == [out : Seq(Byte), frag : Nat, frag_sent : BOOLEAN, len : Nat]

ReaderRec == [buf : Seq(Byte), align : Nat, fbtbc : Nat, last_frag : BOOLEAN, header : Seq(Byte),
              op : {"idle", "ready", "get", "skip", "eof", "dead"}, phase : {"top", "piece", "header"},
              left : Nat, size : Nat, piece : Nat, rec : Nat, got : Nat, failed : BOOLEAN, sync : BOOLEAN]

Types ==
  /\ w \in Writer /\ r \in ReaderRec /\ wire \in Seq(Byte) /\ sizes \in Seq(Nat)
  /\ shipped \in Nat /\ shipped <= Len(sizes)

(* There is room for a header and more, as all records but the one that is *)
(* written are a multiple of Unit long.                                    *)
WriterOK ==
  /\ w.frag <= Len(w.out) /\ FragLen(w) <= w.len /\ w.len <= MaxLen
  /\ Finger(w) <= SendSize /\ w.frag + 2 * Unit <= SendSize
  /\ \E n \in Nat : w.frag = n * Unit
  /\ IF w.frag_sent THEN w.frag = 0 ELSE FragLen(w) = w.len
  /\ \A j \in 1 .. FragLen(w) : w.out[w.frag + j] = <<"d", WRec, WFrom + j - 1>>

(* What is left of the fragment that is being read. *)
FragRest == IF r.phase = "piece" THEN r.fbtbc - (r.size - r.piece) ELSE r.fbtbc

ReaderOK ==
  /\ r.align < Unit /\ Len(r.buf) <= RecvSize /\ r.fbtbc <= SendSize /\ r.piece <= r.size /\ r.sync
  /\ r.phase # "header" => r.header = <<>>
  /\ r.phase = "header" => /\ r.fbtbc = 0 /\ ~r.last_frag /\ Len(r.header) < Unit
                           /\ r.op \in {"get", "skip", "eof"}
  /\ r.phase = "piece" => /\ r.size <= r.fbtbc /\ r.op \in {"get", "skip", "eof"}
                          /\ r.op = "get" => r.size <= r.left
  /\ r.op \in {"get", "ready"} => r.rec > 0
  /\ r.failed => r.rec > 0 /\ r.op \notin {"get", "ready"} /\ r.rec <= Len(sizes) /\ r.got = sizes[r.rec]

(* The reader is where the stream says it is. *)
InPlace ==
  r.op # "dead" =>
    \E i \in Nat : /\ r.op \in {"get", "ready"} => i = r.got + 1
                   /\ Rest(Stream, sizes, WRec, WFrom, 1, FragRest, r.last_frag, r.rec, i)

XInv == Types /\ WriterOK /\ ReaderOK /\ Framed(Stream, sizes, WRec, WFrom) /\ InPlace

LEMMA Sizes0 ==
  /\ Unit \in Nat /\ Unit > 0 /\ SendSize \in Nat /\ RecvSize \in Nat
  /\ SendSize >= 3 * Unit /\ RecvSize >= 3 * Unit
  /\ \E n \in Nat : SendSize = n * Unit
<1>1. /\ Unit \in Nat \ {0} /\ SendSize \in Nat /\ RecvSize \in Nat
      /\ SendSize >= 3 * Unit /\ RecvSize >= 3 * Unit /\ SendSize % Unit = 0
  BY XdrRecAssumption
<1>2. SendSize \div Unit \in Nat /\ SendSize = (SendSize \div Unit) * Unit
  BY <1>1
<1>3. QED
  BY <1>1, <1>2

-----------------------------------------------------------------------------
(* The writer.                                                             *)

(* The bytes behind x.frag are those of the record, up to byte x.len. *)
Filling(x) ==
  /\ x \in Writer /\ x.frag <= Len(x.out) /\ FragLen(x) <= x.len
  /\ \A j \in 1 .. FragLen(x) : x.out[x.frag + j] = <<"d", WRec, (x.len - FragLen(x) + 1) + j - 1>>

LEMMA PutFills ==
  ASSUME sizes \in Seq(Nat), NEW x, Filling(x), NEW n \in Nat
  PROVE  /\ Filling(Put(x, n)) /\ Len(Put(x, n).out) = Len(x.out) + n
         /\ Put(x, n).frag = x.frag /\ Put(x, n).frag_sent = x.frag_sent /\ Put(x, n).len = x.len + n
         /\ SubSeq(Put(x, n).out, 1, x.frag) = SubSeq(x.out, 1, x.frag)
         /\ FragLen(Put(x, n)) = FragLen(x) + n
<1> DEFINE D == [i \in 1 .. n |-> <<"d", Len(sizes) + 1, x.len + i>>]
           P == Put(x, n)
<1>1. /\ x \in Writer /\ x.out \in Seq(Byte) /\ x.frag \in Nat /\ x.len \in Nat /\ Len(x.out) \in Nat
      /\ x.frag <= Len(x.out) /\ Len(sizes) \in Nat /\ x.frag_sent \in BOOLEAN
  BY DEF Filling, Writer
<1>2. D \in Seq(Byte) /\ Len(D) = n /\ \A i \in 1 .. n : D[i] = <<"d", WRec, x.len + i>>
  <2>1. \A i \in 1 .. n : <<"d", Len(sizes) + 1, x.len + i>> \in Byte
    <3>1. \A i \in 1 .. n : Len(sizes) + 1 \in Nat /\ x.len + i \in Nat
      BY <1>1
    <3>2. QED
      BY <3>1, DataIs
  <2>2. D \in [1 .. n -> Byte]
    BY <2>1
  <2>3. QED
    BY <2>2 DEF WRec
<1> HIDE DEF D
<1>3. P = [x EXCEPT !.out = x.out \o D, !.len = x.len + n]
  BY DEF Put, D
<1>4. /\ x.out \o D \in Seq(Byte) /\ Len(x.out \o D) = Len(x.out) + n
      /\ \A i \in 1 .. Len(x.out) + n : (x.out \o D)[i] = IF i <= Len(x.out) THEN x.out[i] ELSE D[i - Len(x.out)]
  BY <1>1, <1>2, ConcatProperties
<1>5. /\ P \in Writer /\ P.out = x.out \o D /\ P.frag = x.frag /\ P.frag_sent = x.frag_sent
      /\ P.len = x.len + n
  <2>1. P = [out |-> x.out \o D, frag |-> x.frag, frag_sent |-> x.frag_sent, len |-> x.len + n]
    BY <1>1, <1>3 DEF Writer
  <2>2. x.len + n \in Nat
    BY <1>1
  <2>3. QED
    BY <1>1, <1>4, <2>1, <2>2, SMTT(30) DEF Writer
<1> HIDE DEF P
<1>6. FragLen(P) = FragLen(x) + n /\ FragLen(x) \in Nat /\ FragLen(x) = Len(x.out) - x.frag
  <2>1. FragLen(P) = Len(P.out) - P.frag /\ FragLen(x) = Len(x.out) - x.frag
    BY DEF FragLen
  <2>2. FragLen(P) = (Len(x.out) + n) - x.frag
    BY <1>4, <1>5, <2>1
  <2>3. Len(x.out) \in Nat /\ x.frag \in Nat /\ x.frag <= Len(x.out)
    BY <1>1
  <2>4. QED
    BY <2>1, <2>2, <2>3
<1>7. \A j \in 1 .. FragLen(P) : P.out[P.frag + j] = <<"d", WRec, (P.len - FragLen(P) + 1) + j - 1>>
  <2> SUFFICES ASSUME NEW j \in 1 .. FragLen(P)
               PROVE  (x.out \o D)[x.frag + j] = <<"d", WRec, (x.len - FragLen(x) + 1) + j - 1>>
    <3>1. P.len - FragLen(P) = x.len - FragLen(x)
      BY <1>1, <1>5, <1>6
    <3>2. QED
      BY <1>5, <3>1
  <2>1. x.frag + j \in 1 .. Len(x.out) + n
    BY <1>1, <1>6
  <2>2. CASE j <= FragLen(x)
    <3>1. j \in 1 .. FragLen(x) /\ x.frag + j <= Len(x.out)
      BY <1>1, <1>6, <2>2
    <3>2. QED
      BY <1>4, <2>1, <3>1 DEF Filling
  <2>3. CASE ~(j <= FragLen(x))
    <3>1. /\ j - FragLen(x) \in 1 .. n /\ ~(x.frag + j <= Len(x.out))
          /\ (x.frag + j) - Len(x.out) = j - FragLen(x)
          /\ x.len + (j - FragLen(x)) = (x.len - FragLen(x) + 1) + j - 1
      <4>1. /\ Len(x.out) \in Nat /\ x.frag \in Nat /\ x.len \in Nat /\ FragLen(x) \in Nat
            /\ FragLen(x) = Len(x.out) - x.frag /\ j \in 1 .. FragLen(x) + n
        BY <1>1, <1>6
      <4> DEFINE a == Len(x.out)
                 b == x.frag
                 c == x.len
                 d == FragLen(x)
      <4>2. /\ a \in Nat /\ b \in Nat /\ c \in Nat /\ d \in Nat /\ d = a - b /\ j \in 1 .. d + n /\ ~(j <= d)
        BY <2>3, <4>1
      <4> HIDE DEF a, b, c, d
      <4>3. /\ j - d \in 1 .. n /\ ~(b + j <= a) /\ (b + j) - a = j - d /\ c + (j - d) = (c - d + 1) + j - 1
        BY <4>2
      <4>4. QED
        BY <4>3 DEF a, b, c, d
    <3>2. (x.out \o D)[x.frag + j] = D[j - FragLen(x)]
      BY <1>4, <2>1, <3>1
    <3>3. QED
      BY <1>2, <3>1, <3>2
  <2>4. QED
    BY <2>2, <2>3
<1>8. SubSeq(P.out, 1, x.frag) = SubSeq(x.out, 1, x.frag)
  <2>1. CASE x.frag = 0
    <3>1. 0 < 1 /\ 0 \in Int /\ 1 \in Int
      OBVIOUS
    <3>2. SubSeq(P.out, 1, 0) = <<>> /\ SubSeq(x.out, 1, 0) = <<>>
      BY <3>1, SubSeqEmpty
    <3>3. QED
      BY <2>1, <3>2
  <2>2. CASE x.frag # 0
    <3>1. 1 \in 1 .. Len(x.out) /\ x.frag \in 1 .. Len(x.out)
      BY <1>1, <2>2
    <3>2. QED
      BY <1>1, <1>2, <1>5, <3>1, SubSeqOfConcat1
  <2>3. QED
    BY <2>1, <2>2
<1>9. P.frag <= Len(P.out) /\ FragLen(P) <= P.len
  <2>1. FragLen(x) <= x.len
    BY DEF Filling
  <2>2. QED
    BY <1>1, <1>4, <1>5, <1>6, <2>1, SMTT(30)
<1>10. Filling(P)
  BY <1>5, <1>7, <1>9 DEF Filling
<1>11. QED
  BY <1>4, <1>5, <1>6, <1>8, <1>10 DEF P

(* The fragment that goes out with its header. *)
Out(x, last) == Header(x, last) \o SubSeq(x.out, x.frag + 1, Len(x.out))

LEMMA MarkedIs ==
  ASSUME sizes \in Seq(Nat), NEW x, Filling(x), NEW last \in BOOLEAN, FragLen(x) <= SendSize,
         FragLen(x) = 0 => last
  PROVE  /\ Marked(x, last) = SubSeq(x.out, 1, x.frag) \o Out(x, last)
         /\ Marked(x, last) \in Seq(Byte) /\ Len(Marked(x, last)) = Len(x.out) + Unit
         /\ Out(x, last) \in Seq(Byte)
         /\ Fragment(Out(x, last), FragLen(x), last, WRec, x.len - FragLen(x) + 1)
<1> DEFINE H == Header(x, last)
           D == SubSeq(x.out, x.frag + 1, Len(x.out))
           O == SubSeq(x.out, 1, x.frag)
           from == x.len - FragLen(x) + 1
<1>1. /\ x.out \in Seq(Byte) /\ x.frag \in Nat /\ x.len \in Nat /\ Len(x.out) \in Nat
      /\ x.frag <= Len(x.out) /\ FragLen(x) = Len(x.out) - x.frag /\ FragLen(x) \in Nat
      /\ from \in Nat /\ WRec \in Nat
  <2>1. x.out \in Seq(Byte) /\ x.frag \in Nat /\ x.len \in Nat /\ Len(x.out) \in Nat
    BY DEF Filling, Writer
  <2>2. x.frag <= Len(x.out) /\ FragLen(x) = Len(x.out) - x.frag /\ FragLen(x) <= x.len
    BY DEF Filling, FragLen
  <2>3. WRec \in Nat
    BY DEF WRec
  <2>4. QED
    BY <2>1, <2>2, <2>3
<1>2. Unit \in Nat \ {0} /\ SendSize \in Nat
  BY Sizes0
<1>3. H \in Seq(Byte) /\ Len(H) = Unit /\ \A j \in 1 .. Unit : H[j] = <<"h", FragLen(x), last, WRec, from, j>>
  <2>1. H = [i \in 1 .. Unit |-> <<"h", FragLen(x), last, WRec, from, i>>]
    BY DEF Header, WRec
  <2> HIDE DEF H, from
  <2>2. FragLen(x) \in 0 .. SendSize
    BY <1>1, <1>2
  <2>3. \A i \in 1 .. Unit : <<"h", FragLen(x), last, WRec, from, i>> \in Byte
    BY <1>1, <2>2, HeadIs
  <2>4. H \in [1 .. Unit -> Byte]
    BY <2>1, <2>3
  <2>5. QED
    BY <1>2, <2>1, <2>4
<1>4. D \in Seq(Byte) /\ Len(D) = FragLen(x) /\ \A j \in 1 .. FragLen(x) : D[j] = x.out[x.frag + j]
  <2>1. \A i \in x.frag + 1 .. Len(x.out) : x.out[i] \in Byte
    <3>1. \A i \in x.frag + 1 .. Len(x.out) : i \in 1 .. Len(x.out)
      BY <1>1
    <3>2. QED
      BY <1>1, <3>1, ElementOfSeq
  <2>2. x.frag + 1 \in Int /\ Len(x.out) \in Int
    BY <1>1
  <2>3. /\ D \in Seq(Byte) /\ Len(D) = IF x.frag + 1 <= Len(x.out) THEN Len(x.out) - (x.frag + 1) + 1 ELSE 0
        /\ \A i \in 1 .. Len(x.out) - (x.frag + 1) + 1 : D[i] = x.out[(x.frag + 1) + i - 1]
    BY <2>1, <2>2, SubSeqProperties, SMTT(30)
  <2> HIDE DEF D
  <2>4. Len(D) = FragLen(x)
    BY <1>1, <2>3, SMTT(30)
  <2>5. \A j \in 1 .. FragLen(x) : j \in 1 .. Len(x.out) - (x.frag + 1) + 1 /\ (x.frag + 1) + j - 1 = x.frag + j
    <3>1. Len(x.out) \in Nat /\ x.frag \in Nat /\ FragLen(x) = Len(x.out) - x.frag
      BY <1>1
    <3>2. QED
      BY <3>1
  <2>6. \A j \in 1 .. FragLen(x) : D[j] = x.out[x.frag + j]
    BY <2>3, <2>5
  <2>7. QED
    BY <2>3, <2>4, <2>6
<1>5. O \in Seq(Byte) /\ Len(O) = x.frag
  <2>1. \A i \in 1 .. x.frag : x.out[i] \in Byte
    <3>1. \A i \in 1 .. x.frag : i \in 1 .. Len(x.out)
      BY <1>1
    <3>2. QED
      BY <1>1, <3>1, ElementOfSeq
  <2>2. 1 \in Int /\ x.frag \in Int
    BY <1>1
  <2>3. O \in Seq(Byte) /\ Len(O) = IF 1 <= x.frag THEN x.frag - 1 + 1 ELSE 0
    BY <2>1, <2>2, SubSeqProperties
  <2>4. QED
    BY <1>1, <2>3
<1>6. Marked(x, last) = (O \o H) \o D /\ Out(x, last) = H \o D
  BY DEF Marked, Out
<1> HIDE DEF H, D, O, from
<1>7. (O \o H) \o D = O \o (H \o D)
  BY <1>3, <1>4, <1>5, ConcatAssociative, SMTT(30)
<1>8. /\ H \o D \in Seq(Byte) /\ Len(H \o D) = Unit + FragLen(x)
      /\ \A i \in 1 .. Unit + FragLen(x) : (H \o D)[i] = IF i <= Unit THEN H[i] ELSE D[i - Unit]
  <2>1. /\ H \o D \in Seq(Byte) /\ Len(H \o D) = Len(H) + Len(D)
        /\ \A i \in 1 .. Len(H) + Len(D) : (H \o D)[i] = IF i <= Len(H) THEN H[i] ELSE D[i - Len(H)]
    BY <1>3, <1>4, ConcatProperties, Zenon
  <2>2. Len(H) = Unit /\ Len(D) = FragLen(x)
    BY <1>3, <1>4
  <2>3. QED
    BY <2>1, <2>2, Zenon
<1>9. O \o (H \o D) \in Seq(Byte) /\ Len(O \o (H \o D)) = x.frag + (Unit + FragLen(x))
  <2>1. O \o (H \o D) \in Seq(Byte) /\ Len(O \o (H \o D)) = Len(O) + Len(H \o D)
    BY <1>5, <1>8, ConcatProperties, Zenon
  <2>2. Len(O) = x.frag /\ Len(H \o D) = Unit + FragLen(x)
    BY <1>5, <1>8
  <2>3. QED
    BY <2>1, <2>2, Zenon
<1>10. x.frag + (Unit + FragLen(x)) = Len(x.out) + Unit
  BY <1>1, <1>2
<1>11. \A j \in 1 .. Unit : (H \o D)[j] = <<"h", FragLen(x), last, WRec, from, j>>
  <2>1. \A j \in 1 .. Unit : j \in 1 .. Unit + FragLen(x) /\ j <= Unit
    BY <1>1, <1>2
  <2>2. QED
    BY <1>3, <1>8, <2>1
<1>12. \A j \in 1 .. FragLen(x) : (H \o D)[Unit + j] = <<"d", WRec, from + j - 1>>
  <2> SUFFICES ASSUME NEW j \in 1 .. FragLen(x) PROVE (H \o D)[Unit + j] = <<"d", WRec, from + j - 1>>
    OBVIOUS
  <2>1. Unit + j \in 1 .. Unit + FragLen(x) /\ ~(Unit + j <= Unit) /\ (Unit + j) - Unit = j
    BY <1>1, <1>2
  <2>2. (H \o D)[Unit + j] = D[j]
    BY <1>8, <2>1
  <2>3. x.out[x.frag + j] = <<"d", WRec, from + j - 1>>
    BY DEF Filling, from
  <2>4. QED
    BY <1>4, <2>2, <2>3
<1>13. Fragment(Out(x, last), FragLen(x), last, WRec, from)
  BY <1>6, <1>8, <1>11, <1>12 DEF Fragment
<1>14. QED
  BY <1>6, <1>7, <1>8, <1>9, <1>10, <1>13 DEF O, from

-----------------------------------------------------------------------------
(* The writer's steps.                                                     *)

LEMMA FragRestNat ==
  ASSUME Types, ReaderOK
  PROVE  FragRest \in Nat
<1>1. r.fbtbc \in Nat /\ r.size \in Nat /\ r.piece \in Nat
  BY DEF Types, ReaderRec
<1>2. r.piece <= r.size /\ (r.phase = "piece" => r.size <= r.fbtbc)
  BY DEF ReaderOK
<1>3. QED
  BY <1>1, <1>2 DEF FragRest

Regrouped(A, B, O, F) == A \o (B \o (O \o F)) = ((A \o B) \o O) \o F

Regrouped3(A, B, C) == A \o (B \o C) = (A \o B) \o C

LEMMA ConcatRegroups ==
  ASSUME NEW A \in Seq(Byte), NEW B \in Seq(Byte), NEW C \in Seq(Byte)
  PROVE  Regrouped3(A, B, C)
BY DEF Regrouped3

LEMMA StreamAdds ==
  ASSUME NEW A \in Seq(Byte), NEW B \in Seq(Byte), NEW O \in Seq(Byte), NEW F \in Seq(Byte)
  PROVE  Regrouped(A, B, O, F)
BY SMTT(30) DEF Regrouped

(* A fragment F on the wire, behind what the writer had in its buffer. *)
Grown(A, B, O, F, T, U) ==
  /\ A \in Seq(Byte) /\ B \in Seq(Byte) /\ O \in Seq(Byte) /\ F \in Seq(Byte)
  /\ T = (A \o B) \o O /\ U = A \o (B \o (O \o F))

LEMMA StreamGrows ==
  ASSUME NEW A, NEW B, NEW O, NEW F, NEW T, NEW U, Grown(A, B, O, F, T, U)
  PROVE  U = T \o F /\ U \in Seq(Byte)
<1>1. A \in Seq(Byte) /\ B \in Seq(Byte) /\ O \in Seq(Byte) /\ F \in Seq(Byte)
  BY DEF Grown
<1>2. U = A \o (B \o (O \o F)) /\ T = (A \o B) \o O
  BY DEF Grown
<1>3. Regrouped(A, B, O, F)
  BY <1>1, StreamAdds
<1>4. O \o F \in Seq(Byte)
  BY <1>1, ConcatProperties, Zenon
<1>5. B \o (O \o F) \in Seq(Byte)
  BY <1>1, <1>4, ConcatProperties, Zenon
<1>6. A \o (B \o (O \o F)) \in Seq(Byte)
  BY <1>1, <1>5, ConcatProperties, Zenon
<1>7. QED
  BY <1>2, <1>3, <1>6, Zenon DEF Regrouped

(* The parts of the stream are sequences of bytes. *)
LEMMA StreamParts ==
  ASSUME Types, WriterOK
  PROVE  /\ r.header \in Seq(Byte) /\ r.buf \in Seq(Byte) /\ wire \in Seq(Byte) /\ w.out \in Seq(Byte)
         /\ r.header \o r.buf \in Seq(Byte) /\ SubSeq(w.out, 1, w.frag) \in Seq(Byte)
         /\ (r.header \o r.buf) \o wire \in Seq(Byte) /\ Stream \in Seq(Byte)
<1>1. r.header \in Seq(Byte) /\ r.buf \in Seq(Byte) /\ wire \in Seq(Byte) /\ w.out \in Seq(Byte) /\ w.frag \in Nat
  BY DEF Types, ReaderRec, Writer
<1>2. SubSeq(w.out, 1, w.frag) \in Seq(Byte)
  <2>1. \A i \in 1 .. w.frag : w.out[i] \in Byte
    <3>1. Len(w.out) \in Nat /\ w.frag <= Len(w.out)
      BY <1>1 DEF WriterOK
    <3>2. \A i \in 1 .. w.frag : i \in 1 .. Len(w.out)
      BY <1>1, <3>1
    <3>3. QED
      BY <1>1, <3>2, ElementOfSeq
  <2>2. 1 \in Int /\ w.frag \in Int
    BY <1>1
  <2>3. QED
    BY <2>1, <2>2, SubSeqProperties
<1>3. r.header \o r.buf \in Seq(Byte)
  BY <1>1, ConcatProperties, Zenon
<1>4. (r.header \o r.buf) \o wire \in Seq(Byte)
  BY <1>1, <1>3, ConcatProperties, Zenon
<1>5. Stream \in Seq(Byte)
  BY <1>2, <1>4, ConcatProperties, Zenon DEF Stream
<1>6. QED
  BY <1>1, <1>2, <1>3, <1>4, <1>5

(* The stream is longer by a fragment, and the reader where it was. *)
LEMMA ShipKeeps ==
  ASSUME XInv, Types', WriterOK', r' = r, NEW F, NEW len, NEW last,
         Adding(Stream, F, sizes, sizes', WRec, WFrom, WRec', WFrom', len, last), Stream' = Stream \o F
  PROVE  XInv'
<1>1. Framed(Stream \o F, sizes', WRec', WFrom')
  BY FramedMore DEF XInv
<1>2. InPlace'
  <2> SUFFICES ASSUME r.op # "dead"
               PROVE  \E i \in Nat : /\ r.op \in {"get", "ready"} => i = r.got + 1
                                     /\ Rest(Stream \o F, sizes', WRec', WFrom', 1, FragRest, r.last_frag, r.rec, i)
    BY DEF InPlace, FragRest
  <2>1. PICK i \in Nat : /\ r.op \in {"get", "ready"} => i = r.got + 1
                         /\ Rest(Stream, sizes, WRec, WFrom, 1, FragRest, r.last_frag, r.rec, i)
    BY DEF XInv, InPlace
  <2>2. FragRest \in Nat /\ r.last_frag \in BOOLEAN /\ r.rec \in Nat /\ 1 \in Nat \ {0}
    BY FragRestNat DEF XInv, Types, ReaderRec
  <2>3. \A p \in Nat \ {0}, len0 \in Nat, last0 \in BOOLEAN, k \in Nat, j \in Nat :
          Rest(Stream, sizes, WRec, WFrom, p, len0, last0, k, j)
            => Rest(Stream \o F, sizes', WRec', WFrom', p, len0, last0, k, j)
    BY RestMore
  <2>4. Rest(Stream \o F, sizes', WRec', WFrom', 1, FragRest, r.last_frag, r.rec, i)
    BY <2>1, <2>2, <2>3
  <2>5. QED
    BY <2>1, <2>4
<1>3. ReaderOK'
  <2>1. r.failed => r.rec > 0 /\ r.op \notin {"get", "ready"} /\ r.rec <= Len(sizes') /\ r.got = sizes'[r.rec]
    <3> SUFFICES ASSUME r.failed
                 PROVE  r.rec > 0 /\ r.op \notin {"get", "ready"} /\ r.rec <= Len(sizes') /\ r.got = sizes'[r.rec]
      OBVIOUS
    <3>1. r.rec > 0 /\ r.op \notin {"get", "ready"} /\ r.rec <= Len(sizes) /\ r.got = sizes[r.rec]
      BY DEF XInv, ReaderOK
    <3>2. r.rec \in Nat /\ Len(sizes) \in Nat /\ Len(sizes') \in Nat
      BY SMTT(30) DEF XInv, Types, ReaderRec
    <3>3. Len(sizes) <= Len(sizes') /\ \A j \in 1 .. Len(sizes) : sizes'[j] = sizes[j]
      BY DEF Adding, Longer
    <3>4. r.rec \in 1 .. Len(sizes) /\ r.rec <= Len(sizes')
      BY <3>1, <3>2, <3>3
    <3>5. QED
      BY <3>1, <3>3, <3>4
  <2>2. QED
    BY <2>1 DEF XInv, ReaderOK
<1>4. QED
  BY <1>1, <1>2, <1>3 DEF XInv

(* The stream, the sizes and the reader stay as they are. *)
LEMMA SameKeeps ==
  ASSUME XInv, Types', WriterOK', r' = r, sizes' = sizes, Stream' = Stream, WFrom' = WFrom
  PROVE  XInv'
<1>1. WRec' = WRec /\ FragRest' = FragRest
  BY DEF WRec, FragRest
<1>2. Framed(Stream', sizes', WRec', WFrom') /\ InPlace' /\ ReaderOK'
  BY <1>1 DEF XInv, InPlace, ReaderOK
<1>3. QED
  BY <1>2 DEF XInv

(* The writer's record is a buffer that is being filled. *)
LEMMA WriterFills ==
  ASSUME XInv
  PROVE  /\ Filling(w) /\ w.frag \in Nat /\ w.len \in Nat /\ Len(w.out) \in Nat /\ FragLen(w) \in Nat
         /\ FragLen(w) = Len(w.out) - w.frag /\ w.frag_sent \in BOOLEAN /\ sizes \in Seq(Nat)
         /\ WRec \in Nat /\ WRec > 0 /\ WFrom \in Nat /\ WFrom = w.len - FragLen(w) + 1
<1>1. w \in Writer /\ sizes \in Seq(Nat)
  BY DEF XInv, Types
<1>2. w.frag \in Nat /\ w.len \in Nat /\ Len(w.out) \in Nat /\ w.frag_sent \in BOOLEAN
  BY <1>1 DEF Writer
<1>3. w.frag <= Len(w.out) /\ FragLen(w) <= w.len /\ FragLen(w) = Len(w.out) - w.frag
  BY DEF XInv, WriterOK, FragLen
<1>4. Filling(w)
  BY <1>1, <1>3 DEF XInv, WriterOK, Filling, WFrom
<1>5. FragLen(w) \in Nat
  BY <1>2, <1>3
<1>6. WFrom = w.len - FragLen(w) + 1
  BY DEF WFrom
<1>7. WFrom \in Nat
  BY <1>2, <1>3, <1>5, <1>6
<1>8. WRec \in Nat /\ WRec > 0
  BY <1>1 DEF WRec
<1>9. QED
  BY <1>1, <1>2, <1>3, <1>4, <1>5, <1>6, <1>7, <1>8

(* Data that fit into the buffer. *)
LEMMA PutKeeps ==
  ASSUME XInv, NEW n \in Nat, w.len + n <= MaxLen, Finger(w) + n <= SendSize,
         w' = Put(w, n), UNCHANGED <<wire, r, sizes, shipped>>
  PROVE  XInv'
<1>1. /\ Filling(w) /\ w.frag \in Nat /\ w.len \in Nat /\ Len(w.out) \in Nat /\ FragLen(w) \in Nat
      /\ sizes \in Seq(Nat)
  BY WriterFills
<1>2. /\ Filling(w') /\ Len(w'.out) = Len(w.out) + n
      /\ w'.frag = w.frag /\ w'.frag_sent = w.frag_sent /\ w'.len = w.len + n
      /\ SubSeq(w'.out, 1, w.frag) = SubSeq(w.out, 1, w.frag)
      /\ FragLen(w') = FragLen(w) + n
  BY <1>1, PutFills
<1>3. w'.len - FragLen(w') = w.len - FragLen(w)
  BY <1>1, <1>2
<1>4. WRec' = WRec /\ WFrom' = WFrom /\ Stream' = Stream /\ FragLen(w)' = FragLen(w')
  BY <1>2, <1>3 DEF WRec, WFrom, Stream, FragLen
<1>5. Types'
  BY <1>2 DEF Types, Filling, XInv
<1>6. WriterOK'
  <2>1. /\ w'.frag <= Len(w'.out) /\ FragLen(w') <= w'.len /\ w'.len <= MaxLen
        /\ \A j \in 1 .. FragLen(w') : w'.out[w'.frag + j] = <<"d", WRec, (w'.len - FragLen(w') + 1) + j - 1>>
    BY <1>2 DEF Filling
  <2>2. Finger(w)' <= SendSize
    <3>1. Finger(w)' = (Len(w.out) + n) + Unit /\ Finger(w) = Len(w.out) + Unit
      BY <1>2 DEF Finger
    <3>2. QED
      BY <1>1, <3>1, Sizes0
  <2>3. w'.frag + 2 * Unit <= SendSize /\ \E m \in Nat : w'.frag = m * Unit
    BY <1>2 DEF XInv, WriterOK
  <2>4. IF w'.frag_sent THEN w'.frag = 0 ELSE FragLen(w') = w'.len
    <3>1. IF w.frag_sent THEN w.frag = 0 ELSE FragLen(w) = w.len
      BY DEF XInv, WriterOK
    <3>2. QED
      BY <1>2, <3>1
  <2>5. WFrom' = w'.len - FragLen(w') + 1
    BY DEF WFrom, FragLen
  <2>6. QED
    BY <1>4, <2>1, <2>2, <2>3, <2>4, <2>5 DEF WriterOK
<1>7. QED
  BY <1>4, <1>5, <1>6, SameKeeps

(* The fragment goes out, behind what the buffer had before it. *)
LEMMA SendStream ==
  ASSUME XInv, NEW F \in Seq(Byte), wire' = wire \o (SubSeq(w.out, 1, w.frag) \o F), w'.frag = 0, r' = r
  PROVE  Stream' = Stream \o F
<1> DEFINE A == r.header \o r.buf
           O == SubSeq(w.out, 1, w.frag)
           U == A \o (wire \o (O \o F))
<1>1. A \in Seq(Byte) /\ wire \in Seq(Byte) /\ O \in Seq(Byte)
  BY StreamParts DEF XInv
<1>2. SubSeq(w'.out, 1, w'.frag) = <<>>
  <2>1. 0 < 1 /\ 0 \in Int /\ 1 \in Int
    OBVIOUS
  <2>2. SubSeq(w'.out, 1, 0) = <<>>
    BY <2>1, SubSeqEmpty
  <2>3. QED
    BY <2>2
<1>3. Stream = (A \o wire) \o O
  BY DEF Stream
<1>4. Stream' = U \o <<>>
  BY <1>2 DEF Stream
<1>5. Grown(A, wire, O, F, Stream, U)
  BY <1>1, <1>3, Zenon DEF Grown
<1> HIDE DEF A, O, U
<1>6. U = Stream \o F /\ U \in Seq(Byte)
  BY <1>5, StreamGrows
<1>7. U \o <<>> = U
  BY <1>6, ConcatEmptySeq, Zenon
<1>8. QED
  BY <1>4, <1>6, <1>7

LEMMA FlushedIs ==
  ASSUME NEW x \in Writer
  PROVE  Flushed(x) = [out |-> <<>>, frag |-> 0, frag_sent |-> x.frag_sent, len |-> x.len]
<1> DEFINE y == Flushed(x)
<1>1. y = [x EXCEPT !.out = <<>>, !.frag = 0]
  BY DEF Flushed
<1> HIDE DEF y
<1>2. y = [out |-> <<>>, frag |-> 0, frag_sent |-> x.frag_sent, len |-> x.len]
  BY <1>1 DEF Writer
<1>3. QED
  BY <1>2 DEF y

(* A buffer x goes out as a fragment that is not the last, and n bytes     *)
(* begin the next.                                                         *)
Begun(x, n) == [Put(Flushed(x), n) EXCEPT !.frag_sent = TRUE]

LEMMA FlushKeeps ==
  ASSUME XInv, NEW x, Filling(x), x.frag = w.frag, SubSeq(x.out, 1, x.frag) = SubSeq(w.out, 1, w.frag),
         x.len - FragLen(x) = w.len - FragLen(w), Finger(x) <= SendSize, FragLen(x) > 0,
         NEW n \in Nat, n + Unit <= SendSize, x.len + n <= MaxLen,
         wire' = wire \o Marked(x, FALSE), w' = Begun(x, n),
         UNCHANGED <<r, sizes, shipped>>
  PROVE  XInv'
<1> DEFINE f == Flushed(x)
           p == Put(f, n)
           F == Out(x, FALSE)
           O == SubSeq(w.out, 1, w.frag)
<1>1. /\ Filling(w) /\ w.frag \in Nat /\ w.len \in Nat /\ Len(w.out) \in Nat /\ FragLen(w) \in Nat
      /\ sizes \in Seq(Nat) /\ WRec \in Nat /\ WRec > 0 /\ WFrom \in Nat /\ WFrom = w.len - FragLen(w) + 1
  BY WriterFills
<1>2. /\ x \in Writer /\ x.out \in Seq(Byte) /\ x.frag \in Nat /\ x.len \in Nat /\ Len(x.out) \in Nat
      /\ FragLen(x) = Len(x.out) - x.frag /\ x.frag_sent \in BOOLEAN /\ FragLen(x) \in Nat /\ FragLen(x) <= SendSize
  <2>1. /\ x \in Writer /\ x.out \in Seq(Byte) /\ x.frag \in Nat /\ x.len \in Nat /\ Len(x.out) \in Nat
        /\ FragLen(x) = Len(x.out) - x.frag /\ x.frag_sent \in BOOLEAN /\ x.frag <= Len(x.out)
    BY DEF Filling, Writer, FragLen
  <2>2. FragLen(x) \in Nat
    BY <2>1
  <2>3. Len(x.out) + Unit <= SendSize /\ Unit \in Nat /\ SendSize \in Nat
    BY Sizes0 DEF Finger
  <2>4. QED
    BY <2>1, <2>2, <2>3
<1>3. /\ Marked(x, FALSE) = O \o F /\ F \in Seq(Byte)
      /\ Marked(x, FALSE) \in Seq(Byte) /\ Fragment(F, FragLen(x), FALSE, WRec, x.len - FragLen(x) + 1)
  <2>1. FALSE \in BOOLEAN /\ (FragLen(x) = 0 => FALSE)
    BY <1>2
  <2>2. /\ Marked(x, FALSE) = SubSeq(x.out, 1, x.frag) \o Out(x, FALSE)
        /\ Marked(x, FALSE) \in Seq(Byte) /\ Out(x, FALSE) \in Seq(Byte)
        /\ Fragment(Out(x, FALSE), FragLen(x), FALSE, WRec, x.len - FragLen(x) + 1)
    BY <1>1, <1>2, <2>1, MarkedIs
  <2>3. QED
    BY <2>2
<1>4. f = [out |-> <<>>, frag |-> 0, frag_sent |-> x.frag_sent, len |-> x.len]
  BY <1>2, FlushedIs
<1>5. Filling(f) /\ Len(f.out) = 0 /\ FragLen(f) = 0 /\ f.len = x.len /\ f.frag = 0
  <2>1. <<>> \in Seq(Byte) /\ Len(<<>>) = 0
    OBVIOUS
  <2>2. f \in Writer /\ f.out = <<>> /\ f.frag = 0 /\ f.len = x.len
    BY <1>2, <1>4, <2>1 DEF Writer
  <2> HIDE DEF f
  <2>3. FragLen(f) = 0
    BY <2>1, <2>2 DEF FragLen
  <2>4. QED
    BY <1>2, <2>1, <2>2, <2>3 DEF Filling
<1> HIDE DEF f
<1>6. /\ Filling(p) /\ Len(p.out) = n /\ p.frag = 0 /\ p.len = x.len + n /\ FragLen(p) = n
  <2>1. /\ Filling(p) /\ Len(p.out) = Len(f.out) + n /\ p.frag = f.frag /\ p.len = f.len + n
        /\ FragLen(p) = FragLen(f) + n
    BY <1>1, <1>5, PutFills
  <2>2. QED
    BY <1>5, <2>1
<1> HIDE DEF p
<1>7. w' = [p EXCEPT !.frag_sent = TRUE]
  BY DEF p, f, Begun
<1>8. /\ w' \in Writer /\ w'.out = p.out /\ w'.frag = 0 /\ w'.len = x.len + n /\ w'.frag_sent = TRUE
      /\ FragLen(w') = n
  <2>1. p \in Writer
    BY <1>6 DEF Filling
  <2>2. w' = [out |-> p.out, frag |-> p.frag, frag_sent |-> TRUE, len |-> p.len]
    BY <1>7, <2>1 DEF Writer
  <2>3. w' \in Writer /\ w'.out = p.out /\ w'.frag = 0 /\ w'.len = x.len + n /\ w'.frag_sent = TRUE
    <3>1. w'.out = p.out /\ w'.frag = p.frag /\ w'.len = p.len /\ w'.frag_sent = TRUE
      BY <2>2
    <3>2. p.out \in Seq(Byte) /\ p.frag \in Nat /\ p.len \in Nat /\ TRUE \in BOOLEAN
      BY <2>1 DEF Writer
    <3>3. w' \in Writer
      BY <2>2, <3>2 DEF Writer
    <3>4. QED
      BY <1>6, <3>1, <3>3
  <2>4. FragLen(w') = n
    BY <1>6, <2>3 DEF FragLen
  <2>5. QED
    BY <2>3, <2>4
<1>9. WRec' = WRec /\ WFrom' = x.len + 1 /\ FragLen(w)' = n
  <2>1. FragLen(w)' = n
    BY <1>8 DEF FragLen
  <2>2. WFrom' = (x.len + n) - n + 1
    BY <1>8, <2>1 DEF WFrom
  <2>3. QED
    BY <1>2, <2>1, <2>2 DEF WRec
<1>10. Types'
  <2>1. wire' \in Seq(Byte)
    <3>1. wire \in Seq(Byte)
      BY DEF XInv, Types
    <3>2. QED
      BY <1>3, <3>1, ConcatProperties, Zenon
  <2>2. QED
    BY <1>8, <2>1 DEF XInv, Types
<1>11. WriterOK'
  <2>1. Finger(w)' <= SendSize
    <3>1. Finger(w)' = n + Unit
      BY <1>6, <1>8 DEF Finger
    <3>2. QED
      BY <3>1
  <2>2. w'.frag + 2 * Unit <= SendSize
    BY <1>8, Sizes0
  <2>3. \E m \in Nat : w'.frag = m * Unit
    <3>1. 0 = 0 * Unit
      BY Sizes0
    <3>2. QED
      BY <1>8, <3>1
  <2>4. \A j \in 1 .. n : w'.out[w'.frag + j] = <<"d", WRec', WFrom' + j - 1>>
    <3>1. \A j \in 1 .. n : p.out[p.frag + j] = <<"d", WRec, (p.len - n + 1) + j - 1>>
      BY <1>6 DEF Filling
    <3>2. p.len - n + 1 = x.len + 1
      BY <1>2, <1>6
    <3>3. QED
      BY <1>6, <1>8, <1>9, <3>1, <3>2
  <2>5. w'.frag <= Len(w'.out) /\ n <= w'.len /\ w'.len <= MaxLen
    <3>1. Len(w'.out) = n /\ w'.frag = 0 /\ w'.len = x.len + n
      BY <1>6, <1>8
    <3>2. QED
      BY <1>2, <3>1
  <2>6. IF w'.frag_sent THEN w'.frag = 0 ELSE n = w'.len
    BY <1>8
  <2>7. QED
    BY <1>9, <2>1, <2>2, <2>3, <2>4, <2>5, <2>6 DEF WriterOK
<1>12. Stream' = Stream \o F
  BY <1>3, <1>8, SendStream
<1>13. Adding(Stream, F, sizes, sizes', WRec, WFrom, WRec', WFrom', FragLen(x), FALSE)
  <2>1. x.len - FragLen(x) + 1 = WFrom /\ WFrom' = WFrom + FragLen(x) /\ WFrom' \in Nat
    <3> DEFINE a == x.len
               b == FragLen(x)
               c == w.len
               d == FragLen(w)
    <3>1. a \in Nat /\ b \in Nat /\ c \in Nat /\ d \in Nat /\ a - b = c - d /\ WFrom = c - d + 1 /\ WFrom' = a + 1
      BY <1>1, <1>2, <1>9
    <3> HIDE DEF a, b, c, d
    <3>2. a - b + 1 = WFrom /\ WFrom' = WFrom + b /\ WFrom' \in Nat
      BY <3>1
    <3>3. QED
      BY <3>2 DEF a, b
  <2>2. Longer(sizes', sizes)
    BY <1>1 DEF Longer
  <2>3. Advanced0(sizes', FragLen(x), FALSE, WRec, WFrom, WRec', WFrom')
    BY <1>9, <2>1 DEF Advanced0
  <2>4. Fragment(F, FragLen(x), FALSE, WRec, WFrom)
    BY <1>3, <2>1
  <2>5. Stream \in Seq(Byte) /\ F \in Seq(Byte)
    BY <1>3, StreamParts DEF XInv
  <2>6. Unit \in Nat \ {0} /\ SendSize \in Nat
    BY Sizes0
  <2>7. sizes' \in Seq(Nat) /\ WRec' \in Nat /\ FALSE \in BOOLEAN
    BY <1>1, <1>9
  <2> HIDE DEF F
  <2>8. QED
    BY <1>1, <1>2, <2>1, <2>2, <2>3, <2>4, <2>5, <2>6, <2>7 DEF Adding
<1> HIDE DEF F
<1>14. QED
  BY <1>10, <1>11, <1>12, <1>13, ShipKeeps

LEMMA PutBytesKeeps ==
  ASSUME XInv, NEW n \in 1 .. Unit + 1, PutBytes(n)
  PROVE  XInv'
<1> DEFINE fits == IF n < SendSize - Finger(w) THEN n ELSE SendSize - Finger(w)
           full == Put(w, fits)
<1>1. /\ Filling(w) /\ w.frag \in Nat /\ w.len \in Nat /\ Len(w.out) \in Nat /\ FragLen(w) \in Nat
      /\ sizes \in Seq(Nat) /\ FragLen(w) = Len(w.out) - w.frag
  BY WriterFills
<1>2. Finger(w) = Len(w.out) + Unit /\ Finger(w) <= SendSize /\ w.frag + 2 * Unit <= SendSize
  BY DEF Finger, XInv, WriterOK
<1>3. fits \in Nat /\ fits <= n /\ Finger(w) + fits <= SendSize /\ n - fits \in Nat
  <2> DEFINE a == Finger(w)
             c == SendSize
  <2>1. a \in Nat /\ c \in Nat /\ a <= c /\ n \in Nat /\ fits = IF n < c - a THEN n ELSE c - a
    BY <1>1, <1>2, Sizes0
  <2> HIDE DEF a, c, fits
  <2>2. fits \in Nat /\ fits <= n /\ a + fits <= c /\ n - fits \in Nat
    BY <2>1
  <2>3. QED
    BY <2>2 DEF a, c
<1>4. /\ w.len + n <= MaxLen
      /\ IF Finger(full) < SendSize THEN w' = full /\ UNCHANGED wire
         ELSE /\ wire' = wire \o Marked(full, FALSE)
              /\ w' = Begun(full, n - fits)
      /\ UNCHANGED <<r, sizes, shipped>>
  BY DEF PutBytes, Begun
<1> HIDE DEF fits
<1>5. /\ Filling(full) /\ Len(full.out) = Len(w.out) + fits /\ full.frag = w.frag
      /\ full.len = w.len + fits /\ SubSeq(full.out, 1, w.frag) = SubSeq(w.out, 1, w.frag)
      /\ FragLen(full) = FragLen(w) + fits
  BY <1>1, <1>3, PutFills
<1>6. Finger(full) = Finger(w) + fits /\ Finger(full) <= SendSize
  <2>1. Finger(full) = (Len(w.out) + fits) + Unit
    BY <1>5 DEF Finger
  <2>2. QED
    BY <1>1, <1>2, <1>3, <2>1, Sizes0
<1>7. CASE Finger(full) < SendSize
  <2>1. w.len + fits <= MaxLen
    BY <1>1, <1>3, <1>4, XdrRecAssumption
  <2>2. QED
    BY <1>3, <1>4, <1>7, <2>1, PutKeeps
<1>8. CASE ~(Finger(full) < SendSize)
  <2>1. /\ full.len - FragLen(full) = w.len - FragLen(w) /\ full.len + (n - fits) <= MaxLen
        /\ FragLen(full) > 0 /\ (n - fits) + Unit <= SendSize
    <3>1. full.len - FragLen(full) = w.len - FragLen(w)
      BY <1>1, <1>3, <1>5, SMTT(30)
    <3>2. full.len + (n - fits) <= MaxLen
      BY <1>1, <1>3, <1>4, <1>5
    <3>3. (n - fits) + Unit <= SendSize
      BY <1>3, Sizes0
    <3>4. FragLen(full) > 0
      <4>1. Len(w.out) + Unit + fits = SendSize
        BY <1>1, <1>2, <1>3, <1>6, <1>8, Sizes0, SMTT(30)
      <4>2. FragLen(full) = Len(w.out) - w.frag + fits
        BY <1>1, <1>5
      <4>3. QED
        BY <1>1, <1>2, <1>3, <4>1, <4>2, Sizes0
    <3>5. QED
      BY <3>1, <3>2, <3>3, <3>4
  <2>2. /\ wire' = wire \o Marked(full, FALSE)
        /\ w' = Begun(full, n - fits)
        /\ UNCHANGED <<r, sizes, shipped>>
    BY <1>4, <1>8
  <2>3. SubSeq(full.out, 1, full.frag) = SubSeq(w.out, 1, w.frag)
    BY <1>5
  <2> HIDE DEF full
  <2>4. QED
    BY <1>3, <1>5, <1>6, <2>1, <2>2, <2>3, FlushKeeps
<1>9. QED
  BY <1>7, <1>8

LEMMA PutLongKeeps ==
  ASSUME XInv, PutLong
  PROVE  XInv'
<1>1. /\ Filling(w) /\ w.frag \in Nat /\ w.len \in Nat /\ Len(w.out) \in Nat /\ FragLen(w) \in Nat
      /\ sizes \in Seq(Nat) /\ FragLen(w) = Len(w.out) - w.frag
  BY WriterFills
<1>2. Finger(w) = Len(w.out) + Unit /\ Finger(w) <= SendSize /\ w.frag + 2 * Unit <= SendSize
  BY DEF Finger, XInv, WriterOK
<1>3. Unit \in Nat /\ w.len + Unit <= MaxLen
  BY Sizes0 DEF PutLong
<1>4. CASE Finger(w) + Unit <= SendSize
  BY <1>3, <1>4, PutKeeps DEF PutLong
<1>5. CASE ~(Finger(w) + Unit <= SendSize)
  <2>1. FragLen(w) > 0 /\ Unit + Unit <= SendSize
    BY <1>1, <1>2, <1>5, Sizes0
  <2>2. /\ wire' = wire \o Marked(w, FALSE)
        /\ w' = Begun(w, Unit)
        /\ UNCHANGED <<r, sizes, shipped>>
    BY <1>5 DEF PutLong, Begun
  <2>3. QED
    BY <1>1, <1>2, <1>3, <2>1, <2>2, FlushKeeps
<1>6. QED
  BY <1>4, <1>5

(* The end of a record: its size is known, and the last fragment is        *)
(* complete.                                                               *)
LEMMA EndAdds ==
  ASSUME XInv, sizes' = Append(sizes, w.len), w'.len = 0, FragLen(w)' = 0
  PROVE  /\ Marked(w, TRUE) = SubSeq(w.out, 1, w.frag) \o Out(w, TRUE)
         /\ Marked(w, TRUE) \in Seq(Byte) /\ Len(Marked(w, TRUE)) = Len(w.out) + Unit
         /\ Out(w, TRUE) \in Seq(Byte) /\ sizes' \in Seq(Nat) /\ Len(sizes') = Len(sizes) + 1
         /\ WFrom' = 1
         /\ Adding(Stream, Out(w, TRUE), sizes, sizes', WRec, WFrom, WRec', WFrom', FragLen(w), TRUE)
<1>1. /\ Filling(w) /\ w.frag \in Nat /\ w.len \in Nat /\ Len(w.out) \in Nat /\ FragLen(w) \in Nat
      /\ FragLen(w) = Len(w.out) - w.frag /\ sizes \in Seq(Nat)
      /\ WRec \in Nat /\ WRec > 0 /\ WFrom \in Nat /\ WFrom = w.len - FragLen(w) + 1
  BY WriterFills
<1>2. Unit \in Nat \ {0} /\ SendSize \in Nat /\ TRUE \in BOOLEAN
  BY Sizes0
<1>3. FragLen(w) <= SendSize /\ (FragLen(w) = 0 => TRUE)
  <2>1. Len(w.out) + Unit <= SendSize
    BY DEF XInv, WriterOK, Finger
  <2>2. QED
    BY <1>1, <1>2, <2>1
<1>4. /\ Marked(w, TRUE) = SubSeq(w.out, 1, w.frag) \o Out(w, TRUE)
      /\ Marked(w, TRUE) \in Seq(Byte) /\ Len(Marked(w, TRUE)) = Len(w.out) + Unit
      /\ Out(w, TRUE) \in Seq(Byte)
      /\ Fragment(Out(w, TRUE), FragLen(w), TRUE, WRec, w.len - FragLen(w) + 1)
  BY <1>1, <1>2, <1>3, MarkedIs
<1>5. /\ sizes' \in Seq(Nat) /\ Len(sizes') = Len(sizes) + 1 /\ sizes'[Len(sizes) + 1] = w.len
      /\ \A j \in 1 .. Len(sizes) : sizes'[j] = sizes[j]
  BY <1>1, AppendProperties
<1>6. WFrom' = 1 /\ WRec' = WRec + 1
  BY <1>1, <1>5 DEF WFrom, WRec
<1>7. Longer(sizes', sizes)
  BY <1>1, <1>5 DEF Longer
<1>8. Advanced0(sizes', FragLen(w), TRUE, WRec, WFrom, WRec', WFrom')
  <2>1. WRec = Len(sizes) + 1 /\ Len(sizes) \in Nat
    BY <1>1 DEF WRec
  <2>2. WFrom + FragLen(w) - 1 = w.len
    BY <1>1, SMTT(30)
  <2>3. WRec <= Len(sizes') /\ sizes'[WRec] = w.len
    BY <1>5, <2>1
  <2>4. QED
    BY <1>6, <2>2, <2>3 DEF Advanced0
<1>9. Fragment(Out(w, TRUE), FragLen(w), TRUE, WRec, WFrom)
  BY <1>1, <1>4
<1>10. Stream \in Seq(Byte)
  BY StreamParts DEF XInv
<1>11. WRec' \in Nat /\ WFrom' \in Nat
  BY <1>1, <1>6
<1>12. Adding(Stream, Out(w, TRUE), sizes, sizes', WRec, WFrom, WRec', WFrom', FragLen(w), TRUE)
  BY <1>1, <1>2, <1>4, <1>5, <1>7, <1>8, <1>9, <1>10, <1>11 DEF Adding
<1>13. QED
  BY <1>4, <1>5, <1>6, <1>12

(* xdrrec_endofrecord sends what it has. *)
StreamEnded(x) == [Flushed(x) EXCEPT !.frag_sent = FALSE, !.len = 0]

LEMMA EndSends ==
  ASSUME XInv, sizes' = Append(sizes, w.len), wire' = wire \o Marked(w, TRUE), w' = StreamEnded(w),
         shipped' = Len(sizes'), r' = r
  PROVE  XInv'
<1>1. w \in Writer /\ w.len \in Nat
  BY DEF XInv, Types, Writer
<1>2. w' = [out |-> <<>>, frag |-> 0, frag_sent |-> FALSE, len |-> 0]
  <2> DEFINE f == Flushed(w)
  <2>1. f = [out |-> <<>>, frag |-> 0, frag_sent |-> w.frag_sent, len |-> w.len]
    BY <1>1, FlushedIs
  <2>2. w' = [f EXCEPT !.frag_sent = FALSE, !.len = 0]
    BY DEF StreamEnded
  <2> HIDE DEF f
  <2>3. QED
    BY <2>1, <2>2
<1>3. w' \in Writer /\ w'.out = <<>> /\ w'.frag = 0 /\ w'.frag_sent = FALSE /\ w'.len = 0 /\ Len(w'.out) = 0
  <2>1. <<>> \in Seq(Byte) /\ 0 \in Nat /\ FALSE \in BOOLEAN
    OBVIOUS
  <2>2. QED
    BY <1>2, <2>1 DEF Writer
<1>4. FragLen(w)' = 0
  BY <1>3 DEF FragLen
<1>5. /\ Marked(w, TRUE) = SubSeq(w.out, 1, w.frag) \o Out(w, TRUE)
      /\ Marked(w, TRUE) \in Seq(Byte) /\ Out(w, TRUE) \in Seq(Byte) /\ sizes' \in Seq(Nat)
      /\ Adding(Stream, Out(w, TRUE), sizes, sizes', WRec, WFrom, WRec', WFrom', FragLen(w), TRUE)
  BY <1>3, <1>4, EndAdds
<1>6. Types'
  <2>1. wire' \in Seq(Byte)
    <3>1. wire \in Seq(Byte)
      BY DEF XInv, Types
    <3>2. QED
      BY <1>5, <3>1, ConcatProperties, Zenon
  <2>2. Len(sizes') \in Nat
    BY <1>5
  <2>3. r' \in ReaderRec
    BY DEF XInv, Types
  <2>4. shipped' \in Nat /\ shipped' <= Len(sizes')
    BY <2>2
  <2>5. QED
    BY <1>3, <1>5, <2>1, <2>3, <2>4 DEF Types
<1>7. WriterOK'
  <2>1. 0 <= MaxLen /\ 0 = 0 * Unit /\ Unit <= SendSize /\ 2 * Unit <= SendSize
    BY Sizes0, XdrRecAssumption
  <2>2. Finger(w)' = Unit
    BY <1>3, Sizes0 DEF Finger
  <2>3. 0 + 2 * Unit <= SendSize /\ \E n \in Nat : 0 = n * Unit
    BY <2>1, Sizes0
  <2>4. QED
    BY <1>3, <1>4, <2>1, <2>2, <2>3 DEF WriterOK
<1>8. Stream' = Stream \o Out(w, TRUE)
  BY <1>3, <1>5, SendStream
<1>9. QED
  BY <1>5, <1>6, <1>7, <1>8, ShipKeeps

(* There is room for a next record in the buffer. *)
Multiple(x, n, u) == x = n * u

LEMMA Room ==
  ASSUME NEW u \in Nat, u > 0, NEW n \in Nat, NEW m \in Nat, NEW x, NEW y,
         Multiple(x, n, u), Multiple(y, m, u), x + 2 * u < y
  PROVE  x + 3 * u <= y
<1>0. x = n * u /\ y = m * u
  BY DEF Multiple
<1>1. (n + 2) * u < m * u
  BY <1>0
<1>2. n + 2 < m
  <2>1. ASSUME m <= n + 2 PROVE FALSE
    <3>1. m * u <= (n + 2) * u
      BY <2>1
    <3>2. QED
      BY <1>1, <3>1
  <2>2. QED
    BY <2>1
<1>3. n + 3 <= m
  BY <1>2
<1>4. (n + 3) * u <= m * u
  BY <1>3
<1>5. QED
  BY <1>0, <1>4

LEMMA Divides ==
  ASSUME NEW a \in Nat, NEW u \in Nat, u > 0, a % u = 0
  PROVE  \E n \in Nat : a = n * u
<1>1. a = u * (a \div u) + (a % u)
  OBVIOUS
<1>2. a \div u \in Nat
  OBVIOUS
<1>3. u * (a \div u) = (a \div u) * u
  BY <1>2
<1>4. QED
  BY <1>1, <1>2, <1>3

(* A batched record stays in the buffer. *)
Batched(x) == [x EXCEPT !.out = Marked(x, TRUE), !.frag = Len(x.out) + Unit, !.len = 0]

LEMMA EndBatches ==
  ASSUME XInv, sizes' = Append(sizes, w.len), w' = Batched(w), ~w.frag_sent, w.len % Unit = 0,
         Finger(w) + Unit < SendSize, UNCHANGED <<wire, shipped, r>>
  PROVE  XInv'
<1>1. w \in Writer /\ w.len \in Nat /\ Len(w.out) \in Nat /\ w.frag \in Nat /\ w.frag <= Len(w.out)
      /\ FragLen(w) = w.len /\ FragLen(w) = Len(w.out) - w.frag
  <2>1. w \in Writer
    BY DEF XInv, Types
  <2>2. w.len \in Nat /\ Len(w.out) \in Nat /\ w.frag \in Nat
    BY <2>1 DEF Writer
  <2>3. w.frag <= Len(w.out) /\ FragLen(w) = w.len /\ FragLen(w) = Len(w.out) - w.frag
    BY DEF XInv, WriterOK, FragLen
  <2>4. QED
    BY <2>1, <2>2, <2>3
<1> DEFINE M == Marked(w, TRUE)
           k == Len(w.out) + Unit
<1>2. w' = [out |-> M, frag |-> k, frag_sent |-> w.frag_sent, len |-> 0]
  <2>1. w' = [w EXCEPT !.out = M, !.frag = k, !.len = 0]
    BY DEF Batched
  <2> HIDE DEF M, k
  <2>2. QED
    BY <1>1, <2>1 DEF Writer
<1>3. w'.out = M /\ w'.frag = k /\ w'.frag_sent = w.frag_sent /\ w'.len = 0 /\ k \in Nat
  BY <1>1, <1>2, Sizes0
<1>4. sizes' \in Seq(Nat) /\ Len(M) = k
  <2>1. sizes \in Seq(Nat)
    BY DEF XInv, Types
  <2>2. sizes' \in Seq(Nat)
    BY <1>1, <2>1, AppendProperties
  <2>3. Filling(w) /\ FragLen(w) <= SendSize /\ TRUE \in BOOLEAN /\ (FragLen(w) = 0 => TRUE)
    <3>1. Len(w.out) + Unit <= SendSize
      BY DEF XInv, WriterOK, Finger
    <3>2. Filling(w)
      BY WriterFills
    <3>3. QED
      BY <1>1, <3>1, <3>2, Sizes0
  <2>4. QED
    BY <2>1, <2>2, <2>3, MarkedIs
<1>5. FragLen(w)' = 0
  <2>1. FragLen(w)' = Len(w'.out) - w'.frag
    BY DEF FragLen
  <2>2. Len(w'.out) = k /\ w'.frag = k /\ k \in Nat
    BY <1>3, <1>4
  <2> HIDE DEF k
  <2>3. QED
    BY <2>1, <2>2
<1>6. /\ M = SubSeq(w.out, 1, w.frag) \o Out(w, TRUE)
      /\ M \in Seq(Byte) /\ Len(M) = k /\ Out(w, TRUE) \in Seq(Byte) /\ Len(sizes') = Len(sizes) + 1
      /\ Adding(Stream, Out(w, TRUE), sizes, sizes', WRec, WFrom, WRec', WFrom', FragLen(w), TRUE)
  BY <1>3, <1>5, EndAdds
<1>7. Types'
  <2>1. w' \in Writer
    <3>1. w.frag_sent \in BOOLEAN /\ 0 \in Nat
      BY <1>1 DEF Writer
    <3> HIDE DEF M, k
    <3>2. QED
      BY <1>2, <1>3, <1>6, <3>1 DEF Writer
  <2>2. r' \in ReaderRec /\ wire' \in Seq(Byte) /\ shipped' \in Nat
    BY DEF XInv, Types
  <2>3. shipped' <= Len(sizes')
    <3>1. shipped \in Nat /\ Len(sizes) \in Nat /\ shipped <= Len(sizes)
      BY DEF XInv, Types
    <3>2. QED
      BY <1>6, <3>1
  <2>4. QED
    BY <1>4, <2>1, <2>2, <2>3 DEF Types
<1>8. (\E n \in Nat : k = n * Unit) /\ k + 2 * Unit <= SendSize
  <2>1. PICK a \in Nat : w.frag = a * Unit
    BY DEF XInv, WriterOK
  <2>2. PICK b \in Nat : w.len = b * Unit
    <3> DEFINE l == w.len
    <3>1. l \in Nat /\ Unit \in Nat /\ Unit > 0 /\ l % Unit = 0
      BY <1>1, Sizes0
    <3> HIDE DEF l
    <3>2. \E n \in Nat : l = n * Unit
      BY <3>1, Divides
    <3>3. QED
      BY <3>2 DEF l
  <2>3. PICK m \in Nat : SendSize = m * Unit
    BY Sizes0
  <2>4. Len(w.out) = (a + b) * Unit /\ a + b \in Nat
    <3>1. Len(w.out) = w.frag + w.len
      BY <1>1
    <3>2. QED
      BY <2>1, <2>2, <3>1, Sizes0
  <2> DEFINE c == a + b
  <2>5. Len(w.out) = c * Unit /\ c \in Nat
    BY <2>4
  <2> HIDE DEF c
  <2>6. c * Unit + 2 * Unit < m * Unit
    <3>1. Len(w.out) + Unit + Unit < SendSize
      BY DEF Finger
    <3>2. QED
      BY <1>1, <2>3, <2>5, <3>1, Sizes0
  <2>7. c * Unit + 3 * Unit <= m * Unit
    <3> DEFINE x == c * Unit
               y == m * Unit
    <3>1. Multiple(x, c, Unit) /\ Multiple(y, m, Unit)
      BY DEF Multiple
    <3>2. Unit \in Nat /\ Unit > 0 /\ x + 2 * Unit < y
      BY <2>6, Sizes0
    <3> HIDE DEF x, y
    <3>3. x + 3 * Unit <= y
      BY <2>5, <3>1, <3>2, Room
    <3>4. QED
      BY <3>3 DEF x, y
  <2>8. k = (c + 1) * Unit /\ c + 1 \in Nat
    BY <2>5, Sizes0
  <2>9. k + 2 * Unit <= SendSize
    <3>1. k + 2 * Unit = c * Unit + 3 * Unit
      BY <2>5, Sizes0
    <3>2. QED
      BY <2>3, <2>7, <3>1
  <2>10. QED
    BY <2>8, <2>9
<1>9. WriterOK'
  <2>1. 0 <= MaxLen
    BY XdrRecAssumption
  <2>2. Finger(w)' <= SendSize
    <3>1. Finger(w)' = k + Unit
      BY <1>3, <1>6 DEF Finger
    <3>2. QED
      <4> HIDE DEF k
      <4>1. k \in Nat /\ k + 2 * Unit <= SendSize /\ Unit \in Nat /\ SendSize \in Nat
        BY <1>3, <1>8, Sizes0
      <4>2. QED
        BY <3>1, <4>1
  <2> HIDE DEF k, M
  <2>3. w'.frag <= Len(w'.out) /\ 0 <= w'.len /\ w'.len <= MaxLen /\ w'.frag + 2 * Unit <= SendSize
    <3>1. w'.frag = k /\ Len(w'.out) = k /\ w'.len = 0 /\ k \in Nat /\ k + 2 * Unit <= SendSize
      BY <1>3, <1>6, <1>8
    <3>2. k <= k /\ 0 <= 0
      BY <3>1
    <3>3. QED
      BY <2>1, <3>1, <3>2
  <2>4. \E n \in Nat : w'.frag = n * Unit
    BY <1>3, <1>8
  <2>5. IF w'.frag_sent THEN w'.frag = 0 ELSE 0 = w'.len
    BY <1>3
  <2>6. QED
    BY <1>5, <2>2, <2>3, <2>4, <2>5 DEF WriterOK
<1>10. Stream' = Stream \o Out(w, TRUE)
  <2> DEFINE A == r.header \o r.buf
             O == SubSeq(w.out, 1, w.frag)
             F == Out(w, TRUE)
  <2>1. SubSeq(w'.out, 1, w'.frag) = M
    <3>1. SubSeq(M, 1, Len(M)) = M
      BY <1>6, SubSeqFull
    <3>2. QED
      BY <1>3, <1>6, <3>1
  <2>2. Stream' = (A \o wire) \o M /\ Stream = (A \o wire) \o O /\ M = O \o F
    BY <1>6, <2>1 DEF Stream
  <2>3. A \o wire \in Seq(Byte) /\ O \in Seq(Byte) /\ F \in Seq(Byte)
    BY <1>6, StreamParts DEF XInv
  <2> DEFINE B == A \o wire
  <2> HIDE DEF A, O, F, M
  <2>4. B \in Seq(Byte) /\ Stream' = B \o (O \o F) /\ Stream = B \o O
    BY <2>2, <2>3
  <2> HIDE DEF B
  <2>5. B \o (O \o F) = (B \o O) \o F
    <3>1. Regrouped3(B, O, F)
      BY <2>3, <2>4, ConcatRegroups
    <3>2. QED
      BY <3>1, Zenon DEF Regrouped3
  <2>6. QED
    BY <2>4, <2>5, Zenon DEF F
<1>11. QED
  BY <1>6, <1>7, <1>9, <1>10, ShipKeeps

LEMMA EndOfRecordKeeps ==
  ASSUME XInv, NEW sendnow \in BOOLEAN, EndOfRecord(sendnow)
  PROVE  XInv'
<1>1. CASE sendnow \/ w.frag_sent \/ Finger(w) + Unit >= SendSize
  BY <1>1, EndSends DEF EndOfRecord, StreamEnded
<1>2. CASE ~(sendnow \/ w.frag_sent \/ Finger(w) + Unit >= SendSize)
  <2>1. Finger(w) + Unit < SendSize
    <3>1. Len(w.out) \in Nat
      BY WriterFills
    <3>2. QED
      BY <1>2, <3>1, Sizes0 DEF Finger
  <2>2. QED
    BY <1>2, <2>1, EndBatches DEF EndOfRecord, Batched
<1>3. QED
  BY <1>1, <1>2

-----------------------------------------------------------------------------
(* The reader's steps.                                                     *)

LEMMA ReaderFields ==
  ASSUME Types
  PROVE  /\ r.buf \in Seq(Byte) /\ r.header \in Seq(Byte) /\ r.align \in Nat /\ r.fbtbc \in Nat
         /\ r.left \in Nat /\ r.size \in Nat /\ r.piece \in Nat /\ r.rec \in Nat /\ r.got \in Nat
         /\ r.last_frag \in BOOLEAN /\ r.failed \in BOOLEAN /\ r.sync \in BOOLEAN
         /\ r.op \in {"idle", "ready", "get", "skip", "eof", "dead"}
         /\ r.phase \in {"top", "piece", "header"}
BY DEF Types, ReaderRec

(* The reader moves on in a stream of which it takes nothing. *)
LEMMA ReaderMoves ==
  ASSUME XInv, UNCHANGED <<w, sizes, shipped>>, wire' \in Seq(Byte), r' \in ReaderRec, ReaderOK',
         Stream' = Stream, InPlace'
  PROVE  XInv'
<1>1. WRec' = WRec /\ WFrom' = WFrom
  BY DEF WRec, WFrom, FragLen
<1>2. WriterOK'
  BY <1>1 DEF XInv, WriterOK, FragLen, Finger
<1>3. Types'
  BY DEF XInv, Types
<1>4. Framed(Stream', sizes', WRec', WFrom')
  BY <1>1 DEF XInv
<1>5. QED
  BY <1>2, <1>3, <1>4 DEF XInv

(* The reader takes the bytes a from the stream. *)
LEMMA ReaderTakes ==
  ASSUME XInv, UNCHANGED <<w, sizes, shipped>>, wire' \in Seq(Byte), r' \in ReaderRec, ReaderOK',
         NEW a \in Seq(Byte), Stream = a \o Stream', Stream' \in Seq(Byte), InPlace'
  PROVE  XInv'
<1>1. WRec' = WRec /\ WFrom' = WFrom
  BY DEF WRec, WFrom, FragLen
<1>2. WriterOK'
  BY <1>1 DEF XInv, WriterOK, FragLen, Finger
<1>3. Types'
  BY DEF XInv, Types
<1>4. Framed(Stream', sizes', WRec', WFrom')
  <2> DEFINE b == Stream'
  <2>1. Framed(a \o b, sizes, WRec, WFrom) /\ b \in Seq(Byte)
    BY DEF XInv
  <2>2. Unit \in Nat \ {0} /\ SendSize \in Nat
    BY Sizes0
  <2> HIDE DEF b
  <2>3. Framed(b, sizes, WRec, WFrom)
    BY <2>1, <2>2, FramedBehind
  <2>4. QED
    BY <1>1, <2>3 DEF b
<1>5. QED
  BY <1>2, <1>3, <1>4 DEF XInv

(* A sequence is its first n elements and the others. *)
Split(s, n) ==
  /\ SubSeq(s, 1, n) \in Seq(Byte) /\ SubSeq(s, n + 1, Len(s)) \in Seq(Byte)
  /\ SubSeq(s, 1, n) \o SubSeq(s, n + 1, Len(s)) = s
  /\ Len(SubSeq(s, 1, n)) = n /\ Len(SubSeq(s, n + 1, Len(s))) = Len(s) - n
  /\ \A i \in 1 .. n : SubSeq(s, 1, n)[i] = s[i]

LEMMA Splits ==
  ASSUME NEW s \in Seq(Byte), NEW n \in 0 .. Len(s)
  PROVE  Split(s, n)
<1>1. Len(s) \in Nat /\ n \in Nat /\ n <= Len(s)
  OBVIOUS
<1>2. \A i \in 1 .. Len(s) : s[i] \in Byte
  BY ElementOfSeq
<1>3. /\ SubSeq(s, 1, n) \in Seq(Byte) /\ Len(SubSeq(s, 1, n)) = n
      /\ \A i \in 1 .. n : SubSeq(s, 1, n)[i] = s[i]
  <2>1. \A i \in 1 .. n : s[i] \in Byte
    BY <1>1, <1>2
  <2>2. 1 \in Int /\ n \in Int
    BY <1>1
  <2>3. /\ SubSeq(s, 1, n) \in Seq(Byte) /\ Len(SubSeq(s, 1, n)) = IF 1 <= n THEN n - 1 + 1 ELSE 0
        /\ \A i \in 1 .. n - 1 + 1 : SubSeq(s, 1, n)[i] = s[1 + i - 1]
    BY <2>1, <2>2, SubSeqProperties
  <2>4. n - 1 + 1 = n /\ \A i \in 1 .. n : 1 + i - 1 = i
    BY <1>1
  <2>5. Len(SubSeq(s, 1, n)) = n
    BY <1>1, <2>3
  <2>6. QED
    BY <2>3, <2>4, <2>5
<1>4. SubSeq(s, n + 1, Len(s)) \in Seq(Byte) /\ Len(SubSeq(s, n + 1, Len(s))) = Len(s) - n
  <2>1. \A i \in n + 1 .. Len(s) : s[i] \in Byte
    BY <1>1, <1>2
  <2>2. n + 1 \in Int /\ Len(s) \in Int
    BY <1>1
  <2>3. /\ SubSeq(s, n + 1, Len(s)) \in Seq(Byte)
        /\ Len(SubSeq(s, n + 1, Len(s))) = IF n + 1 <= Len(s) THEN Len(s) - (n + 1) + 1 ELSE 0
    BY <2>1, <2>2, SubSeqProperties
  <2>4. QED
    BY <1>1, <2>3
<1>5. SubSeq(s, 1, n) \o SubSeq(s, n + 1, Len(s)) = s
  <2>1. 1 \in 1 .. Len(s) + 1 /\ n \in 1 - 1 .. Len(s) /\ Len(s) \in n .. Len(s)
    BY <1>1
  <2>2. SubSeq(s, 1, n) \o SubSeq(s, n + 1, Len(s)) = SubSeq(s, 1, Len(s))
    BY <2>1, ConcatAdjacentSubSeq
  <2>3. SubSeq(s, 1, Len(s)) = s
    BY SubSeqFull
  <2>4. QED
    BY <2>2, <2>3
<1>6. QED
  BY <1>3, <1>4, <1>5 DEF Split

(* The reader is where the stream says it is, at byte i. *)
PlaceOf(x, i) == x.op \in {"get", "ready"} => i = x.got + 1

LEMMA Placed ==
  ASSUME XInv, r.op # "dead"
  PROVE  \E i \in Nat : PlaceOf(r, i) /\ Rest(Stream, sizes, WRec, WFrom, 1, FragRest, r.last_frag, r.rec, i)
BY DEF XInv, InPlace, PlaceOf

(* A step of the loops that reads nothing. *)
LEMMA StandsStill ==
  ASSUME XInv, UNCHANGED <<w, wire, sizes, shipped>>, r' \in ReaderRec, ReaderOK',
         r'.header = r.header, r'.buf = r.buf, NEW i \in Nat, PlaceOf(r', i),
         Rest(Stream, sizes, WRec, WFrom, 1, FragRest', r'.last_frag, r'.rec, i)
  PROVE  XInv'
<1>1. Stream' = Stream
  BY DEF Stream
<1>2. WRec' = WRec /\ WFrom' = WFrom
  BY DEF WRec, WFrom, FragLen
<1>3. InPlace'
  BY <1>1, <1>2 DEF InPlace, PlaceOf
<1>4. wire' \in Seq(Byte)
  BY DEF XInv, Types
<1>5. QED
  BY <1>1, <1>3, <1>4, ReaderMoves

(* What such a step leaves alone. *)
SameFields(x, y) ==
  /\ y.buf = x.buf /\ y.header = x.header /\ y.align = x.align /\ y.fbtbc = x.fbtbc /\ y.sync = x.sync

LEMMA GetKeeps ==
  ASSUME XInv, NEW n \in Nat, Get(n)
  PROVE  XInv'
<1>1. r \in ReaderRec /\ r.op = "ready" /\ UNCHANGED <<w, wire, sizes, shipped>>
  BY DEF XInv, Types, Get, Reader
<1>2. r' = [r EXCEPT !.op = "get", !.left = n]
  BY DEF Get, Reader
<1>3. r' \in ReaderRec
  BY <1>1, <1>2 DEF ReaderRec
<1>4. /\ SameFields(r, r') /\ r'.op = "get" /\ r'.left = n /\ r'.phase = r.phase /\ r'.size = r.size
      /\ r'.piece = r.piece /\ r'.rec = r.rec /\ r'.got = r.got /\ r'.failed = r.failed
      /\ r'.last_frag = r.last_frag
  BY <1>1, <1>2 DEF ReaderRec, SameFields
<1>5. FragRest' = FragRest
  BY <1>4 DEF FragRest, SameFields
<1>6. ReaderOK'
  BY <1>1, <1>4 DEF XInv, ReaderOK, SameFields
<1>7. PICK i \in Nat : PlaceOf(r, i) /\ Rest(Stream, sizes, WRec, WFrom, 1, FragRest, r.last_frag, r.rec, i)
  BY <1>1, Placed
<1>8. PlaceOf(r', i)
  BY <1>1, <1>4, <1>7 DEF PlaceOf
<1>9. QED
  BY <1>1, <1>3, <1>4, <1>5, <1>6, <1>7, <1>8, StandsStill DEF SameFields

(* Steps that change op only. *)
LEMMA OpKeeps ==
  ASSUME XInv, NEW o \in {"idle", "skip", "eof"}, r.op # "dead", r.phase = "top", Reader([r EXCEPT !.op = o])
  PROVE  XInv'
<1>1. r \in ReaderRec /\ UNCHANGED <<w, wire, sizes, shipped>>
  BY DEF XInv, Types, Reader
<1>2. r' = [r EXCEPT !.op = o]
  BY DEF Reader
<1>3. r' \in ReaderRec
  BY <1>1, <1>2 DEF ReaderRec
<1>4. /\ SameFields(r, r') /\ r'.op = o /\ r'.left = r.left /\ r'.phase = r.phase /\ r'.size = r.size
      /\ r'.piece = r.piece /\ r'.rec = r.rec /\ r'.got = r.got /\ r'.failed = r.failed
      /\ r'.last_frag = r.last_frag
  BY <1>1, <1>2 DEF ReaderRec, SameFields
<1>5. FragRest' = FragRest
  BY <1>4 DEF FragRest, SameFields
<1>6. ReaderOK'
  BY <1>1, <1>4 DEF XInv, ReaderOK, SameFields
<1>7. PICK i \in Nat : PlaceOf(r, i) /\ Rest(Stream, sizes, WRec, WFrom, 1, FragRest, r.last_frag, r.rec, i)
  BY <1>1, Placed
<1>8. PlaceOf(r', i)
  BY <1>4 DEF PlaceOf
<1>9. QED
  BY <1>1, <1>3, <1>4, <1>5, <1>6, <1>7, <1>8, StandsStill DEF SameFields

LEMMA OtherKeeps ==
  ASSUME XInv, Readable \/ DecodingDone
  PROVE  XInv'
<1>1. r.op \in {"idle", "ready"}
  BY DEF Readable, DecodingDone
<1>2. r.phase = "top"
  BY <1>1, ReaderFields DEF XInv, ReaderOK
<1>3. \E o \in {"idle", "skip", "eof"} : Reader([r EXCEPT !.op = o])
  BY DEF Readable, DecodingDone
<1>4. QED
  BY <1>1, <1>2, <1>3, OpKeeps

(* A loop begins with a piece of the fragment. *)
LEMMA BeginKeeps ==
  ASSUME XInv, r.phase = "top", r.op \in {"get", "skip", "eof"}, NEW n \in Nat, n <= r.fbtbc,
         r.op = "get" => n <= r.left, Reader(Begin(n))
  PROVE  XInv'
<1>1. r \in ReaderRec /\ UNCHANGED <<w, wire, sizes, shipped>>
  BY DEF XInv, Types, Reader
<1>2. r' = [r EXCEPT !.phase = "piece", !.size = n, !.piece = n]
  BY DEF Reader, Begin
<1>3. r' \in ReaderRec
  BY <1>1, <1>2 DEF ReaderRec
<1>4. /\ SameFields(r, r') /\ r'.op = r.op /\ r'.left = r.left /\ r'.phase = "piece" /\ r'.size = n
      /\ r'.piece = n /\ r'.rec = r.rec /\ r'.got = r.got /\ r'.failed = r.failed
      /\ r'.last_frag = r.last_frag
  BY <1>1, <1>2 DEF ReaderRec, SameFields
<1>5. FragRest' = FragRest
  <2>1. FragRest' = r.fbtbc - (n - n) /\ FragRest = r.fbtbc
    BY <1>4 DEF FragRest, SameFields
  <2>2. r.fbtbc \in Nat
    BY ReaderFields DEF XInv
  <2>3. QED
    BY <2>1, <2>2
<1>6. ReaderOK'
  BY <1>1, <1>4 DEF XInv, ReaderOK, SameFields
<1>7. PICK i \in Nat : PlaceOf(r, i) /\ Rest(Stream, sizes, WRec, WFrom, 1, FragRest, r.last_frag, r.rec, i)
  BY <1>1, Placed
<1>8. PlaceOf(r', i)
  BY <1>4, <1>7 DEF PlaceOf
<1>9. QED
  BY <1>1, <1>3, <1>4, <1>5, <1>6, <1>7, <1>8, StandsStill DEF SameFields

(* A loop goes on to the next header. *)
LEMMA ToHeaderKeeps ==
  ASSUME XInv, r.phase = "top", r.op \in {"get", "skip", "eof"}, r.fbtbc = 0, ~r.last_frag,
         Reader([r EXCEPT !.phase = "header"])
  PROVE  XInv'
<1>1. r \in ReaderRec /\ UNCHANGED <<w, wire, sizes, shipped>>
  BY DEF XInv, Types, Reader
<1>2. r' = [r EXCEPT !.phase = "header"]
  BY DEF Reader
<1>3. r' \in ReaderRec
  BY <1>1, <1>2 DEF ReaderRec
<1>4. /\ SameFields(r, r') /\ r'.op = r.op /\ r'.left = r.left /\ r'.phase = "header" /\ r'.size = r.size
      /\ r'.piece = r.piece /\ r'.rec = r.rec /\ r'.got = r.got /\ r'.failed = r.failed
      /\ r'.last_frag = r.last_frag
  BY <1>1, <1>2 DEF ReaderRec, SameFields
<1>5. FragRest' = FragRest
  BY <1>4 DEF FragRest, SameFields
<1>6. ReaderOK'
  <2>1. r.header = <<>> /\ Len(r.header) < Unit
    <3>1. r.header = <<>>
      BY DEF XInv, ReaderOK
    <3>2. Len(<<>>) = 0
      OBVIOUS
    <3>3. QED
      BY <3>1, <3>2, Sizes0
  <2>2. QED
    BY <1>1, <1>4, <2>1 DEF XInv, ReaderOK, SameFields
<1>7. PICK i \in Nat : PlaceOf(r, i) /\ Rest(Stream, sizes, WRec, WFrom, 1, FragRest, r.last_frag, r.rec, i)
  BY <1>1, Placed
<1>8. PlaceOf(r', i)
  BY <1>4, <1>7 DEF PlaceOf
<1>9. QED
  BY <1>1, <1>3, <1>4, <1>5, <1>6, <1>7, <1>8, StandsStill DEF SameFields

LEMMA GetLoopKeeps ==
  ASSUME XInv, GetLoop
  PROVE  XInv'
<1>1. /\ r \in ReaderRec /\ r.op = "get" /\ r.phase = "top" /\ UNCHANGED <<w, wire, sizes, shipped>>
      /\ r.left \in Nat /\ r.fbtbc \in Nat /\ r.rec \in Nat /\ r.got \in Nat /\ r.rec > 0 /\ FragRest = r.fbtbc
  BY ReaderFields DEF XInv, Types, GetLoop, Reader, ReaderOK, FragRest
<1>2. PICK i \in Nat : PlaceOf(r, i) /\ Rest(Stream, sizes, WRec, WFrom, 1, FragRest, r.last_frag, r.rec, i)
  BY <1>1, Placed
<1>3. CASE r.left = 0
  <2>1. r' = [r EXCEPT !.op = "ready"]
    BY <1>3 DEF GetLoop, Reader
  <2>2. r' \in ReaderRec
    BY <1>1, <2>1 DEF ReaderRec
  <2>3. /\ SameFields(r, r') /\ r'.op = "ready" /\ r'.left = r.left /\ r'.phase = r.phase /\ r'.size = r.size
        /\ r'.piece = r.piece /\ r'.rec = r.rec /\ r'.got = r.got /\ r'.failed = r.failed
        /\ r'.last_frag = r.last_frag
    BY <1>1, <2>1 DEF ReaderRec, SameFields
  <2>4. FragRest' = FragRest
    BY <2>3 DEF FragRest, SameFields
  <2>5. ReaderOK'
    BY <1>1, <2>3 DEF XInv, ReaderOK, SameFields
  <2>6. PlaceOf(r', i)
    BY <1>1, <1>2, <2>3 DEF PlaceOf
  <2>7. QED
    BY <1>1, <1>2, <2>2, <2>3, <2>4, <2>5, <2>6, StandsStill DEF SameFields
<1>4. CASE r.left # 0 /\ r.fbtbc > 0
  <2> DEFINE n == IF r.left < r.fbtbc THEN r.left ELSE r.fbtbc
  <2>1. n \in Nat /\ n <= r.fbtbc /\ n <= r.left
    BY <1>1
  <2>2. Reader(Begin(n))
    BY <1>4 DEF GetLoop
  <2> HIDE DEF n
  <2>3. QED
    BY <1>1, <2>1, <2>2, BeginKeeps
<1>5. CASE r.left # 0 /\ ~(r.fbtbc > 0) /\ r.last_frag
  <2>1. r' = [r EXCEPT !.op = "eof", !.failed = TRUE]
    BY <1>5 DEF GetLoop, Reader
  <2>2. r' \in ReaderRec
    BY <1>1, <2>1 DEF ReaderRec
  <2>3. /\ SameFields(r, r') /\ r'.op = "eof" /\ r'.left = r.left /\ r'.phase = r.phase /\ r'.size = r.size
        /\ r'.piece = r.piece /\ r'.rec = r.rec /\ r'.got = r.got /\ r'.failed = TRUE
        /\ r'.last_frag = r.last_frag
    BY <1>1, <2>1 DEF ReaderRec, SameFields
  <2>4. FragRest' = FragRest
    BY <2>3 DEF FragRest, SameFields
  <2>5. r.rec <= Len(sizes) /\ r.got = sizes[r.rec]
    <3>1. r.last_frag => r.rec = 0 \/ (r.rec <= Len(sizes) /\ i + FragRest - 1 = sizes[r.rec])
      BY <1>2 DEF Rest
    <3>2. FragRest = 0 /\ i = r.got + 1
      BY <1>1, <1>2, <1>5 DEF PlaceOf
    <3>3. i + FragRest - 1 = r.got
      BY <1>1, <3>2
    <3>4. QED
      BY <1>1, <1>5, <3>1, <3>3
  <2>6. ReaderOK'
    BY <1>1, <2>3, <2>5 DEF XInv, ReaderOK, SameFields
  <2>7. PlaceOf(r', i)
    BY <2>3 DEF PlaceOf
  <2>8. QED
    BY <1>1, <1>2, <2>2, <2>3, <2>4, <2>6, <2>7, StandsStill DEF SameFields
<1>6. CASE r.left # 0 /\ ~(r.fbtbc > 0) /\ ~r.last_frag
  <2>1. r.fbtbc = 0
    BY <1>1, <1>6
  <2>2. Reader([r EXCEPT !.phase = "header"])
    BY <1>6 DEF GetLoop
  <2>3. QED
    BY <1>1, <1>6, <2>1, <2>2, ToHeaderKeeps
<1>7. QED
  BY <1>3, <1>4, <1>5, <1>6

(* skiprecord ends at the header of the next record. *)
LEMMA SkipEnds ==
  ASSUME XInv, r.op = "skip", r.phase = "top", r.fbtbc = 0, r.last_frag, UNCHANGED <<w, wire, sizes, shipped>>,
         r' = [r EXCEPT !.op = "ready", !.last_frag = FALSE, !.rec = r.rec + 1, !.got = 0, !.failed = FALSE]
  PROVE  XInv'
<1>1. r \in ReaderRec /\ r.rec \in Nat /\ FragRest = 0
  BY ReaderFields DEF XInv, Types, FragRest
<1>2. PICK i \in Nat : PlaceOf(r, i) /\ Rest(Stream, sizes, WRec, WFrom, 1, FragRest, r.last_frag, r.rec, i)
  BY Placed
<1>3. r.rec + 1 \in Nat /\ r.rec + 1 > 0
  BY <1>1
<1>4. /\ SameFields(r, r') /\ r'.op = "ready" /\ r'.left = r.left /\ r'.phase = r.phase /\ r'.size = r.size
      /\ r'.piece = r.piece /\ r'.rec = r.rec + 1 /\ r'.got = 0 /\ r'.failed = FALSE
      /\ r'.last_frag = FALSE
  BY <1>1 DEF ReaderRec, SameFields
<1>5. r' \in ReaderRec
  <2> DEFINE k == r.rec + 1
  <2>1. k \in Nat /\ r' = [r EXCEPT !.op = "ready", !.last_frag = FALSE, !.rec = k, !.got = 0, !.failed = FALSE]
    BY <1>3
  <2> HIDE DEF k
  <2>2. QED
    BY <1>1, <2>1, ZenonT(60) DEF ReaderRec
<1>6. FragRest' = 0
  BY <1>4 DEF FragRest, SameFields
<1>7. ReaderOK'
  BY <1>1, <1>3, <1>4 DEF XInv, ReaderOK, SameFields
<1>8. PlaceOf(r', 1)
  BY <1>4 DEF PlaceOf
<1>9. Rest(Stream, sizes, WRec, WFrom, 1, 0, FALSE, r.rec + 1, 1)
  <2>1. Follows(Stream, r.rec + 1, 1, WRec, WFrom, 1 + 0)
    BY <1>1, <1>2 DEF Rest
  <2>2. 1 + 0 - 1 <= Len(Stream)
    BY <1>1, <1>2 DEF Rest
  <2>3. \A j \in 1 .. 1 + 0 - 1 : FALSE
    OBVIOUS
  <2>4. QED
    BY <2>1, <2>2, <2>3 DEF Rest
<1>10. 1 \in Nat
  OBVIOUS
<1>11. QED
  BY <1>4, <1>5, <1>6, <1>7, <1>8, <1>9, <1>10, StandsStill DEF SameFields

LEMMA SkipLoopKeeps ==
  ASSUME XInv, SkipLoop
  PROVE  XInv'
<1>1. r.op \in {"skip", "eof"} /\ r.phase = "top" /\ r.fbtbc \in Nat
  BY ReaderFields DEF XInv, SkipLoop, Skipping
<1>2. CASE r.fbtbc > 0
  <2>1. Reader(Begin(r.fbtbc)) /\ r.fbtbc <= r.fbtbc /\ r.op # "get"
    BY <1>1, <1>2 DEF SkipLoop
  <2>2. QED
    BY <1>1, <2>1, BeginKeeps
<1>3. CASE ~(r.fbtbc > 0) /\ ~r.last_frag
  <2>1. r.fbtbc = 0 /\ Reader([r EXCEPT !.phase = "header"])
    BY <1>1, <1>3 DEF SkipLoop
  <2>2. QED
    BY <1>1, <1>3, <2>1, ToHeaderKeeps
<1>4. CASE ~(r.fbtbc > 0) /\ r.last_frag /\ r.op = "skip"
  <2>1. r.fbtbc = 0
    BY <1>1, <1>4
  <2>2. /\ r' = [r EXCEPT !.op = "ready", !.last_frag = FALSE, !.rec = r.rec + 1, !.got = 0, !.failed = FALSE]
        /\ UNCHANGED <<w, wire, sizes, shipped>>
    BY <1>4 DEF SkipLoop, Reader
  <2>3. QED
    BY <1>1, <1>4, <2>1, <2>2, SkipEnds
<1>5. CASE ~(r.fbtbc > 0) /\ r.last_frag /\ r.op = "eof"
  <2>1. Reader([r EXCEPT !.op = IF r.buf = <<>> THEN "idle" ELSE "skip"])
    BY <1>5 DEF SkipLoop
  <2>2. \E o \in {"idle", "skip", "eof"} : Reader([r EXCEPT !.op = o])
    BY <2>1
  <2>3. QED
    BY <1>1, <2>2, OpKeeps
<1>6. QED
  BY <1>1, <1>2, <1>3, <1>4, <1>5

(* How the stream falls into parts: the header read so far, the buffer and *)
(* the rest.                                                               *)
Parts(H, B, W, O) == ((H \o B) \o W) \o O

CutMoves(H, P, Q, W, O) == Parts(H, P \o Q, W, O) = Parts(H \o P, Q, W, O)
CutTakes(H, P, Q, W, O) == Parts(H, P \o Q, W, O) = (H \o P) \o Parts(<<>>, Q, W, O)
CutFills(H, P, Q, O) == Parts(H, <<>>, P \o Q, O) = Parts(H, P, Q, O)

LEMMA Cut ==
  ASSUME NEW H \in Seq(Byte), NEW P \in Seq(Byte), NEW Q \in Seq(Byte), NEW W \in Seq(Byte), NEW O \in Seq(Byte)
  PROVE  /\ CutMoves(H, P, Q, W, O) /\ CutTakes(H, P, Q, W, O) /\ CutFills(H, P, Q, O)
         /\ Parts(H, P, W, O) \in Seq(Byte)
<1>1. (H \o P) \o Q = H \o (P \o Q)
  OBVIOUS
<1>2. CutMoves(H, P, Q, W, O)
  BY <1>1, Zenon DEF CutMoves, Parts
<1>3. (((H \o P) \o Q) \o W) \o O = (H \o P) \o (((<<>> \o Q) \o W) \o O)
  <2> DEFINE G == H \o P
  <2>1. G \in Seq(Byte)
    OBVIOUS
  <2> HIDE DEF G
  <2>2. ((G \o Q) \o W) \o O = G \o ((Q \o W) \o O)
    BY <2>1, SMTT(30)
  <2>3. <<>> \o Q = Q
    OBVIOUS
  <2>4. ((G \o Q) \o W) \o O = G \o (((<<>> \o Q) \o W) \o O)
    BY <2>2, <2>3, Zenon
  <2>5. QED
    BY <2>4, Zenon DEF G
<1>4. CutTakes(H, P, Q, W, O)
  BY <1>1, <1>3, Zenon DEF CutTakes, Parts
<1>5. CutFills(H, P, Q, O)
  <2>1. H \o <<>> = H
    OBVIOUS
  <2>2. H \o (P \o Q) = (H \o P) \o Q
    BY SMTT(30)
  <2>3. QED
    BY <2>1, <2>2, Zenon DEF CutFills, Parts
<1>6. Parts(H, P, W, O) \in Seq(Byte)
  BY DEF Parts
<1>7. QED
  BY <1>2, <1>4, <1>5, <1>6

LEMMA FillKeeps ==
  ASSUME XInv, Fill
  PROVE  XInv'
<1> DEFINE O == SubSeq(w.out, 1, w.frag)
<1>1. PICK n \in 1 .. (IF Len(wire) < RecvSize - r.align THEN Len(wire) ELSE RecvSize - r.align) :
        /\ r' = [r EXCEPT !.buf = SubSeq(wire, 1, n), !.align = (r.align + n) % Unit]
        /\ wire' = SubSeq(wire, n + 1, Len(wire))
  BY DEF Fill
<1>2. /\ r \in ReaderRec /\ wire \in Seq(Byte) /\ UNCHANGED <<w, sizes, shipped>> /\ r.buf = <<>>
      /\ r.phase # "top" /\ r.align \in Nat /\ Len(wire) \in Nat /\ r.header \in Seq(Byte)
      /\ O \in Seq(Byte) /\ r.align < Unit
  <2>1. Types /\ WriterOK /\ ReaderOK
    BY DEF XInv
  <2>2. r \in ReaderRec /\ wire \in Seq(Byte) /\ Len(wire) \in Nat
    BY <2>1 DEF Types
  <2>3. r.buf = <<>> /\ r.phase # "top" /\ UNCHANGED <<w, sizes, shipped>>
    BY DEF Fill
  <2>4. r.align \in Nat /\ r.header \in Seq(Byte)
    BY <2>1, ReaderFields
  <2>5. O \in Seq(Byte)
    BY <2>1, StreamParts
  <2>6. r.align < Unit
    BY <2>1 DEF ReaderOK
  <2> HIDE DEF O
  <2>7. QED
    BY <2>2, <2>3, <2>4, <2>5, <2>6
<1>3. n \in 0 .. Len(wire) /\ n <= RecvSize /\ n \in Nat
  BY <1>2, Sizes0
<1>4. Split(wire, n)
  BY <1>2, <1>3, Splits
<1> DEFINE P == SubSeq(wire, 1, n)
           Q == SubSeq(wire, n + 1, Len(wire))
           a == (r.align + n) % Unit
<1>5. P \in Seq(Byte) /\ Q \in Seq(Byte) /\ P \o Q = wire /\ Len(P) = n
  BY <1>4 DEF Split
<1>6. a \in Nat /\ a < Unit
  <2>1. r.align + n \in Nat
    BY <1>2, <1>3
  <2>2. QED
    BY <2>1, Sizes0
<1>7. r' = [r EXCEPT !.buf = P, !.align = a] /\ wire' = Q
  BY <1>1
<1> HIDE DEF P, Q, a, O
<1>8. /\ r'.buf = P /\ r'.align = a /\ r'.header = r.header /\ r'.fbtbc = r.fbtbc /\ r'.sync = r.sync
      /\ r'.op = r.op /\ r'.left = r.left /\ r'.phase = r.phase /\ r'.size = r.size
      /\ r'.piece = r.piece /\ r'.rec = r.rec /\ r'.got = r.got /\ r'.failed = r.failed
      /\ r'.last_frag = r.last_frag
  BY <1>2, <1>7 DEF ReaderRec
<1>9. r' \in ReaderRec
  BY <1>2, <1>5, <1>6, <1>7 DEF ReaderRec
<1>10. ReaderOK'
  BY <1>2, <1>3, <1>5, <1>6, <1>8 DEF XInv, ReaderOK
<1>11. Stream' = Stream
  <2>1. Stream = Parts(r.header, <<>>, P \o Q, O)
    BY <1>2, <1>5, Zenon DEF Stream, Parts, O
  <2>2. Stream' = Parts(r.header, P, Q, O)
    BY <1>2, <1>7, <1>8, Zenon DEF Stream, Parts, O
  <2>3. CutFills(r.header, P, Q, O)
    BY <1>2, <1>5, Cut
  <2>4. QED
    BY <2>1, <2>2, <2>3 DEF CutFills
<1>12. FragRest' = FragRest /\ WRec' = WRec /\ WFrom' = WFrom
  BY <1>2, <1>8 DEF FragRest, WRec, WFrom, FragLen
<1>13. InPlace'
  BY <1>2, <1>8, <1>11, <1>12 DEF XInv, InPlace
<1>14. wire' \in Seq(Byte)
  BY <1>5, <1>7
<1>15. QED
  BY <1>2, <1>9, <1>10, <1>11, <1>13, <1>14, ReaderMoves

LEMMA ReadFailsKeeps ==
  ASSUME XInv, Fatal, ReadFails
  PROVE  XInv'
<1> DEFINE O == SubSeq(w.out, 1, w.frag)
           e == <<>>
<1>1. /\ r \in ReaderRec /\ wire \in Seq(Byte) /\ UNCHANGED <<w, wire, sizes, shipped>> /\ r.buf = e
      /\ r.header \in Seq(Byte) /\ O \in Seq(Byte) /\ e \in Seq(Byte)
  BY StreamParts DEF XInv, Types, ReadFails, Reader
<1>2. r' = [r EXCEPT !.op = "dead", !.phase = "top", !.header = e]
  BY DEF ReadFails, Reader
<1>3. e \o e = e /\ r.header \o e = r.header
  BY <1>1
<1>4. e = <<>>
  OBVIOUS
<1> HIDE DEF e, O
<1>5. /\ r'.buf = r.buf /\ r'.align = r.align /\ r'.header = e /\ r'.fbtbc = r.fbtbc /\ r'.sync = r.sync
      /\ r'.op = "dead" /\ r'.left = r.left /\ r'.phase = "top" /\ r'.size = r.size
      /\ r'.piece = r.piece /\ r'.rec = r.rec /\ r'.got = r.got /\ r'.failed = r.failed
      /\ r'.last_frag = r.last_frag
  BY <1>1, <1>2 DEF ReaderRec
<1>6. r' \in ReaderRec
  BY <1>1, <1>2 DEF ReaderRec
<1>7. ReaderOK'
  BY <1>1, <1>4, <1>5 DEF XInv, ReaderOK
<1>8. InPlace'
  BY <1>5 DEF InPlace
<1>9. Stream = r.header \o Stream' /\ Stream' \in Seq(Byte)
  <2>1. Stream = Parts(r.header, e \o e, wire, O)
    BY <1>1, <1>3, Zenon DEF Stream, Parts, O
  <2>2. Stream' = Parts(e, e, wire, O)
    BY <1>1, <1>5, Zenon DEF Stream, Parts, O
  <2>3. CutTakes(r.header, e, e, wire, O)
    BY <1>1, Cut
  <2>4. Parts(e, e, wire, O) \in Seq(Byte)
    BY <1>1, Cut
  <2>5. Stream = (r.header \o e) \o Parts(e, e, wire, O)
    BY <1>4, <2>1, <2>3, Zenon DEF CutTakes
  <2>6. QED
    BY <1>3, <2>2, <2>4, <2>5, Zenon
<1>10. QED
  BY <1>1, <1>6, <1>7, <1>8, <1>9, ReaderTakes

LEMMA PieceKeeps ==
  ASSUME XInv, Piece
  PROVE  XInv'
<1> DEFINE n == IF r.piece < Len(r.buf) THEN r.piece ELSE Len(r.buf)
           done == n = r.piece
           O == SubSeq(w.out, 1, w.frag)
           P == SubSeq(r.buf, 1, n)
           Q == SubSeq(r.buf, n + 1, Len(r.buf))
           piece == r.piece - n
           fbtbc == IF done THEN r.fbtbc - r.size ELSE r.fbtbc
           left == IF done /\ ~Skipping THEN r.left - r.size ELSE r.left
           phase == IF done THEN "top" ELSE "piece"
           got == IF Skipping THEN r.got ELSE r.got + n
           sync == r.sync /\ \A i \in 1 .. n :
                     /\ r.buf[i][1] = "d" /\ r.buf[i][2] = r.rec
                     /\ Skipping \/ r.buf[i][3] = r.got + i
<1>1. /\ r \in ReaderRec /\ wire \in Seq(Byte) /\ UNCHANGED <<w, wire, sizes, shipped>> /\ r.phase = "piece"
      /\ r.buf \in Seq(Byte) /\ O \in Seq(Byte)
  BY StreamParts DEF XInv, Types, Piece, Reader
<1>2. /\ r.piece \in Nat /\ r.size \in Nat /\ r.fbtbc \in Nat /\ r.left \in Nat /\ r.got \in Nat /\ r.rec \in Nat
      /\ Len(r.buf) \in Nat /\ r.last_frag \in BOOLEAN
  BY ReaderFields DEF XInv
<1>3. /\ r.piece <= r.size /\ r.size <= r.fbtbc /\ r.op \in {"get", "skip", "eof"} /\ (r.op = "get" => r.size <= r.left)
      /\ r.header = <<>> /\ r.sync /\ r.align < Unit /\ Len(r.buf) <= RecvSize /\ r.fbtbc <= SendSize
      /\ (r.op \in {"get", "ready"} => r.rec > 0)
      /\ (r.failed => r.rec > 0 /\ r.op \notin {"get", "ready"} /\ r.rec <= Len(sizes) /\ r.got = sizes[r.rec])
  BY <1>1 DEF XInv, ReaderOK
<1>4. r' = [r EXCEPT !.buf = Q, !.piece = piece, !.fbtbc = fbtbc, !.left = left, !.phase = phase,
                     !.got = got, !.sync = sync]
  BY DEF Piece, Reader
<1>5. n \in Nat /\ n <= r.piece /\ n \in 0 .. Len(r.buf) /\ n <= Len(r.buf)
  BY <1>2
<1>6. Skipping <=> r.op # "get"
  BY <1>3 DEF Skipping
<1>7. Split(r.buf, n)
  BY <1>1, <1>5, Splits
<1>8. P \in Seq(Byte) /\ Q \in Seq(Byte) /\ P \o Q = r.buf /\ Len(P) = n /\ Len(Q) = Len(r.buf) - n
      /\ \A i \in 1 .. n : P[i] = r.buf[i]
  BY <1>7 DEF Split
<1> HIDE DEF n, P, Q, O
<1>9. FragRest = r.fbtbc - (r.size - r.piece)
  BY <1>1 DEF FragRest
<1>10. FragRest \in Nat /\ n <= FragRest
  BY <1>2, <1>3, <1>5, <1>9
<1>11. PICK i \in Nat : PlaceOf(r, i) /\ Rest(Stream, sizes, WRec, WFrom, 1, FragRest, r.last_frag, r.rec, i)
  BY <1>3, Placed
<1> DEFINE T == Parts(<<>>, Q, wire, O)
<1>12. Stream = P \o T /\ T \in Seq(Byte)
  <2> DEFINE e == <<>>
  <2>1. e \in Seq(Byte) /\ r.header = e /\ e \o P = P /\ T = Parts(e, Q, wire, O)
    BY <1>3, <1>8
  <2>2. e = <<>>
    OBVIOUS
  <2> HIDE DEF e, T
  <2>3. Stream = Parts(e, P \o Q, wire, O)
    BY <1>8, <2>1, Zenon DEF Stream, Parts, O
  <2>4. CutTakes(e, P, Q, wire, O) /\ Parts(e, Q, wire, O) \in Seq(Byte)
    BY <1>1, <1>8, <2>1, Cut
  <2>5. Stream = (e \o P) \o T
    BY <2>1, <2>2, <2>3, <2>4, Zenon DEF CutTakes
  <2>6. QED
    BY <2>1, <2>4, <2>5, Zenon
<1> HIDE DEF T
<1>13. \A j \in 1 .. n : r.buf[j] = <<"d", r.rec, i + (j - 1)>>
  <2> SUFFICES ASSUME NEW j \in 1 .. n PROVE r.buf[j] = <<"d", r.rec, i + (j - 1)>>
    OBVIOUS
  <2>1. Stream[j] = P[j]
    <3>1. j \in 1 .. Len(P) + Len(T) /\ j <= Len(P) /\ Len(T) \in Nat
      BY <1>5, <1>8, <1>12
    <3>2. \A l \in 1 .. Len(P) + Len(T) : (P \o T)[l] = IF l <= Len(P) THEN P[l] ELSE T[l - Len(P)]
      BY <1>8, <1>12, ConcatProperties
    <3>3. QED
      BY <1>12, <3>1, <3>2
  <2>2. j \in 1 .. 1 + FragRest - 1
    BY <1>5, <1>10
  <2>3. Stream[j] = <<"d", r.rec, i + (j - 1)>>
    BY <1>11, <2>2 DEF Rest
  <2>4. QED
    BY <1>8, <2>1, <2>3
<1>14. sync = TRUE
  <2> SUFFICES ASSUME NEW j \in 1 .. n
               PROVE  r.buf[j][1] = "d" /\ r.buf[j][2] = r.rec /\ (Skipping \/ r.buf[j][3] = r.got + j)
    BY <1>3
  <2>1. r.buf[j] = <<"d", r.rec, i + (j - 1)>>
    BY <1>13
  <2>2. r.buf[j][1] = "d" /\ r.buf[j][2] = r.rec /\ r.buf[j][3] = i + (j - 1)
    BY <2>1
  <2>3. r.op = "get" => i + (j - 1) = r.got + j
    BY <1>2, <1>5, <1>11, SMTT(30) DEF PlaceOf
  <2>4. QED
    BY <1>6, <2>2, <2>3
<1>15. piece \in Nat /\ fbtbc \in Nat /\ left \in Nat /\ got \in Nat /\ fbtbc <= SendSize /\ piece <= r.size
       /\ phase \in {"top", "piece"} /\ (phase = "piece" => r.size <= fbtbc /\ (r.op = "get" => r.size <= left))
  <2>1. piece \in Nat /\ piece <= r.size
    BY <1>2, <1>3, <1>5
  <2>2. fbtbc \in Nat /\ fbtbc <= SendSize
    BY <1>2, <1>3, Sizes0
  <2>3. left \in Nat
    BY <1>2, <1>3, <1>6
  <2>4. got \in Nat
    BY <1>2, <1>5
  <2>5. phase = "piece" => fbtbc = r.fbtbc /\ left = r.left
    OBVIOUS
  <2>6. phase \in {"top", "piece"}
    OBVIOUS
  <2>7. QED
    BY <1>3, <2>1, <2>2, <2>3, <2>4, <2>5, <2>6
<1>16. (IF phase = "piece" THEN fbtbc - (r.size - piece) ELSE fbtbc) = FragRest - n
  <2>1. CASE done
    <3>1. phase = "top" /\ fbtbc = r.fbtbc - r.size
      BY <2>1
    <3>2. QED
      BY <1>2, <1>5, <1>9, <2>1, <3>1
  <2>2. CASE ~done
    <3>1. phase = "piece" /\ fbtbc = r.fbtbc
      BY <2>2
    <3>2. QED
      BY <1>2, <1>5, <1>9, <3>1
  <2>3. QED
    BY <2>1, <2>2
<1>17. (Skipping => got = r.got) /\ (~Skipping => got = r.got + n)
  OBVIOUS
<1> HIDE DEF done, piece, fbtbc, left, phase, got, sync
<1>18. /\ r'.buf = Q /\ r'.align = r.align /\ r'.header = r.header /\ r'.fbtbc = fbtbc /\ r'.sync = TRUE
       /\ r'.op = r.op /\ r'.left = left /\ r'.phase = phase /\ r'.size = r.size
       /\ r'.piece = piece /\ r'.rec = r.rec /\ r'.got = got /\ r'.failed = r.failed
       /\ r'.last_frag = r.last_frag
  BY <1>1, <1>4, <1>14 DEF ReaderRec
<1>19. r' \in ReaderRec
  BY <1>1, <1>4, <1>8, <1>14, <1>15 DEF ReaderRec
<1>20. ReaderOK'
  <2>1. Len(Q) <= RecvSize
    BY <1>2, <1>3, <1>5, <1>8, Sizes0
  <2>2. r.failed => got = r.got
    BY <1>3, <1>6, <1>17
  <2>3. QED
    BY <1>1, <1>3, <1>15, <1>18, <2>1, <2>2 DEF ReaderOK
<1>21. FragRest' = FragRest - n /\ WRec' = WRec /\ WFrom' = WFrom /\ Stream' = T
  <2>1. FragRest' = FragRest - n
    BY <1>16, <1>18 DEF FragRest
  <2>2. WRec' = WRec /\ WFrom' = WFrom
    BY <1>1 DEF WRec, WFrom, FragLen
  <2>3. Stream' = T
    BY <1>1, <1>3, <1>18, Zenon DEF Stream, T, Parts, O
  <2>4. QED
    BY <2>1, <2>2, <2>3
<1>22. Rest(T, sizes, WRec, WFrom, 1, FragRest - n, r.last_frag, r.rec, i + n)
  <2> DEFINE k == r.rec
             last == r.last_frag
             len == FragRest
             m == len - n
             pos == i + n
  <2>1. k \in Nat /\ last \in BOOLEAN /\ len \in Nat /\ n \in 0 .. len /\ m \in Nat /\ pos \in Nat /\ 1 \in Nat \ {0}
    BY <1>2, <1>5, <1>10
  <2>2. Rest(P \o T, sizes, WRec, WFrom, 1, len, last, k, i) /\ P \o T \in Seq(Byte)
    <3>1. P \o T \in Seq(Byte)
      BY <1>8, <1>12, ConcatProperties, Zenon
    <3>2. QED
      BY <1>11, <1>12, <3>1
  <2>3. 1 + n = 1 + Len(P)
    BY <1>8
  <2> HIDE DEF k, last, len
  <2>4. Rest(P \o T, sizes, WRec, WFrom, 1 + n, len - n, last, k, i + n)
    <3> DEFINE S == P \o T
               p == 1
    <3>1. S \in Seq(Byte) /\ Rest(S, sizes, WRec, WFrom, p, len, last, k, i) /\ p \in Nat
      BY <2>2
    <3> HIDE DEF S, p, n
    <3>2. Rest(S, sizes, WRec, WFrom, p + n, len - n, last, k, i + n)
      <4>1. Taking(S, sizes, WRec, WFrom, p, len, last, k, i, n)
        BY <2>1, <3>1 DEF Taking
      <4>2. QED
        BY <4>1, RestTaken, Zenon
    <3>3. QED
      BY <3>2 DEF S, p
  <2>5. Rest(P \o T, sizes, WRec, WFrom, 1 + Len(P), m, last, k, pos)
    BY <2>3, <2>4
  <2> HIDE DEF m, pos
  <2>6. Rest(T, sizes, WRec, WFrom, 1, m, last, k, pos)
    BY <1>8, <1>12, <2>1, <2>5, RestBehind
  <2>7. QED
    BY <2>6 DEF k, last, len, m, pos
<1>23. InPlace'
  <2>1. i + n \in Nat
    BY <1>5
  <2>2. r'.op \in {"get", "ready"} => i + n = r'.got + 1
    <3>1. r.op = "get" => got = r.got + n /\ i = r.got + 1
      BY <1>6, <1>11, <1>17 DEF PlaceOf
    <3>2. r.op = "get" => i + n = got + 1
      BY <1>2, <1>5, <3>1
    <3>3. QED
      BY <1>3, <1>18, <3>2
  <2>3. QED
    BY <1>1, <1>18, <1>21, <1>22, <2>1, <2>2 DEF InPlace
<1>24. QED
  BY <1>1, <1>8, <1>12, <1>19, <1>20, <1>21, <1>23, ReaderTakes

(* At the beginning of a header the stream begins with one, whole. *)
LEMMA HeaderAhead ==
  ASSUME XInv, r.phase = "header", r.buf # <<>>
  PROVE  /\ Stream \in Seq(Byte) /\ Unit <= Len(Stream) /\ Stream[1] \in Byte
         /\ \A j \in 1 .. Unit : Stream[j][1] = "h" /\ Stream[j][6] = j
         /\ Stream[1][2] \in 0 .. SendSize /\ Stream[1][3] \in BOOLEAN /\ (Stream[1][2] = 0 => Stream[1][3])
         /\ \E i \in Nat : /\ PlaceOf(r, i)
                           /\ Rest(Stream, sizes, WRec, WFrom, 1 + Unit, Stream[1][2], Stream[1][3], r.rec, i)
<1>1. r.fbtbc = 0 /\ r.last_frag = FALSE /\ r.op # "dead" /\ FragRest = 0
  BY ReaderFields DEF XInv, ReaderOK, FragRest
<1>2. PICK i \in Nat : PlaceOf(r, i) /\ Rest(Stream, sizes, WRec, WFrom, 1, FragRest, r.last_frag, r.rec, i)
  BY <1>1, Placed
<1>3. Stream \in Seq(Byte) /\ Len(Stream) \in Nat /\ Len(Stream) >= 1
  <2>1. /\ r.header \in Seq(Byte) /\ r.buf \in Seq(Byte) /\ wire \in Seq(Byte)
        /\ r.header \o r.buf \in Seq(Byte) /\ SubSeq(w.out, 1, w.frag) \in Seq(Byte)
        /\ (r.header \o r.buf) \o wire \in Seq(Byte) /\ Stream \in Seq(Byte)
    BY StreamParts DEF XInv
  <2>2. Len(r.buf) \in Nat /\ Len(r.buf) > 0
    <3>1. r.buf = <<>> <=> Len(r.buf) = 0
      BY <2>1, EmptySeq
    <3>2. QED
      BY <2>1, <3>1
  <2>3. Len(r.header \o r.buf) = Len(r.header) + Len(r.buf)
    BY <2>1, ConcatProperties, Zenon
  <2>4. Len((r.header \o r.buf) \o wire) = Len(r.header \o r.buf) + Len(wire)
    BY <2>1, ConcatProperties, Zenon
  <2>5. Len(Stream) = Len((r.header \o r.buf) \o wire) + Len(SubSeq(w.out, 1, w.frag))
    BY <2>1, ConcatProperties, Zenon DEF Stream
  <2>6. Len(r.header) \in Nat /\ Len(wire) \in Nat /\ Len(SubSeq(w.out, 1, w.frag)) \in Nat
    BY <2>1, LenProperties, Zenon
  <2> DEFINE a == Len(r.header)
             b == Len(r.buf)
             c == Len(wire)
             d == Len(SubSeq(w.out, 1, w.frag))
  <2>7. Len(Stream) = ((a + b) + c) + d /\ a \in Nat /\ b \in Nat /\ c \in Nat /\ d \in Nat /\ b > 0
    BY <2>2, <2>3, <2>4, <2>5, <2>6, Zenon
  <2> HIDE DEF a, b, c, d
  <2>8. Len(Stream) \in Nat /\ Len(Stream) >= 1
    BY <2>7
  <2>9. QED
    BY <2>1, <2>8
<1>4. 1 \in 1 .. Len(Stream)
  BY <1>3
<1>5. Stream[1] \in Byte
  BY <1>3, <1>4, ElementOfSeq
<1>6. Stream[1][1] = "h" /\ Stream[1][4] = r.rec /\ Stream[1][5] = i /\ Stream[1][6] = 1
  <2>1. Follows(Stream, r.rec, i + 0, WRec, WFrom, 1 + 0)
    BY <1>1, <1>2 DEF Rest
  <2>2. i + 0 = i /\ 1 + 0 = 1 /\ 1 <= Len(Stream)
    BY <1>4
  <2>3. QED
    BY <2>1, <2>2 DEF Follows
<1>7. /\ Stream[1][2] \in 0 .. SendSize /\ Stream[1][3] \in BOOLEAN /\ (Stream[1][2] = 0 => Stream[1][3])
  <2> DEFINE b == Stream[1]
  <2>1. b \in Byte /\ b[1] = "h"
    BY <1>5, <1>6
  <2> HIDE DEF b
  <2>2. b[2] \in 0 .. SendSize /\ b[3] \in BOOLEAN /\ (b[2] = 0 => b[3])
    BY <2>1, ByteIs
  <2>3. QED
    BY <2>2 DEF b
<1>8. /\ 1 + Unit - 1 <= Len(Stream)
      /\ \A j \in 1 .. Unit : Stream[1 + j - 1] = <<"h", Stream[1][2], Stream[1][3], Stream[1][4], Stream[1][5], j>>
      /\ Rest(Stream, sizes, WRec, WFrom, 1 + Unit, Stream[1][2], Stream[1][3], Stream[1][4], Stream[1][5])
  <2>1. Framed(Stream, sizes, WRec, WFrom)
    BY DEF XInv
  <2>2. QED
    BY <1>4, <1>6, <2>1 DEF Framed
<1>9. \A j \in 1 .. Unit : Stream[j][1] = "h" /\ Stream[j][6] = j
  <2> SUFFICES ASSUME NEW j \in 1 .. Unit PROVE Stream[j][1] = "h" /\ Stream[j][6] = j
    OBVIOUS
  <2>1. 1 + j - 1 = j
    BY Sizes0
  <2>2. Stream[j] = <<"h", Stream[1][2], Stream[1][3], Stream[1][4], Stream[1][5], j>>
    BY <1>8, <2>1
  <2>3. QED
    BY <2>2
<1>10. Unit <= Len(Stream)
  BY <1>8, Sizes0
<1>11. Rest(Stream, sizes, WRec, WFrom, 1 + Unit, Stream[1][2], Stream[1][3], r.rec, i)
  BY <1>6, <1>8
<1>12. QED
  BY <1>2, <1>3, <1>5, <1>7, <1>9, <1>10, <1>11

(* A part of the header, the rest of which is to come. *)
LEMMA HeaderPart ==
  ASSUME XInv, r.phase = "header", NEW P \in Seq(Byte), NEW Q \in Seq(Byte), r.buf = P \o Q, r.buf # <<>>,
         Len(r.header \o P) < Unit, UNCHANGED <<w, wire, sizes, shipped>>,
         r' = [r EXCEPT !.buf = Q, !.header = r.header \o P]
  PROVE  XInv'
<1> DEFINE O == SubSeq(w.out, 1, w.frag)
           h == r.header \o P
<1>1. r \in ReaderRec /\ wire \in Seq(Byte) /\ r.header \in Seq(Byte) /\ O \in Seq(Byte) /\ Len(r.buf) <= RecvSize
  BY StreamParts DEF XInv, Types, ReaderOK
<1>2. h \in Seq(Byte) /\ Len(h) < Unit /\ r' = [r EXCEPT !.buf = Q, !.header = h]
  BY <1>1, ConcatProperties, Zenon
<1>3. Len(Q) <= RecvSize
  <2>1. Len(r.buf) = Len(P) + Len(Q)
    BY ConcatProperties, Zenon
  <2>2. Len(P) \in Nat /\ Len(Q) \in Nat
    BY LenProperties, Zenon
  <2>3. QED
    BY <1>1, <2>1, <2>2, Sizes0
<1> HIDE DEF h
<1>4. /\ r'.buf = Q /\ r'.align = r.align /\ r'.header = h /\ r'.fbtbc = r.fbtbc /\ r'.sync = r.sync
      /\ r'.op = r.op /\ r'.left = r.left /\ r'.phase = r.phase /\ r'.size = r.size
      /\ r'.piece = r.piece /\ r'.rec = r.rec /\ r'.got = r.got /\ r'.failed = r.failed
      /\ r'.last_frag = r.last_frag
  BY <1>1, <1>2 DEF ReaderRec
<1>5. r' \in ReaderRec
  BY <1>1, <1>2 DEF ReaderRec
<1>6. ReaderOK'
  BY <1>2, <1>3, <1>4 DEF XInv, ReaderOK
<1>7. Stream' = Stream
  <2> HIDE DEF O
  <2>1. Stream = Parts(r.header, P \o Q, wire, O)
    BY Zenon DEF Stream, Parts, O
  <2>2. Stream' = Parts(h, Q, wire, O)
    BY <1>4, Zenon DEF Stream, Parts, O
  <2>3. CutMoves(r.header, P, Q, wire, O)
    BY <1>1, Cut
  <2>4. QED
    BY <2>1, <2>2, <2>3, Zenon DEF CutMoves, h
<1>8. FragRest' = FragRest /\ WRec' = WRec /\ WFrom' = WFrom
  BY <1>4 DEF FragRest, WRec, WFrom, FragLen
<1>9. InPlace'
  BY <1>4, <1>7, <1>8 DEF XInv, InPlace
<1>10. wire' \in Seq(Byte)
  BY <1>1
<1>11. QED
  BY <1>5, <1>6, <1>7, <1>9, <1>10, ReaderMoves

(* The header is whole: it is the one that stands in the stream. *)
Whole(h, T) ==
  /\ h \in Seq(Byte) /\ T \in Seq(Byte) /\ Stream = h \o T
  /\ \A j \in 1 .. Unit : h[j][1] = "h" /\ h[j][6] = j
  /\ h[1][2] \in 0 .. SendSize /\ h[1][3] \in BOOLEAN /\ (h[1][2] = 0 => h[1][3])
  /\ \E i \in Nat : PlaceOf(r, i) /\ Rest(T, sizes, WRec, WFrom, 1, h[1][2], h[1][3], r.rec, i)

LEMMA HeaderWhole ==
  ASSUME XInv, r.phase = "header", r.buf # <<>>, NEW P \in Seq(Byte), NEW Q \in Seq(Byte), r.buf = P \o Q,
         Len(r.header \o P) = Unit
  PROVE  Whole(r.header \o P, Parts(<<>>, Q, wire, SubSeq(w.out, 1, w.frag)))
<1> DEFINE O == SubSeq(w.out, 1, w.frag)
           h == r.header \o P
           e == <<>>
           T == Parts(e, Q, wire, O)
<1>1. wire \in Seq(Byte) /\ r.header \in Seq(Byte) /\ O \in Seq(Byte) /\ e \in Seq(Byte) /\ r.rec \in Nat
  BY StreamParts, ReaderFields DEF XInv, Types
<1>2. h \in Seq(Byte) /\ Len(h) = Unit /\ e = <<>>
  BY <1>1, ConcatProperties, Zenon
<1> HIDE DEF O, e
<1>3. Stream = h \o T /\ T \in Seq(Byte)
  <2>1. Stream = Parts(r.header, P \o Q, wire, O)
    BY Zenon DEF Stream, Parts, O
  <2>2. CutTakes(r.header, P, Q, wire, O)
    BY <1>1, Cut
  <2>3. Parts(e, Q, wire, O) \in Seq(Byte)
    BY <1>1, Cut
  <2>4. QED
    BY <1>2, <2>1, <2>2, <2>3, Zenon DEF CutTakes
<1>4. QED
  <2> HIDE DEF h, T
  <2>1. \A j \in 1 .. Unit : Stream[j] = h[j]
    <3>1. \A j \in 1 .. Len(h) + Len(T) : (h \o T)[j] = IF j <= Len(h) THEN h[j] ELSE T[j - Len(h)]
      BY <1>2, <1>3, ConcatProperties
    <3>2. Len(T) \in Nat
      BY <1>3
    <3>3. \A j \in 1 .. Unit : j \in 1 .. Len(h) + Len(T) /\ j <= Len(h)
      BY <1>2, <3>2, Sizes0
    <3>4. QED
      BY <1>3, <3>1, <3>3
  <2>2. /\ \A j \in 1 .. Unit : Stream[j][1] = "h" /\ Stream[j][6] = j
        /\ Stream[1][2] \in 0 .. SendSize /\ Stream[1][3] \in BOOLEAN /\ (Stream[1][2] = 0 => Stream[1][3])
    BY HeaderAhead
  <2>3. PICK i \in Nat : /\ PlaceOf(r, i)
                         /\ Rest(Stream, sizes, WRec, WFrom, 1 + Unit, Stream[1][2], Stream[1][3], r.rec, i)
    BY HeaderAhead
  <2>4. Stream[1] = h[1]
    <3>1. 1 \in 1 .. Unit
      BY Sizes0
    <3>2. QED
      BY <2>1, <3>1
  <2> DEFINE len == h[1][2]
             last == h[1][3]
             k == r.rec
  <2>5. len \in 0 .. SendSize /\ last \in BOOLEAN /\ (len = 0 => last)
    BY <2>2, <2>4
  <2>6. Rest(h \o T, sizes, WRec, WFrom, 1 + Len(h), len, last, k, i)
    BY <1>2, <1>3, <2>3, <2>4
  <2>7. len \in Nat /\ k \in Nat /\ 1 \in Nat \ {0}
    BY <1>1, <2>5, Sizes0
  <2> HIDE DEF len, last, k
  <2>8. Rest(T, sizes, WRec, WFrom, 1, len, last, k, i)
    BY <1>2, <1>3, <2>5, <2>6, <2>7, RestBehind
  <2>9. \A j \in 1 .. Unit : h[j][1] = "h" /\ h[j][6] = j
    BY <2>1, <2>2
  <2>10. Whole(h, T)
    BY <1>2, <1>3, <2>3, <2>5, <2>8, <2>9 DEF Whole, len, last, k
  <2>11. QED
    BY <1>2, <2>10, Zenon DEF h, T, O

LEMMA UpToSendSize ==
  \A n \in 0 .. SendSize : n \in Nat /\ n <= SendSize
BY Sizes0

(* The step that has read the whole header. *)
LEMMA HeaderTaken ==
  ASSUME XInv, r.phase = "header", r.buf # <<>>, NEW P \in Seq(Byte), NEW Q \in Seq(Byte), r.buf = P \o Q,
         Len(r.header \o P) = Unit, UNCHANGED <<w, wire, sizes, shipped>>,
         NEW len, NEW last, len = (r.header \o P)[1][2], last = (r.header \o P)[1][3],
         r' = [r EXCEPT !.buf = Q, !.header = <<>>, !.phase = "top", !.fbtbc = len, !.last_frag = last]
  PROVE  XInv'
<1> DEFINE O == SubSeq(w.out, 1, w.frag)
           h == r.header \o P
           e == <<>>
           T == Parts(e, Q, wire, O)
<1>1. r \in ReaderRec /\ wire \in Seq(Byte) /\ e \in Seq(Byte)
  BY DEF XInv, Types
<1>2. Whole(h, T)
  BY HeaderWhole
<1>3. e = <<>> /\ len = h[1][2] /\ last = h[1][3]
      /\ r' = [r EXCEPT !.buf = Q, !.header = e, !.phase = "top", !.fbtbc = len, !.last_frag = last]
  OBVIOUS
<1>4. Len(Q) <= RecvSize
  <2>1. Len(r.buf) = Len(P) + Len(Q)
    BY ConcatProperties, Zenon
  <2>2. Len(P) \in Nat /\ Len(Q) \in Nat
    BY LenProperties, Zenon
  <2>3. Len(r.buf) <= RecvSize
    BY DEF XInv, ReaderOK
  <2>4. QED
    BY <2>1, <2>2, <2>3, Sizes0
<1> HIDE DEF h, O, T, e
<1>5. /\ h \in Seq(Byte) /\ T \in Seq(Byte) /\ Stream = h \o T /\ len \in 0 .. SendSize /\ last \in BOOLEAN
  BY <1>2, <1>3, Zenon DEF Whole
<1>6. PICK i \in Nat : PlaceOf(r, i) /\ Rest(T, sizes, WRec, WFrom, 1, len, last, r.rec, i)
  <2>1. \E i \in Nat : PlaceOf(r, i) /\ Rest(T, sizes, WRec, WFrom, 1, h[1][2], h[1][3], r.rec, i)
    BY <1>2, Zenon DEF Whole
  <2>2. QED
    BY <1>3, <2>1
<1>7. len \in Nat /\ len <= SendSize
  BY <1>5, UpToSendSize, Zenon
<1>8. /\ r'.buf = Q /\ r'.align = r.align /\ r'.header = e /\ r'.fbtbc = len /\ r'.sync = r.sync
      /\ r'.op = r.op /\ r'.left = r.left /\ r'.phase = "top" /\ r'.size = r.size
      /\ r'.piece = r.piece /\ r'.rec = r.rec /\ r'.got = r.got /\ r'.failed = r.failed
      /\ r'.last_frag = last
  BY <1>1, <1>3 DEF ReaderRec
<1>9. r' \in ReaderRec
  BY <1>1, <1>3, <1>5, <1>7, ZenonT(60) DEF ReaderRec
<1>10. ReaderOK'
  BY <1>3, <1>4, <1>7, <1>8 DEF XInv, ReaderOK
<1>11. Stream' = T
  BY <1>8, Zenon DEF Stream, T, Parts, O
<1>12. FragRest' = len /\ WRec' = WRec /\ WFrom' = WFrom
  BY <1>8 DEF FragRest, WRec, WFrom, FragLen
<1>13. InPlace'
  BY <1>6, <1>8, <1>11, <1>12 DEF InPlace, PlaceOf
<1>14. QED
  BY <1>1, <1>5, <1>9, <1>10, <1>11, <1>13, ReaderTakes

LEMMA ReadHeaderKeeps ==
  ASSUME XInv, ReadHeader
  PROVE  XInv'
<1> DEFINE n == IF Unit - Len(r.header) < Len(r.buf) THEN Unit - Len(r.header) ELSE Len(r.buf)
           P == SubSeq(r.buf, 1, n)
           Q == SubSeq(r.buf, n + 1, Len(r.buf))
           h == r.header \o P
           t == [r EXCEPT !.buf = Q, !.header = h]
<1>1. /\ r \in ReaderRec /\ UNCHANGED <<w, wire, sizes, shipped>> /\ r.phase = "header" /\ r.buf # <<>>
      /\ r.buf \in Seq(Byte) /\ r.header \in Seq(Byte) /\ Len(r.buf) \in Nat /\ Len(r.header) \in Nat
      /\ Len(r.header) < Unit
  <2>1. r.phase = "header" /\ r.buf # <<>>
    BY Zenon DEF ReadHeader
  <2>2. UNCHANGED <<w, wire, sizes, shipped>>
    BY Zenon DEF ReadHeader, Reader
  <2>3. QED
    BY <2>1, <2>2, ReaderFields DEF XInv, Types, ReaderOK
<1>2. \/ Len(h) < Unit /\ r' = t
      \/ /\ Len(h) = Unit /\ \A i \in 1 .. Unit : h[i][1] = "h" /\ h[i][6] = i
         /\ IF h[1][2] = 0 /\ ~h[1][3]
            THEN r' = [t EXCEPT !.header = <<>>, !.last_frag = FALSE, !.phase = "top", !.op = "dead"]
            ELSE r' = [t EXCEPT !.header = <<>>, !.phase = "top", !.fbtbc = h[1][2], !.last_frag = h[1][3]]
      \/ /\ Len(h) = Unit /\ \E i \in 1 .. Unit : h[i][1] # "h" \/ h[i][6] # i
         /\ r' = [t EXCEPT !.sync = FALSE, !.op = "dead"]
  BY Zenon DEF ReadHeader, Reader
<1>3. n \in 0 .. Len(r.buf)
  BY <1>1, Sizes0
<1> HIDE DEF n, t
<1>4. Split(r.buf, n)
  BY <1>1, <1>3, Splits
<1>5. P \in Seq(Byte) /\ Q \in Seq(Byte) /\ r.buf = P \o Q
  BY <1>4 DEF Split
<1> HIDE DEF P, Q
<1>6. CASE Len(h) < Unit /\ r' = t
  BY <1>1, <1>5, <1>6, HeaderPart DEF t
<1>7. CASE /\ Len(h) = Unit
           /\ IF h[1][2] = 0 /\ ~h[1][3]
              THEN r' = [t EXCEPT !.header = <<>>, !.last_frag = FALSE, !.phase = "top", !.op = "dead"]
              ELSE r' = [t EXCEPT !.header = <<>>, !.phase = "top", !.fbtbc = h[1][2], !.last_frag = h[1][3]]
  <2>1. Whole(h, Parts(<<>>, Q, wire, SubSeq(w.out, 1, w.frag)))
    BY <1>1, <1>5, <1>7, HeaderWhole
  <2>2. h[1][2] = 0 => h[1][3]
    BY <2>1, Zenon DEF Whole
  <2> DEFINE len == h[1][2]
             last == h[1][3]
             e == <<>>
  <2>3. r' = [t EXCEPT !.header = e, !.phase = "top", !.fbtbc = len, !.last_frag = last]
    BY <1>7, <2>2, Zenon
  <2>4. h \in Seq(Byte) /\ len = h[1][2] /\ last = h[1][3] /\ e = <<>>
    BY <2>1, Zenon DEF Whole
  <2> HIDE DEF h, len, last, e
  <2>5. r' = [r EXCEPT !.buf = Q, !.header = e, !.phase = "top", !.fbtbc = len, !.last_frag = last]
    BY <1>1, <2>3 DEF t, ReaderRec
  <2>6. QED
    BY <1>1, <1>5, <1>7, <2>4, <2>5, HeaderTaken DEF h
<1>8. CASE Len(h) = Unit /\ \E i \in 1 .. Unit : h[i][1] # "h" \/ h[i][6] # i
  <2>1. Whole(h, Parts(<<>>, Q, wire, SubSeq(w.out, 1, w.frag)))
    BY <1>1, <1>5, <1>8, HeaderWhole
  <2>2. QED
    BY <1>8, <2>1, Zenon DEF Whole
<1>9. QED
  BY <1>2, <1>6, <1>7, <1>8, Zenon

-----------------------------------------------------------------------------
LEMMA XInitInv ==
  ASSUME XInit
  PROVE  XInv
<1> DEFINE e == <<>>
<1>1. /\ e \in Seq(Byte) /\ e \in Seq(Nat) /\ Len(e) = 0 /\ e \o e = e
  OBVIOUS
<1>2. /\ w = [out |-> e, frag |-> 0, frag_sent |-> FALSE, len |-> 0] /\ wire = e /\ sizes = e /\ shipped = 0
      /\ r = [buf |-> e, align |-> 0, fbtbc |-> 0, last_frag |-> TRUE, header |-> e,
              op |-> "idle", phase |-> "top", left |-> 0, size |-> 0, piece |-> 0,
              rec |-> 0, got |-> 0, failed |-> FALSE, sync |-> TRUE]
  BY DEF XInit
<1>3. SubSeq(e, 1, 0) = e
  BY <1>1
<1>4. e = <<>>
  OBVIOUS
<1> HIDE DEF e
<1>5. w \in Writer /\ r \in ReaderRec
  BY <1>1, <1>2 DEF Writer, ReaderRec
<1>6. /\ w.out = e /\ w.frag = 0 /\ w.frag_sent = FALSE /\ w.len = 0
      /\ r.buf = e /\ r.align = 0 /\ r.fbtbc = 0 /\ r.last_frag = TRUE /\ r.header = e /\ r.op = "idle"
      /\ r.phase = "top" /\ r.piece = 0 /\ r.size = 0 /\ r.rec = 0 /\ r.failed = FALSE /\ r.sync = TRUE
  BY <1>2
<1>7. Types
  BY <1>1, <1>2, <1>5 DEF Types
<1>8. FragLen(w) = 0 /\ WRec = 1 /\ WFrom = 1 /\ FragRest = 0
  BY <1>1, <1>2, <1>6 DEF FragLen, WRec, WFrom, FragRest
<1>9. WriterOK
  <2>1. \E n \in Nat : w.frag = n * Unit
    <3>1. 0 = 0 * Unit
      BY Sizes0
    <3>2. QED
      BY <1>6, <3>1
  <2>2. Finger(w) <= SendSize /\ w.frag + 2 * Unit <= SendSize /\ w.frag <= Len(w.out) /\ w.len <= MaxLen
    BY <1>1, <1>6, Sizes0, XdrRecAssumption DEF Finger
  <2>3. \A j \in 1 .. FragLen(w) : w.out[w.frag + j] = <<"d", WRec, WFrom + j - 1>>
    BY <1>8
  <2>4. QED
    BY <1>6, <1>8, <2>1, <2>2, <2>3 DEF WriterOK
<1>10. ReaderOK
  BY <1>1, <1>4, <1>6, Sizes0 DEF ReaderOK
<1>11. Stream = e
  BY <1>1, <1>2, <1>3, <1>6, Zenon DEF Stream
<1>12. Framed(Stream, sizes, WRec, WFrom)
  BY <1>1, <1>11 DEF Framed
<1>13. Rest(e, sizes, 1, 1, 1, 0, TRUE, 0, 1)
  BY <1>1 DEF Rest, Follows
<1>14. InPlace
  BY <1>6, <1>8, <1>11, <1>13 DEF InPlace
<1>15. QED
  BY <1>7, <1>9, <1>10, <1>12, <1>14 DEF XInv

LEMMA XStutters ==
  ASSUME XInv, UNCHANGED xvars
  PROVE  XInv'
<1>1. w' = w /\ r' = r /\ wire' = wire /\ sizes' = sizes /\ shipped' = shipped
  BY DEF xvars
<1>2. Stream' = Stream /\ WRec' = WRec /\ WFrom' = WFrom /\ FragRest' = FragRest
  BY <1>1 DEF Stream, WRec, WFrom, FragRest, FragLen
<1>3. Types' /\ ReaderOK'
  BY <1>1 DEF XInv, Types, ReaderOK
<1>4. WriterOK'
  BY <1>1, <1>2 DEF XInv, WriterOK, FragLen, Finger
<1>5. InPlace'
  BY <1>1, <1>2 DEF XInv, InPlace
<1>6. QED
  BY <1>1, <1>2, <1>3, <1>4, <1>5 DEF XInv

LEMMA XNextInv ==
  ASSUME XInv, Fatal, [XNext]_xvars
  PROVE  XInv'
<1>1. CASE PutLong
  BY <1>1, PutLongKeeps
<1>2. ASSUME NEW n \in 1 .. Unit + 1, PutBytes(n) PROVE XInv'
  BY <1>2, PutBytesKeeps
<1>3. ASSUME NEW sendnow \in BOOLEAN, EndOfRecord(sendnow) PROVE XInv'
  BY <1>3, EndOfRecordKeeps
<1>4. CASE Reading
  BY <1>4, FillKeeps, PieceKeeps, ReadHeaderKeeps, GetLoopKeeps, SkipLoopKeeps, OtherKeeps DEF Reading
<1>5. CASE ReadFails
  BY <1>5, ReadFailsKeeps
<1>6. CASE DecodingDone
  BY <1>6, OtherKeeps
<1>7. ASSUME NEW n \in {1, Unit + 1}, Get(n) PROVE XInv'
  <2>1. n \in Nat
    BY Sizes0
  <2>2. QED
    BY <1>7, <2>1, GetKeeps
<1>8. CASE UNCHANGED xvars
  BY <1>8, XStutters
<1>9. QED
  BY <1>1, <1>2, <1>3, <1>4, <1>5, <1>6, <1>7, <1>8, Zenon DEF XNext

LEMMA XInvRight ==
  ASSUME XInv
  PROVE  RecordsRight
<1>1. /\ r.op \in {"idle", "ready", "get", "skip", "eof", "dead"} /\ r.phase \in {"top", "piece", "header"}
      /\ r.align \in Nat /\ r.fbtbc \in Nat /\ r.piece \in Nat /\ r.size \in Nat /\ r.header \in Seq(Byte)
  BY ReaderFields DEF XInv
<1>2. Len(r.header) \in Nat /\ Len(r.header) <= Unit
  <2>1. r.phase # "header" => Len(r.header) = 0
    BY DEF XInv, ReaderOK
  <2>2. r.phase = "header" => Len(r.header) < Unit
    BY DEF XInv, ReaderOK
  <2>3. QED
    BY <1>1, <2>1, <2>2, Sizes0
<1>3. w.len \in Nat /\ w.len <= MaxLen /\ Finger(w) <= SendSize /\ w.frag <= Len(w.out) /\ shipped <= Len(sizes)
  BY DEF XInv, Types, Writer, WriterOK
<1>4. /\ r.align < Unit /\ Len(r.buf) <= RecvSize /\ r.fbtbc <= SendSize /\ r.piece <= r.size /\ r.sync
      /\ r.failed => r.rec <= Len(sizes) /\ r.got = sizes[r.rec]
  BY DEF XInv, ReaderOK
<1>5. w.len \in 0 .. MaxLen
  BY <1>3, XdrRecAssumption
<1>6. r.align \in 0 .. Unit - 1 /\ r.fbtbc \in 0 .. SendSize /\ r.piece \in 0 .. r.size /\ Len(r.header) \in 0 .. Unit
  BY <1>1, <1>2, <1>4, Sizes0
<1>7. XTypeOK
  BY <1>1, <1>3, <1>4, <1>5, <1>6 DEF XTypeOK
<1>8. FragmentsTaken
  <2> SUFFICES ASSUME NEW i \in 1 .. Len(wire), wire[i][1] = "h", wire[i][2] = 0 PROVE wire[i][3]
    BY DEF FragmentsTaken
  <2>1. wire \in Seq(Byte)
    BY DEF XInv, Types
  <2>2. wire[i] \in Byte
    BY <2>1, ElementOfSeq
  <2> DEFINE b == wire[i]
  <2>3. b \in Byte /\ b[1] = "h" /\ b[2] = 0
    BY <2>2
  <2> HIDE DEF b
  <2>4. b[3]
    BY <2>3, ByteIs
  <2>5. QED
    BY <2>4 DEF b
<1>9. QED
  BY <1>4, <1>7, <1>8 DEF RecordsRight, RecordAligned, FailsAtEnd

(* RecordsRight.  However the writer's buffer, its flushes and its batches *)
(* cut the records into fragments, and the reads cut those into buffers,   *)
(* the server decodes the bytes of the record that it is at, takes no      *)
(* header for data, refuses no header, and runs out of data only at the    *)
(* end of a record: for all sizes of the buffers and all lengths.  It is   *)
(* said of a reader that closes the connection when a read has failed, as  *)
(* svctcp_stat has the server do.                                          *)
THEOREM RecordsAreRight ==
  ASSUME Fatal
  PROVE  XSpec => []RecordsRight
<1>1. XInit => XInv
  BY XInitInv
<1>2. XInv /\ [XNext]_xvars => XInv'
  BY XNextInv
<1>3. XInv => RecordsRight
  BY XInvRight
<1>4. QED
  BY <1>1, <1>2, <1>3, PTL DEF XSpec
==============================================================================
