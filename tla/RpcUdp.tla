------------------------------- MODULE RpcUdp -------------------------------
(***************************************************************************)
(* Remote procedure calls over UDP: the client handle of librpc/clnt_udp.c *)
(* with its credentials (auth_unix.c), and the server side of svc.c,       *)
(* svc_udp.c and svc_auth*.c.                                              *)
(*                                                                         *)
(* Datagrams may be lost, duplicated and reordered.  The server's reply    *)
(* cache is never enabled, so it is not here.  call numbers the calls of a *)
(* client; it travels as the argument and the result of the procedure and  *)
(* is invisible to the library.                                            *)
(***************************************************************************)
EXTENDS Integers, FiniteSets, FiniteSetsExt

CONSTANTS Client,
          Version,      \* of the one program; positive numbers
          CallVersion,  \* the version of the client handles
          MaxLong,      \* the largest unsigned long, "low_vers = 0 - 1"
          Total,        \* the timeout of a call, in units of cu_wait
          Shorthand,    \* verifiers of a server that hands out short credentials (external)
          Complaint,    \* the errors that the dispatch routine replies
          MaxCalls,     \* bound: calls of a client
          MaxDup,       \* bound: datagrams duplicated
          MaxChange     \* bound: services registered or unregistered

ASSUME RpcUdpAssumption ==
  /\ Version \subseteq Nat \ {0} /\ CallVersion \in Nat /\ Total \in Nat \ {0}
  /\ Complaint \subseteq {"PROC_UNAVAIL", "GARBAGE_ARGS", "SYSTEM_ERR"}
  /\ MaxLong \in Nat /\ \A v \in Version : v < MaxLong
  /\ {MaxCalls, MaxDup, MaxChange} \subseteq Nat /\ "server" \notin Client

VARIABLES cl,       \* the client handles
          net,      \* the datagrams in flight
          svc_head, \* the versions registered
          dups, changes,
          sent, ran     \* per call: datagrams sent, executions

rvars == <<cl, net, svc_head, dups, changes, sent, ran>>

Calls == Client \X (1 .. MaxCalls)

RInit ==
  /\ cl = [c \in Client |-> [pc |-> "idle", xid |-> 0, call |-> 0, timeout |-> 0, waited |-> 0,
                             nrefreshes |-> 2, cred |-> "orig", status |-> "none",
                             result |-> 0, low |-> 0, high |-> 0]]
  /\ net = {} /\ svc_head = {} /\ dups = 0 /\ changes = 0
  /\ sent = [k \in Calls |-> 0] /\ ran = [k \in Calls |-> 0]

-----------------------------------------------------------------------------
(* The client.                                                             *)

(* The call returns. *)
Ended(h, status) == [h EXCEPT !.pc = "idle", !.status = status]

Request(c, h) ==
  [to |-> "server", c |-> c, xid |-> h.xid, cred |-> h.cred, call |-> h.call]

(* send_again: with a timeout of 0 nobody waits for the reply. *)
Send(c, h, rest) ==
  \/ /\ cl' = [cl EXCEPT ![c] = IF h.timeout = 0 THEN Ended(h, "TIMEDOUT") ELSE [h EXCEPT !.pc = "wait"]]
     /\ net' = rest \cup {Request(c, h)}
     /\ sent' = [sent EXCEPT ![<<c, h.call>>] = @ + 1]
  \/ cl' = [cl EXCEPT ![c] = Ended(h, "CANTSEND")] /\ net' = rest /\ UNCHANGED sent

(* Mutant: the repeated call keeps its transaction number. *)
CallAgainSameXid(c, h, rest) == Send(c, [h EXCEPT !.xid = IF h.nrefreshes < 2 THEN @ ELSE @ + 1], rest)

(* call_again: a new transaction number, even if encoding fails. *)
CallAgain(c, h, rest) ==
  LET n == [h EXCEPT !.xid = @ + 1]
  IN  \/ Send(c, n, rest)
      \/ cl' = [cl EXCEPT ![c] = Ended(n, "CANTENCODEARGS")] /\ net' = rest /\ UNCHANGED sent

(* clntudp_call begins. *)
Call(c, timeout) ==
  /\ cl[c].pc = "idle" /\ cl[c].call < MaxCalls
  /\ CallAgain(c, [cl[c] EXCEPT !.call = @ + 1, !.timeout = timeout, !.waited = 0,
                                !.nrefreshes = 2], net)
  /\ UNCHANGED <<svc_head, dups, changes, ran>>

(* Mutant: one retransmission too many. *)
SelectTimeoutLate(c) ==
  /\ cl[c].pc = "wait"
  /\ LET h == [cl[c] EXCEPT !.waited = @ + 1]
     IN  IF h.waited <= h.timeout THEN Send(c, h, net)
         ELSE cl' = [cl EXCEPT ![c] = Ended(h, "TIMEDOUT")] /\ UNCHANGED <<net, sent>>
  /\ UNCHANGED <<svc_head, dups, changes, ran>>

(* Mutant: when the time is up it goes on waiting. *)
SelectTimeoutNever(c) ==
  /\ cl[c].pc = "wait"
  /\ LET h == [cl[c] EXCEPT !.waited = @ + 1]
     IN  IF h.waited < h.timeout THEN Send(c, h, net)
         ELSE UNCHANGED <<cl, net, sent>>
  /\ UNCHANGED <<svc_head, dups, changes, ran>>

(* select returns 0: send again until the time is up. *)
SelectTimeout(c) ==
  /\ cl[c].pc = "wait"
  /\ LET h == [cl[c] EXCEPT !.waited = @ + 1]
     IN  IF h.waited < h.timeout THEN Send(c, h, net)
         ELSE cl' = [cl EXCEPT ![c] = Ended(h, "TIMEDOUT")] /\ UNCHANGED <<net, sent>>
  /\ UNCHANGED <<svc_head, dups, changes, ran>>

(* select or recvfrom fails. *)
ReceiveFails(c) ==
  /\ cl[c].pc = "wait"
  /\ cl' = [cl EXCEPT ![c] = Ended(@, "CANTRECV")]
  /\ UNCHANGED <<net, sent, svc_head, dups, changes, ran>>

(* What is left in the network when m is taken from it, once or not yet. *)
Take(m) ==
  \/ net' = net \ {m} /\ UNCHANGED dups
  \/ net' = net /\ dups < MaxDup /\ dups' = dups + 1

(* _seterr_reply *)
re_status(stat) ==
  CASE stat = "SUCCESS" -> "SUCCESS"
    [] stat = "PROG_UNAVAIL" -> "PROGUNAVAIL"
    [] stat = "PROG_MISMATCH" -> "PROGVERSMISMATCH"
    [] stat = "PROC_UNAVAIL" -> "PROCUNAVAIL"
    [] stat = "GARBAGE_ARGS" -> "CANTDECODEARGS"
    [] stat = "SYSTEM_ERR" -> "SYSTEMERROR"
    [] stat = "AUTH_ERROR" -> "AUTHERROR"

(* authunix_validate of the verifier in a successful reply *)
Validated(h, verf) == [h EXCEPT !.cred = IF verf = "short" THEN "short" ELSE @]

(* authunix_refresh: with the original credentials "there is no hope" *)
CanRefresh(h) == h.nrefreshes > 0 /\ h.cred # "orig"
Refreshed(h)  == [h EXCEPT !.cred = "orig", !.nrefreshes = @ - 1]

Decoded(h, m) ==
  [Ended(h, re_status(m.stat)) EXCEPT !.result = m.call, !.low = m.low, !.high = m.high]

(* The reply with the right xid: decoded, or repeated with other           *)
(* credentials whatever the server's complaint was.                        *)
Accept(c, m) ==
  \/ /\ m.stat = "SUCCESS"
     /\ Take(m)
     /\ cl' = [cl EXCEPT ![c] = Validated(Decoded(@, m), m.verf)] /\ UNCHANGED sent
  \/ /\ m.stat # "SUCCESS" /\ ~CanRefresh(cl[c])
     /\ Take(m)
     /\ cl' = [cl EXCEPT ![c] = Decoded(@, m)] /\ UNCHANGED sent
  \/ /\ m.stat # "SUCCESS" /\ CanRefresh(cl[c])
     /\ \/ CallAgain(c, Refreshed(cl[c]), net \ {m}) /\ UNCHANGED dups
        \/ dups < MaxDup /\ dups' = dups + 1 /\ CallAgain(c, Refreshed(cl[c]), net)
  \/ /\ Take(m)
     /\ cl' = [cl EXCEPT ![c] = Ended(@, "CANTDECODERES")] /\ UNCHANGED sent

(* Mutant: any datagram is taken for the reply. *)
ReceiveAny(c) ==
  /\ cl[c].pc = "wait"
  /\ \E m \in net : m.to = c /\ Accept(c, m)
  /\ UNCHANGED <<svc_head, changes, ran>>

(* recvfrom; a datagram with another xid is ignored, without any account   *)
(* of the time it took.                                                    *)
Receive(c) ==
  /\ cl[c].pc = "wait"
  /\ \E m \in net :
       /\ m.to = c
       /\ \/ m.xid = cl[c].xid /\ Accept(c, m)
          \/ m.xid # cl[c].xid /\ Take(m) /\ UNCHANGED <<cl, sent>>
  /\ UNCHANGED <<svc_head, changes, ran>>

-----------------------------------------------------------------------------
(* The server and the network.                                             *)

(* svc_register and svc_unregister of one dispatch routine. *)
Register(v) ==
  /\ v \notin svc_head /\ changes < MaxChange
  /\ svc_head' = svc_head \cup {v} /\ changes' = changes + 1
  /\ UNCHANGED <<cl, net, sent, dups, ran>>

Unregister(v) ==
  /\ v \in svc_head /\ changes < MaxChange
  /\ svc_head' = svc_head \ {v} /\ changes' = changes + 1
  /\ UNCHANGED <<cl, net, sent, dups, ran>>

Reply(m, stat) ==
  [to |-> m.c, xid |-> m.xid, stat |-> stat, call |-> m.call, verf |-> "null", low |-> 0, high |-> 0]

(* Mutant: the lowest version is looked for from 0. *)
ReplyMismatchZero(m) ==
  [Reply(m, "PROG_MISMATCH") EXCEPT !.low = 0, !.high = Max(svc_head \cup {0})]

(* The search for the range of versions in svc_getreqset, which starts     *)
(* from the largest and the smallest number there is.                      *)
ReplyMismatch(m) ==
  [Reply(m, "PROG_MISMATCH") EXCEPT !.low = Min(svc_head \cup {MaxLong}),
                                    !.high = Max(svc_head \cup {0})]

(* _authenticate: shorthand credentials are always rejected. *)
Authenticated(m) == m.cred = "orig"

(* What svc_getreqset answers: a rejection, that there is no such service, *)
(* or what the dispatch routine does.                                      *)
Answers(m) ==
  IF ~Authenticated(m) THEN {Reply(m, "AUTH_ERROR")}
  ELSE IF svc_head = {} THEN {Reply(m, "PROG_UNAVAIL")}
  ELSE IF CallVersion \notin svc_head THEN {ReplyMismatch(m)}
  ELSE {Reply(m, s) : s \in Complaint} \cup
       {[Reply(m, "SUCCESS") EXCEPT !.verf = v] : v \in {"null"} \cup Shorthand}

(* Mutant: the datagram stays in the buffer and is served again. *)
ServeAgain ==
  \E m \in net :
    /\ m.to = "server"
    /\ \E a \in Answers(m) :
         /\ net' = net \cup {a}
         /\ ran' = IF a.stat = "SUCCESS" THEN [ran EXCEPT ![<<m.c, m.call>>] = @ + 1] ELSE ran
    /\ UNCHANGED <<cl, sent, svc_head, dups, changes>>

(* svc_getreqset for one datagram; a reply that cannot be sent is lost. *)
Serve ==
  \E m \in net :
    /\ m.to = "server"
    /\ \E a \in Answers(m), keep \in BOOLEAN :
         /\ keep => dups < MaxDup
         /\ dups' = IF keep THEN dups + 1 ELSE dups
         /\ net' = (IF keep THEN net ELSE net \ {m}) \cup {a}
         /\ ran' = IF a.stat = "SUCCESS" THEN [ran EXCEPT ![<<m.c, m.call>>] = @ + 1] ELSE ran
    /\ UNCHANGED <<cl, sent, svc_head, changes>>

Lose ==
  /\ \E m \in net : net' = net \ {m}
  /\ UNCHANGED <<cl, sent, svc_head, dups, changes, ran>>

-----------------------------------------------------------------------------
ClientWork(c) == SelectTimeout(c) \/ Receive(c)

RNext ==
  \/ \E c \in Client : Call(c, 0) \/ Call(c, Total) \/ ClientWork(c) \/ ReceiveFails(c)
  \/ \E v \in Version : Register(v) \/ Unregister(v)
  \/ Serve \/ Lose

RFairness == \A c \in Client : WF_rvars(ClientWork(c))

RSpec == RInit /\ [][RNext]_rvars /\ RFairness

-----------------------------------------------------------------------------
(* Properties.                                                             *)

RTypeOK ==
  /\ \A c \in Client :
       /\ cl[c].pc \in {"idle", "wait"} /\ cl[c].cred \in {"orig", "short"}
       /\ cl[c].call \in 0 .. MaxCalls /\ cl[c].xid \in Nat
       /\ cl[c].waited \in 0 .. cl[c].timeout /\ cl[c].nrefreshes \in 0 .. 2
  /\ svc_head \subseteq Version /\ dups \in 0 .. MaxDup /\ changes \in 0 .. MaxChange
  /\ \A m \in net : m.xid > 0 /\ m.xid <= cl[IF m.to = "server" THEN m.c ELSE m.to].xid

Status(c, s) == cl[c].pc = "idle" /\ cl[c].status = s

(* However replies are delayed, repeated or reordered, a call that         *)
(* succeeds returns the result of its own execution, never a late reply to *)
(* an earlier call or to its own first attempt.                            *)
OwnResult ==
  \A c \in Client : Status(c, "SUCCESS") => cl[c].result = cl[c].call /\ ran[c, cl[c].call] > 0

(* Rejected shorthand credentials are never the caller's problem: the call *)
(* is made again with the full ones, and the late or repeated rejection of *)
(* the first attempt does not end it.                                      *)
ShorthandRecovers == \A c \in Client : ~Status(c, "AUTHERROR")

(* A call is executed at most once for each datagram the client sent or    *)
(* the network made, and not at all if nothing could be sent.              *)
ExecutionsBounded == \A k \in Calls : ran[k] <= sent[k] + dups

(* The range of versions in a mismatch is one that was offered, and does   *)
(* not begin or end with the version the client asked for.                 *)
MismatchRange ==
  \A c \in Client : Status(c, "PROGVERSMISMATCH") =>
    /\ cl[c].low <= cl[c].high /\ {cl[c].low, cl[c].high} \subseteq Version
    /\ CallVersion \notin {cl[c].low, cl[c].high}

(* Every call returns, lost datagrams and silent servers notwithstanding.  *)
CallReturns == \A c \in Client : cl[c].pc = "wait" ~> cl[c].pc = "idle"

(* Whatever the network does to datagrams, a call ends with what is its    *)
(* own: its result, executed as often as it was sent at most, or an error  *)
(* that is true.                                                           *)
RpcRight == RTypeOK /\ OwnResult /\ ShorthandRecovers /\ ExecutionsBounded /\ MismatchRange
=============================================================================
