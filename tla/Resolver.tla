------------------------------ MODULE Resolver ------------------------------
(***************************************************************************)
(* The DNS resolver: res_query of libcruft/res_query.c and the search loop *)
(* of dnscruft2.c over it, with its sockets and its configuration          *)
(* (dnscruft.c, res_init.c, res_close.c), as built with IPv6 transport,    *)
(* the full resolv.conf and plug-and-play (multicast) DNS.                 *)
(*                                                                         *)
(* Name 0 is the caller's, name k the one with the k-th search domain      *)
(* appended.  A datagram is known by the socket it belongs to (IPv4,       *)
(* IPv6 or multicast), its id, and the name it is about, which nobody      *)
(* looks at.  The ids drawn with rand() are taken to differ.  Time is in   *)
(* seconds since the query began.                                          *)
(***************************************************************************)
EXTENDS Integers, Sequences

CONSTANTS Family,      \* Family[n]: the address family of the n-th name server (at most 8)
          Tries,       \* "timeout count down", 20
          Pause,       \* seconds between two datagrams, 10
          Grace,       \* polls left when the server has said no, 10
          MaxSearch,   \* bound: search domains (the code keeps 8)
          LocalNames,  \* the names without a dot or in .local
          MaxQueries,  \* bound: a lookup begins before so many queries
          MaxPackets   \* bound: replies, and signals that interrupt poll

ASSUME ResolverAssumption ==
  /\ Family \in Seq({4, 6}) /\ Len(Family) <= 8
  /\ {Tries, Pause, Grace} \subseteq Nat /\ Tries \div 2 = Pause /\ Pause % 2 = 0
  /\ Pause > 0 /\ Grace > 1
  /\ MaxSearch \in Nat /\ MaxQueries \in Nat /\ MaxPackets \in Nat
  /\ LocalNames \subseteq Nat

VARIABLES conf,      \* resolv.conf: the numbers of name servers and of search domains
          nscount,   \* _res.nscount
          dns_search,
          fds,       \* the sockets of __dns_fd and __dns_fd6 that are open
          q,         \* the query that runs
          out,       \* the queries sent
          dnet,      \* the packets waiting in the sockets
          packets

dvars == <<conf, nscount, dns_search, fds, q, out, dnet, packets>>

Multicast == 5353    \* a socket, beside 4 and 6 for the address families

Idle == [pc |-> "idle", lookup |-> 0, name |-> 0, id |-> 0, j |-> 0, i |-> 0, now |-> 0,
         last |-> 0, fd |-> -1, mc |-> FALSE, status |-> "none", got |-> <<>>,
         asked |-> {}, sent |-> 0, heard |-> 0]

DInit ==
  /\ conf \in [ns : 0 .. Len(Family), search : 0 .. MaxSearch]
  /\ nscount = 0 /\ dns_search = 0 /\ fds = {} /\ q = Idle
  /\ out = {} /\ dnet = {} /\ packets = 0

-----------------------------------------------------------------------------
(* res_mkquery, the multicast datagrams, and a new count down.  Without a  *)
(* multicast socket the name is asked like any other.                      *)
Query(h, name) ==
  \E mc \in IF name \in LocalNames THEN BOOLEAN ELSE {FALSE} :
    /\ q' = [h EXCEPT !.pc = "loop", !.name = name, !.id = @ + 1, !.j = Tries, !.i = 0, !.now = 0,
                      !.last = -Pause - 1, !.fd = 0, !.mc = mc, !.asked = {}, !.sent = 0, !.heard = 0]
    /\ out' = IF mc THEN out \cup {[sock |-> Multicast, id |-> h.id + 1, name |-> <<h.lookup, name>>]} ELSE out

(* __dns_gethostbyx_r begins; __dns_readstartfiles reads resolv.conf while *)
(* no name server is known.                                                *)
Lookup ==
  /\ q.pc = "idle" /\ q.id < MaxQueries
  /\ nscount' = IF nscount > 0 THEN nscount ELSE conf.ns
  /\ dns_search' = IF nscount > 0 THEN dns_search ELSE conf.search
  /\ Query([Idle EXCEPT !.lookup = q.lookup + 1, !.id = q.id], 0)
  /\ UNCHANGED <<conf, fds, dnet, packets>>

(* res_init, and the administrator's change of resolv.conf before it. *)
ResInit ==
  /\ q.pc = "idle" /\ q.lookup > 0
  /\ \E search \in 0 .. MaxSearch : conf' = [conf EXCEPT !.search = search]
  /\ nscount' = conf'.ns /\ dns_search' = conf'.search
  /\ UNCHANGED <<fds, q, out, dnet, packets>>

(* res_close: what waits in the sockets is lost. *)
ResClose ==
  /\ q.pc = "idle" /\ fds # {}
  /\ fds' = {} /\ dnet' = {m \in dnet : m.sock = Multicast} /\ out' = {o \in out : o.sock = Multicast}
  /\ UNCHANGED <<conf, nscount, dns_search, q, packets>>

-----------------------------------------------------------------------------
(* res_query and its caller.                                               *)

(* The answer has addresses, or it has none. *)
Returned(name) ==
  /\ \E status \in {"OK", "NO_DATA"} : q' = [q EXCEPT !.pc = "idle", !.status = status, !.got = name]
  /\ UNCHANGED out

(* res_query fails, for whatever reason: "invalidpacket" says that there   *)
(* is no such host, and the next domain is tried.                          *)
NotFound(h) ==
  IF h.name = dns_search
  THEN q' = [h EXCEPT !.pc = "idle", !.status = "HOST_NOT_FOUND"] /\ UNCHANGED out
  ELSE Query(h, h.name + 1)

(* Mutant: it starts all over. *)
ContinueForever(h) ==
  IF h.j > 1 THEN q' = [h EXCEPT !.pc = "loop", !.j = @ - 1] /\ UNCHANGED out
  ELSE Query([h EXCEPT !.id = @ - 1], h.name)

(* continue, or the end of the count down: nxdomain or TRY_AGAIN, which    *)
(* are the same to the caller.                                             *)
Continue(h) ==
  IF h.j > 1 THEN q' = [h EXCEPT !.pc = "loop", !.j = @ - 1] /\ UNCHANGED out
  ELSE NotFound(h)

(* Mutant: one server too many. *)
NextServerPast(h) == [h EXCEPT !.i = IF @ + 1 > nscount THEN 0 ELSE @ + 1]

NextServer(h) == [h EXCEPT !.i = IF @ + 1 >= nscount THEN 0 ELSE @ + 1]

(* poll, or give up: the server has said no and a second has passed. *)
ToPoll(h) ==
  IF h.fd = -1 /\ (h.now > 0 \/ ~h.mc) THEN NotFound(h)
  ELSE q' = [h EXCEPT !.pc = "poll"] /\ UNCHANGED out

(* Mutant: a pause of ten seconds, not of more. *)
DueEarly == q.now - q.last >= Pause

Due == q.now - q.last > Pause

(* Mutant: the time of the datagram is not noted. *)
SentNow(h) == [h EXCEPT !.sent = @ + 1, !.asked = @ \cup {h.i}]

Sent(h) == [h EXCEPT !.last = h.now, !.sent = @ + 1, !.asked = @ \cup {h.i}]

(* The top of the loop, when it is not time for another datagram. *)
Skip ==
  /\ q.pc = "loop" /\ (~Due \/ q.fd = -1)
  /\ ToPoll([NextServer(q) EXCEPT !.last = IF Due THEN q.now ELSE @])
  /\ UNCHANGED <<conf, nscount, dns_search, fds, dnet, packets>>

(* A datagram to server i, through the socket of its family, which is the  *)
(* one polled from now on.  If there is no socket, or sendto fails, as it  *)
(* does when no server is configured, there is no such host.               *)
DSend ==
  /\ q.pc = "loop" /\ Due /\ q.fd # -1
  /\ LET fam == IF nscount = 0 THEN 4 ELSE Family[q.i + 1]
     IN  \/ /\ nscount > 0
            /\ fds' = fds \cup {fam}
            /\ q' = [NextServer(Sent(q)) EXCEPT !.pc = "poll", !.fd = fam]
            /\ out' = out \cup {[sock |-> fam, id |-> q.id, name |-> <<q.lookup, q.name>>]}
         \/ (fds' = fds \/ fds' = fds \cup {fam}) /\ NotFound([q EXCEPT !.fd = fam])
  /\ UNCHANGED <<conf, nscount, dns_search, dnet, packets>>

(* The packets poll reports: those of the name server come first. *)
Polled ==
  LET own == {m \in dnet : m.sock = q.fd}
  IN  IF own # {} THEN own ELSE IF q.mc THEN {m \in dnet : m.sock = Multicast} ELSE {}

(* Nothing for a second; or a signal, which costs a try and no time. *)
PollTimeout ==
  /\ q.pc = "poll" /\ Polled = {}
  /\ Continue([q EXCEPT !.now = @ + 1])
  /\ UNCHANGED <<conf, nscount, dns_search, fds, dnet, packets>>

PollInterrupted ==
  /\ q.pc = "poll"
  /\ packets < MaxPackets /\ packets' = packets + 1
  /\ Continue([q EXCEPT !.heard = @ + 1])
  /\ UNCHANGED <<conf, nscount, dns_search, fds, dnet>>

(* Mutant: the id is not looked at. *)
RelevantBlind(m) == m.kind # "junk" /\ ~(m.sock = Multicast /\ m.kind = "error")

(* The reply to this query: not multicast from afar, not something else    *)
(* than an answer, and no error by multicast.                              *)
Relevant(m) ==
  m.id = q.id /\ m.kind # "junk" /\ ~(m.sock = Multicast /\ m.kind = "error")

(* Mutant: the server's no is final. *)
DeniedFinal(h) == NotFound(h)

(* An error of the name server ends the query, unless multicast is to be   *)
(* given some time.                                                        *)
Denied(h) ==
  IF h.mc THEN Continue([h EXCEPT !.fd = -1, !.j = IF @ > Grace THEN Grace ELSE @])
  ELSE NotFound(h)

(* What res_query and its caller make of a packet. *)
DReceive(m) ==
  LET h == [q EXCEPT !.heard = @ + 1]
  IN  \/ ~Relevant(m) /\ Continue(h)
      \/ Relevant(m) /\ m.kind = "error" /\ Denied(h)
      \/ Relevant(m) /\ m.kind = "broken" /\ NotFound(h)
      \/ Relevant(m) /\ m.kind = "answer" /\ Returned(m.name)

PollPacket ==
  /\ q.pc = "poll"
  /\ \E m \in Polled : dnet' = dnet \ {m} /\ DReceive(m)
  /\ UNCHANGED <<conf, nscount, dns_search, fds, packets>>

(* A server or a responder replies, at its leisure and perhaps twice.  To  *)
(* a query that is over the answers are all alike.                         *)
Respond ==
  /\ packets < MaxPackets
  /\ \E o \in out : \E kind \in IF o.id = q.id THEN {"answer", "error", "broken", "junk"} ELSE {"answer"} :
       dnet' = dnet \cup {[sock |-> o.sock, id |-> o.id, name |-> o.name, kind |-> kind]}
  /\ packets' = packets + 1
  /\ UNCHANGED <<conf, nscount, dns_search, fds, q, out>>

-----------------------------------------------------------------------------
Resolving == Skip \/ DSend \/ PollTimeout \/ PollPacket

DNext == Lookup \/ ResInit \/ ResClose \/ Resolving \/ PollInterrupted \/ Respond

DFairness == WF_dvars(Resolving)

DSpec == DInit /\ [][DNext]_dvars /\ DFairness

-----------------------------------------------------------------------------
(* Properties.                                                             *)

DTypeOK ==
  /\ nscount \in 0 .. Len(Family) /\ dns_search \in 0 .. MaxSearch /\ fds \subseteq {4, 6}
  /\ q.pc \in {"idle", "loop", "poll"} /\ q.j \in 0 .. Tries /\ q.name \in 0 .. MaxSearch
  /\ nscount > 0 => q.i \in 0 .. nscount - 1
  /\ q.fd \in {-1, 0} \cup fds \cup {4, 6} /\ packets \in 0 .. MaxPackets
  /\ \A m \in dnet : m.id \in 1 .. q.id

(* An answer that is returned is to the query that was last sent, never a  *)
(* late one to an earlier name of the search or an earlier lookup that was *)
(* still in the socket.                                                    *)
OwnAnswer ==
  q.pc = "idle" /\ q.status \in {"OK", "NO_DATA"} => q.got = <<q.lookup, q.name>>

(* A name costs at most twenty seconds and two datagrams, however many     *)
(* servers there are and whatever else arrives.                            *)
EffortBounded == q.now <= Tries /\ q.sent <= 2

(* When all is silent both of two name servers have been asked before the  *)
(* query is given up: the eleven polls between the datagrams are odd.      *)
SecondServerAsked ==
  q.pc = "poll" /\ q.j = 1 /\ q.heard = 0 /\ q.fd # -1 /\ nscount \in 1 .. 2
    => q.asked = 0 .. nscount - 1

GivesUp == q.pc # "idle" /\ (q'.id # q.id \/ (q'.pc = "idle" /\ q'.status = "HOST_NOT_FOUND"))

(* res_query.c:223 "if the normal DNS server says NXDOMAIN, still give the *)
(* multicast method some time": no name that is asked by multicast is      *)
(* given up in the second in which it was sent, unless the reply was       *)
(* invalid or all polls are used up.                                       *)
MulticastHeard ==
  [][GivesUp /\ q.mc /\ q.sent > 0 =>
       q.now > 0 \/ q.j <= 1 \/ \E m \in dnet \ dnet' : m.kind = "broken"]_dvars

(* Every lookup ends, lost datagrams and stray ones notwithstanding. *)
LookupReturns == q.pc # "idle" ~> q.pc = "idle"

(* Answers are those to the question, and the question is put to both      *)
(* servers, within the time.                                               *)
ResolverRight == DTypeOK /\ OwnAnswer /\ EffortBounded /\ SecondServerAsked
=============================================================================
