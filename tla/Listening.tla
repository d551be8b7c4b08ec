----------------------------- MODULE Listening ------------------------------
(***************************************************************************)
(* The start of the server (source/server/initialize.c): for each port a   *)
(* pair of places at the front of polls.  Four modes are tried in turn, an *)
(* IPv6 and an IPv4 socket, one socket for both, IPv6 only, IPv4 only, and *)
(* places left over are filled with -1.  The protocol of a socket is       *)
(* nothing but its place.                                                  *)
(*                                                                         *)
(* A descriptor is named by its port and its kind.  The host allows some   *)
(* kinds for some ports: others may be unsupported, forbidden or taken.    *)
(***************************************************************************)
EXTENDS Integers, Sequences, Functions

CONSTANT Ports     \* their number; nine in the code

VARIABLES
  host,            \* the kinds that the host allows, by port
  open,            \* the open descriptors
  polls,
  port, pc,        \* the port at hand, the next step
  mode,            \* of the ports so far
  ipv4_poll, ipv6_poll,
  misused          \* history: a descriptor was closed that was not open

vars == <<host, open, polls, port, pc, mode, ipv4_poll, ipv6_poll, misused>>

NoFd == <<0, "none">>
Kinds == {"ipv4", "ipv6_only", "ipv6"}

ListeningAssumption == Ports \in Nat \ {0}

\* One that prefers IPv6 alone.
Tries_swapped(m) == <<{"ipv4", "ipv6_only"}, {"ipv6_only"}, {"ipv6"}, {"ipv4"}>>[m]
\* The kinds that a mode creates.
Tries(m) == <<{"ipv4", "ipv6_only"}, {"ipv6"}, {"ipv6_only"}, {"ipv4"}>>[m]

\* The kind of the IPv6 socket of the current mode: IPV6_V6ONLY or not.
Ipv6Kind == Tries(mode[port]) \ {"ipv4"}

\* An IPv6 socket serves IPv4 as well, unless told not to.
Families(kind) == CASE kind = "ipv4" -> {4} [] kind = "ipv6_only" -> {6} [] kind = "ipv6" -> {4, 6}

\* bind(): one socket per port and family.
Bindable(kind) ==
  /\ kind \in host[port]
  /\ \A d \in open : d[1] = port => Families(d[2]) \cap Families(kind) = {}

Init ==
  /\ host \in [1 .. Ports -> SUBSET Kinds]
  /\ open = {} /\ polls = <<>> /\ port = 1 /\ pc = "ipv4" /\ mode = <<1>>
  /\ ipv4_poll = NoFd /\ ipv6_poll = NoFd /\ misused = FALSE

-----------------------------------------------------------------------------
\* close() of each descriptor of a sequence.
Close(fds) ==
  LET real == {i \in DOMAIN fds : fds[i] # NoFd}
  IN /\ open' = open \ {fds[i] : i \in real}
     /\ misused' = (misused \/ \E i \in real : fds[i] \notin open \/ \E j \in real \ {i} : fds[j] = fds[i])

\* server_finalize: what is in polls is closed.
server_finalize ==
  Close(polls) /\ polls' = <<>> /\ pc' = "exit"

\* The next mode, once the sockets of this one are closed, or the error
\* "All modes failed".
TryNextMode ==
  /\ mode' = [mode EXCEPT ![port] = @ + 1]
  /\ pc' = IF mode[port] = 4 THEN "failed" ELSE "ipv4"
  /\ Close(<<ipv4_poll, ipv6_poll>>)

\* A socket of this kind is made and bound, or the mode fails; it was closed
\* again if it could not be bound.
CreateIpv4 ==
  /\ pc = "ipv4"
  /\ IF "ipv4" \notin Tries(mode[port])
     THEN pc' = "ipv6" /\ UNCHANGED <<open, mode, ipv4_poll, misused>>
     ELSE IF Bindable("ipv4")
     THEN /\ ipv4_poll' = <<port, "ipv4">> /\ open' = open \cup {ipv4_poll'}
          /\ pc' = "ipv6" /\ UNCHANGED <<mode, misused>>
     ELSE TryNextMode /\ ipv4_poll' = NoFd
  /\ UNCHANGED <<host, polls, port, ipv6_poll>>

CreateIpv6 ==
  /\ pc = "ipv6"
  /\ IF Ipv6Kind = {}
     THEN pc' = "append" /\ UNCHANGED <<open, mode, ipv4_poll, ipv6_poll, misused>>
     ELSE \E kind \in Ipv6Kind :
       IF Bindable(kind)
       THEN /\ ipv6_poll' = <<port, kind>> /\ open' = open \cup {ipv6_poll'}
            /\ pc' = "append" /\ UNCHANGED <<mode, ipv4_poll, misused>>
       ELSE TryNextMode /\ ipv4_poll' = NoFd /\ ipv6_poll' = NoFd
  /\ UNCHANGED <<host, polls, port>>

Real(d) == IF d = NoFd THEN <<>> ELSE <<d>>
Made == Real(ipv4_poll) \o Real(ipv6_poll)

\* One that fills what it appended, not the pair.
Filled_one(s) == s \o [i \in 1 .. 1 - Len(Made) |-> NoFd]
\* The places of the port that are left.
Filled(s) == s \o [i \in 1 .. 2 * port - Len(s) |-> NoFd]

AppendPair ==
  /\ pc = "append"
  /\ polls' = Filled(polls \o Made)
  /\ ipv4_poll' = NoFd /\ ipv6_poll' = NoFd
  /\ IF port = Ports THEN pc' = "run" /\ UNCHANGED <<port, mode>>
     ELSE pc' = "ipv4" /\ port' = port + 1 /\ mode' = mode \o <<1>>
  /\ UNCHANGED <<host, open, misused>>

\* One that leaves the first place behind.
AppendFailed_kept ==
  /\ pc = "append"
  /\ \E n \in 0 .. Len(Made) - 1 : polls' = polls \o SubSeq(Made, 1, n)
  /\ Close(Made) /\ pc' = "failed"
  /\ ipv4_poll' = NoFd /\ ipv6_poll' = NoFd
  /\ UNCHANGED <<host, port, mode>>
\* No memory for one of the places of the sockets: polls is as before.
AppendFailed ==
  /\ pc = "append"
  /\ Close(Made) /\ pc' = "failed"
  /\ ipv4_poll' = NoFd /\ ipv6_poll' = NoFd
  /\ UNCHANGED <<host, polls, port, mode>>

\* No memory for a place to be filled: the sockets are in polls.
FillFailed ==
  /\ pc = "append" /\ Len(Made) = 1
  /\ polls' = polls \o Made /\ pc' = "failed"
  /\ ipv4_poll' = NoFd /\ ipv6_poll' = NoFd
  /\ UNCHANGED <<host, open, port, mode, misused>>

\* server_main: the start failed, or the loop.
server_main ==
  /\ pc \in {"failed", "run"}
  /\ server_finalize
  /\ UNCHANGED <<host, port, mode, ipv4_poll, ipv6_poll>>

Next == CreateIpv4 \/ CreateIpv6 \/ AppendPair \/ AppendFailed \/ FillFailed \/ server_main

Spec == Init /\ [][Next]_vars

-----------------------------------------------------------------------------
Descriptors == (1 .. Ports) \X Kinds

\* The state is what the C declarations allow; mode ends behind the array
\* when all modes failed.
TypeOK ==
  /\ host \in [1 .. Ports -> SUBSET Kinds] /\ open \subseteq Descriptors
  /\ polls \in Seq(Descriptors \cup {NoFd}) /\ port \in 1 .. Ports
  /\ pc \in {"ipv4", "ipv6", "append", "run", "failed", "exit"}
  /\ mode \in Seq(1 .. 5) /\ Len(mode) = port
  /\ mode[port] = 5 => pc \in {"failed", "exit"}
  /\ {ipv4_poll, ipv6_poll} \subseteq Descriptors \cup {NoFd} /\ misused \in BOOLEAN

\* However the modes failed, a socket is at a place of its own port, which is
\* what ACCEPTING_SOCKET_IS_HTTP and the others tell its protocol from, every
\* open socket is at one place, and the clients begin behind all of them.
PairsInPlace ==
  pc = "run" =>
    /\ Len(polls) = 2 * Ports
    /\ \A i \in DOMAIN polls : polls[i] # NoFd => polls[i][1] = (i + 1) \div 2
    /\ open = Range(polls) \ {NoFd}
    /\ \A d \in open : \E i \in DOMAIN polls : {j \in DOMAIN polls : polls[j] = d} = {i}

\* A port serves every address family that any of the modes could have served
\* on this host: an abandoned mode is not in the way of the next ones.
BestMode ==
  pc = "run" =>
    \A p \in 1 .. Ports : \A m \in 1 .. 4 :
      Tries(m) \subseteq host[p] =>
        UNION {Families(k) : k \in Tries(m)} \subseteq UNION {Families(d[2]) : d \in {e \in open : e[1] = p}}

\* Whatever fails, each descriptor is closed once and in the end all are.
ClosedOnce == ~misused /\ (pc = "exit" => open = {})
=============================================================================
