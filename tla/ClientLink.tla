----------------------------- MODULE ClientLink -----------------------------
(***************************************************************************)
(* The link between the client and the PG server (client.c).  Five threads *)
(* share cliservice:                                                       *)
(*                                                                         *)
(*   client_mutilcast  hears the server's announcements;                   *)
(*   server_guard      drops the link when announcements stay away;        *)
(*   client_connect    keeps the connection the client reports on;         *)
(*   server_start      serves the connection the server commands on;       *)
(*   heartBackTimer    sends a heartbeat on send_fd every second.          *)
(*                                                                         *)
(* Only client_mutilcast and server_guard take the mutex m.  send_fd is    *)
(* written by three threads without it, and every read of it in the code   *)
(* is a step of its own here.  Descriptors are allocated as POSIX does it, *)
(* lowest first; 0 is stdin, which cliservice's memset leaves in both      *)
(* socket fields.                                                          *)
(*                                                                         *)
(* The server and the network are outside of the repository: the server    *)
(* comes and goes, closing its connections ("fin") or falling silent       *)
(* ("dead").                                                               *)
(***************************************************************************)
EXTENDS Integers, FiniteSets

CONSTANTS
    AliveTimeout,   \* time_alive_timeout at which the guard acts: 5
    MaxFd,          \* the process' descriptors are 0..MaxFd
    MaxOutages,     \* how often the server goes away
    Punctual,       \* a server that is up is heard at least every AliveTimeout s
    Undisturbed     \* no descriptor is stored just before a stale "= -1"

ASSUME ClientLinkAssumption ==
    /\ AliveTimeout \in Nat \ {0}
    /\ MaxFd \in Nat
    /\ MaxOutages \in Nat
    /\ Punctual \in BOOLEAN
    /\ Undisturbed \in BOOLEAN

NoFd == -1
Fds == 0..MaxFd

VARIABLES
    s_server_ipaddr,     \* 1 when the server's address is known, or 0
    link_on, time_alive_timeout,
    send_fd, client_socket,
    sock,                \* the state of each descriptor
    owner,               \* the thread that opened it
    guard, conn, serv, heart,    \* where each thread is
    mcast,               \* client_mutilcast has a working socket
    cfd, sfd,            \* the descriptors conn and serv block on in recv
    up,                  \* the server: up, down
    silent,              \*   went away without closing its connections
    registered,          \*   has the client's registration
    outages

shared == <<s_server_ipaddr, link_on, time_alive_timeout, send_fd, client_socket>>
fds == <<sock, owner>>
server == <<up, silent, registered, outages>>
vars == <<shared, fds, guard, conn, serv, heart, mcast, cfd, sfd, server>>

SockStates == {"free", "stdio", "est", "fin", "dead", "shut"}
GuardStates == {"sleep", "testSend", "shutSend", "clearSend",
                "testClient", "shutClient", "clearClient", "linkOff"}
ConnStates == {"wait", "connect", "register", "recv", "blocked", "ended",
               "close", "closed", "clearIp"}
ServStates == {"accept", "recv", "blocked", "ended", "close", "closed"}
HeartStates == {"sleep", "send", "failShut", "failClear"}

-----------------------------------------------------------------------------
(***************************************************************************)
(* The socket calls, from how the code uses them.                          *)
(***************************************************************************)
FreeFds == {f \in Fds : sock[f] = "free"}

LowestFree == {f \in FreeFds : \A g \in FreeFds : f <= g}

\* socket() and connect(), or accept(): a new descriptor of thread t.
Open(t, f) == /\ sock' = [sock EXCEPT ![f] = "est"]
              /\ owner' = [owner EXCEPT ![f] = t]

\* Errors (EBADF, ENOTSOCK) are ignored by the callers.
Shutdown(f) ==
    sock' = IF f # NoFd /\ sock[f] \in {"est", "fin", "dead"}
            THEN [sock EXCEPT ![f] = "shut"] ELSE sock

Close(f) ==
    IF f = NoFd
    THEN UNCHANGED fds
    ELSE /\ sock' = [sock EXCEPT ![f] = "free"]
         /\ owner' = [owner EXCEPT ![f] = "none"]

\* recv returns 0 or an error; it returns data; otherwise it blocks.
RecvEnds(f) == f # NoFd => sock[f] \notin {"est", "dead"}
RecvData(f) == f # NoFd /\ sock[f] = "est"

Init ==
    /\ s_server_ipaddr = 0
    /\ link_on = 0
    /\ time_alive_timeout = 0
    /\ send_fd = 0
    /\ client_socket = 0
    /\ sock = [f \in Fds |-> IF f = 0 THEN "stdio" ELSE "free"]
    /\ owner = [f \in Fds |-> "none"]
    /\ guard = "sleep"
    /\ conn = "wait"
    /\ serv = "accept"
    /\ heart = "sleep"
    /\ mcast = FALSE
    /\ cfd = NoFd
    /\ sfd = NoFd
    /\ up = TRUE
    /\ silent = FALSE
    /\ registered = FALSE
    /\ outages = 0

-----------------------------------------------------------------------------
(***************************************************************************)
(* server_guard: the mutex m is held from GuardTick until GuardLinkOff.    *)
(***************************************************************************)
TickCount == IF time_alive_timeout < AliveTimeout
             THEN time_alive_timeout + 1 ELSE time_alive_timeout

\* Mutated form: an off-by-one in the comparison with the timeout.
LinkExpiredEarly(n) == n >= AliveTimeout - 1 /\ link_on = 1

LinkExpired(n) == n >= AliveTimeout /\ link_on = 1

\* Mutated form: the server's address is kept.
GuardTickKeepsIp ==
    /\ guard = "sleep"
    /\ Punctual /\ up => TickCount < AliveTimeout
    /\ time_alive_timeout' = TickCount
    /\ IF LinkExpired(TickCount) THEN guard' = "testSend" ELSE UNCHANGED guard
    /\ UNCHANGED <<s_server_ipaddr, link_on, send_fd, client_socket, fds, conn,
                   serv, heart, mcast, cfd, sfd, server>>

\* The counter grows without bound in the code; here it stops at the timeout.
GuardTick ==
    /\ guard = "sleep"
    /\ Punctual /\ up => TickCount < AliveTimeout
    /\ time_alive_timeout' = TickCount
    /\ IF LinkExpired(TickCount)
       THEN s_server_ipaddr' = 0 /\ guard' = "testSend"
       ELSE UNCHANGED <<s_server_ipaddr, guard>>
    /\ UNCHANGED <<link_on, send_fd, client_socket, fds, conn, serv, heart,
                   mcast, cfd, sfd, server>>

GuardGoto(a, b) == guard = a /\ guard' = b

\* close_all_socket
GuardTestSend ==
    /\ GuardGoto("testSend", IF send_fd = NoFd THEN "testClient" ELSE "shutSend")
    /\ UNCHANGED <<shared, fds, conn, serv, heart, mcast, cfd, sfd, server>>

GuardShutSend ==
    /\ GuardGoto("shutSend", "clearSend")
    /\ Shutdown(send_fd)
    /\ UNCHANGED <<shared, owner, conn, serv, heart, mcast, cfd, sfd, server>>

GuardClearSend ==
    /\ GuardGoto("clearSend", "testClient")
    /\ send_fd' = NoFd
    /\ UNCHANGED <<s_server_ipaddr, link_on, time_alive_timeout, client_socket,
                   fds, conn, serv, heart, mcast, cfd, sfd, server>>

GuardTestClient ==
    /\ GuardGoto("testClient", IF client_socket = NoFd THEN "linkOff" ELSE "shutClient")
    /\ UNCHANGED <<shared, fds, conn, serv, heart, mcast, cfd, sfd, server>>

\* Mutated form: the command connection is forgotten, not shut down.
GuardForgetClient ==
    /\ GuardGoto("shutClient", "clearClient")
    /\ UNCHANGED <<shared, fds, conn, serv, heart, mcast, cfd, sfd, server>>

GuardShutClient ==
    /\ GuardGoto("shutClient", "clearClient")
    /\ Shutdown(client_socket)
    /\ UNCHANGED <<shared, owner, conn, serv, heart, mcast, cfd, sfd, server>>

GuardClearClient ==
    /\ GuardGoto("clearClient", "linkOff")
    /\ client_socket' = NoFd
    /\ UNCHANGED <<s_server_ipaddr, link_on, time_alive_timeout, send_fd, fds,
                   conn, serv, heart, mcast, cfd, sfd, server>>

GuardLinkOff ==
    /\ GuardGoto("linkOff", "sleep")
    /\ link_on' = 0
    /\ UNCHANGED <<s_server_ipaddr, time_alive_timeout, send_fd, client_socket,
                   fds, conn, serv, heart, mcast, cfd, sfd, server>>

Guard ==
    \/ GuardTick
    \/ GuardTestSend \/ GuardShutSend \/ GuardClearSend
    \/ GuardTestClient \/ GuardShutClient \/ GuardClearClient
    \/ GuardLinkOff

(***************************************************************************)
(* client_mutilcast                                                        *)
(***************************************************************************)
\* Mutated form: the announcement is noted without taking m.
NoMutex == TRUE

MutexFree == guard = "sleep"

\* The socket is made; each failure on the way closes it and tries again.
McastOpen ==
    /\ ~mcast
    /\ mcast' = TRUE
    /\ UNCHANGED <<shared, fds, guard, conn, serv, heart, cfd, sfd, server>>

McastError ==
    /\ mcast
    /\ mcast' = FALSE
    /\ UNCHANGED <<shared, fds, guard, conn, serv, heart, cfd, sfd, server>>

Announcement ==
    /\ mcast
    /\ up
    /\ MutexFree
    /\ s_server_ipaddr' = 1
    /\ link_on' = 1
    /\ time_alive_timeout' = 0
    /\ UNCHANGED <<send_fd, client_socket, fds, guard, conn, serv, heart,
                   mcast, cfd, sfd, server>>

(***************************************************************************)
(* client_connect                                                          *)
(***************************************************************************)
ConnGoto(a, b) == conn = a /\ conn' = b

ConnWait ==
    /\ s_server_ipaddr > 0
    /\ ConnGoto("wait", "connect")
    /\ UNCHANGED <<shared, fds, guard, serv, heart, mcast, cfd, sfd, server>>

\* The heartbeat or the guard has shut down the old connection and is about
\* to clear send_fd: a descriptor stored now would be wiped out, its
\* connection left open and unused.  The same for client_socket below.
StaleClearPending == heart = "failClear" \/ guard = "clearSend"

ConnOpen ==
    /\ up
    /\ Undisturbed => ~StaleClearPending
    /\ ConnGoto("connect", "register")
    /\ \E f \in LowestFree : send_fd' = f /\ Open("connect", f)
    /\ UNCHANGED <<s_server_ipaddr, link_on, time_alive_timeout, client_socket,
                   guard, serv, heart, mcast, cfd, sfd, server>>

\* The server cannot be reached, or there is no descriptor left.
ConnFail ==
    /\ ~up \/ FreeFds = {}
    /\ ConnGoto("connect", "wait")
    /\ send_fd' = NoFd
    /\ UNCHANGED <<s_server_ipaddr, link_on, time_alive_timeout, client_socket,
                   fds, guard, serv, heart, mcast, cfd, sfd, server>>

\* client_register; nobody looks at the result of the send.
ConnRegister ==
    /\ ConnGoto("register", "recv")
    /\ registered' = (registered \/ (send_fd # NoFd /\ sock[send_fd] = "est"))
    /\ UNCHANGED <<shared, fds, guard, serv, heart, mcast, cfd, sfd, up, silent,
                   outages>>

ConnRecv ==
    /\ ConnGoto("recv", "blocked")
    /\ cfd' = send_fd
    /\ UNCHANGED <<shared, fds, guard, serv, heart, mcast, sfd, server>>

ConnData ==
    /\ RecvData(cfd)
    /\ ConnGoto("blocked", "recv")
    /\ cfd' = NoFd
    /\ UNCHANGED <<shared, fds, guard, serv, heart, mcast, sfd, server>>

ConnLost ==
    /\ RecvEnds(cfd)
    /\ ConnGoto("blocked", "ended")
    /\ cfd' = NoFd
    /\ UNCHANGED <<shared, fds, guard, serv, heart, mcast, sfd, server>>

ConnEnded ==
    /\ ConnGoto("ended", IF send_fd # NoFd THEN "close" ELSE "clearIp")
    /\ UNCHANGED <<shared, fds, guard, serv, heart, mcast, cfd, sfd, server>>

ConnClose ==
    /\ ConnGoto("close", "closed")
    /\ Close(send_fd)
    /\ UNCHANGED <<shared, guard, serv, heart, mcast, cfd, sfd, server>>

\* Mutated form: send_fd keeps the closed descriptor.
ConnClosedKeeps ==
    /\ ConnGoto("closed", "clearIp")
    /\ UNCHANGED <<shared, fds, guard, serv, heart, mcast, cfd, sfd, server>>

ConnClosed ==
    /\ ConnGoto("closed", "clearIp")
    /\ send_fd' = NoFd
    /\ UNCHANGED <<s_server_ipaddr, link_on, time_alive_timeout, client_socket,
                   fds, guard, serv, heart, mcast, cfd, sfd, server>>

ConnClearIp ==
    /\ ConnGoto("clearIp", "wait")
    /\ s_server_ipaddr' = 0
    /\ UNCHANGED <<link_on, time_alive_timeout, send_fd, client_socket, fds,
                   guard, serv, heart, mcast, cfd, sfd, server>>

Conn == \/ ConnWait \/ ConnOpen \/ ConnFail \/ ConnRegister \/ ConnRecv
        \/ ConnLost \/ ConnEnded \/ ConnClose \/ ConnClosed \/ ConnClearIp

(***************************************************************************)
(* server_start                                                            *)
(***************************************************************************)
ServGoto(a, b) == serv = a /\ serv' = b

\* The server connects once the client has registered, and once only.
ServerConnects ==
    /\ registered
    /\ \A f \in Fds : owner[f] = "server" => sock[f] # "est"

ServAccept ==
    /\ ServerConnects
    /\ Undisturbed => guard # "clearClient"
    /\ ServGoto("accept", "recv")
    /\ \E f \in LowestFree : client_socket' = f /\ Open("server", f)
    /\ UNCHANGED <<s_server_ipaddr, link_on, time_alive_timeout, send_fd, guard,
                   conn, heart, mcast, cfd, sfd, server>>

\* accept fails with -1, which the test for < -1 lets through.
ServAcceptFail ==
    /\ ServerConnects
    /\ FreeFds = {}
    /\ ServGoto("accept", "recv")
    /\ client_socket' = NoFd
    /\ UNCHANGED <<s_server_ipaddr, link_on, time_alive_timeout, send_fd, fds,
                   guard, conn, heart, mcast, cfd, sfd, server>>

ServRecv ==
    /\ ServGoto("recv", "blocked")
    /\ sfd' = client_socket
    /\ UNCHANGED <<shared, fds, guard, conn, heart, mcast, cfd, server>>

\* A command arrives and is handled.
ServData ==
    /\ RecvData(sfd)
    /\ ServGoto("blocked", "recv")
    /\ sfd' = NoFd
    /\ UNCHANGED <<shared, fds, guard, conn, heart, mcast, cfd, server>>

ServLost ==
    /\ RecvEnds(sfd)
    /\ ServGoto("blocked", "ended")
    /\ sfd' = NoFd
    /\ UNCHANGED <<shared, fds, guard, conn, heart, mcast, cfd, server>>

ServEnded ==
    /\ ServGoto("ended", IF client_socket # NoFd THEN "close" ELSE "accept")
    /\ UNCHANGED <<shared, fds, guard, conn, heart, mcast, cfd, sfd, server>>

ServClose ==
    /\ ServGoto("close", "closed")
    /\ Close(client_socket)
    /\ UNCHANGED <<shared, guard, conn, heart, mcast, cfd, sfd, server>>

ServClosed ==
    /\ ServGoto("closed", "accept")
    /\ client_socket' = NoFd
    /\ UNCHANGED <<s_server_ipaddr, link_on, time_alive_timeout, send_fd, fds,
                   guard, conn, heart, mcast, cfd, sfd, server>>

Serv == \/ ServAccept \/ ServAcceptFail \/ ServRecv \/ ServLost
        \/ ServEnded \/ ServClose \/ ServClosed

(***************************************************************************)
(* heartBackTimerCallback: client_rebackHeart                              *)
(***************************************************************************)
HeartGoto(a, b) == heart = a /\ heart' = b

HeartTest ==
    /\ send_fd # NoFd
    /\ HeartGoto("sleep", "send")
    /\ UNCHANGED <<shared, fds, guard, conn, serv, mcast, cfd, sfd, server>>

\* What a send on descriptor f can return, TRUE for success.  To a silent
\* peer it succeeds until TCP gives up; a peer that is back resets the
\* connection, of which it knows nothing.
SendResults(f) ==
    IF f = NoFd THEN {FALSE}
    ELSE CASE sock[f] \in {"free", "stdio", "shut"} -> {FALSE}
           [] sock[f] = "est" -> {TRUE}
           [] sock[f] \in {"fin", "dead"} -> {TRUE, FALSE}

ResetIfBack(f) ==
    sock' = IF up /\ f # NoFd /\ sock[f] = "dead"
            THEN [sock EXCEPT ![f] = "fin"] ELSE sock

HeartSend ==
    /\ \E ok \in SendResults(send_fd) :
          HeartGoto("send", IF ok THEN "sleep" ELSE "failShut")
    /\ ResetIfBack(send_fd)
    /\ UNCHANGED <<shared, owner, guard, conn, serv, mcast, cfd, sfd, server>>

HeartSendFails ==
    /\ FALSE \in SendResults(send_fd)
    /\ HeartSend
    /\ heart' = "failShut"

HeartFailShut ==
    /\ HeartGoto("failShut", "failClear")
    /\ Shutdown(send_fd)
    /\ UNCHANGED <<shared, owner, guard, conn, serv, mcast, cfd, sfd, server>>

HeartFailClear ==
    /\ HeartGoto("failClear", "sleep")
    /\ send_fd' = NoFd
    /\ UNCHANGED <<s_server_ipaddr, link_on, time_alive_timeout, client_socket,
                   fds, guard, conn, serv, mcast, cfd, sfd, server>>

Heart == HeartTest \/ HeartSend \/ HeartFailShut \/ HeartFailClear

(***************************************************************************)
(* The server: it ends and its connections with it, or it falls silent;    *)
(* it comes back.  A silent outage (a cable, a reboot) outlasts the guard. *)
(***************************************************************************)
ServerEnds(s) ==
    /\ up
    /\ outages < MaxOutages
    /\ up' = FALSE
    /\ silent' = s
    /\ registered' = FALSE
    /\ outages' = outages + 1
    /\ sock' = [f \in Fds |-> IF sock[f] # "est" THEN sock[f]
                              ELSE IF s THEN "dead" ELSE "fin"]
    /\ UNCHANGED <<shared, owner, guard, conn, serv, heart, mcast, cfd, sfd>>

ServerReturns ==
    /\ ~up
    /\ silent => time_alive_timeout = AliveTimeout /\ guard = "sleep"
    /\ up' = TRUE
    /\ UNCHANGED <<shared, fds, guard, conn, serv, heart, mcast, cfd, sfd,
                   silent, registered, outages>>

Server == (\E s \in BOOLEAN : ServerEnds(s)) \/ ServerReturns

-----------------------------------------------------------------------------

Next == \/ Guard
        \/ McastOpen \/ McastError \/ Announcement
        \/ Conn \/ ConnData
        \/ Serv \/ ServData
        \/ Heart
        \/ Server

Spec == Init /\ [][Next]_vars

(***************************************************************************)
(* Every thread keeps running and the timer keeps firing.  The server      *)
(* announces itself, between the multicast socket's errors; a send to a    *)
(* silent peer fails in the end, as TCP's retransmission timeout has it.   *)
(***************************************************************************)
FairSpec ==
    /\ Spec
    /\ WF_vars(Guard) /\ WF_vars(Conn) /\ WF_vars(Serv) /\ WF_vars(Heart)
    /\ SF_vars(HeartSendFails)
    /\ WF_vars(McastOpen)
    /\ SF_vars(Announcement)

-----------------------------------------------------------------------------

TypeOK ==
    /\ s_server_ipaddr \in {0, 1}
    /\ link_on \in {0, 1}
    /\ time_alive_timeout \in 0..AliveTimeout
    /\ send_fd \in Fds \cup {NoFd}
    /\ client_socket \in Fds \cup {NoFd}
    /\ sock \in [Fds -> SockStates]
    /\ owner \in [Fds -> {"none", "connect", "server"}]
    /\ guard \in GuardStates
    /\ conn \in ConnStates
    /\ serv \in ServStates
    /\ heart \in HeartStates
    /\ mcast \in BOOLEAN
    /\ cfd \in Fds \cup {NoFd}
    /\ sfd \in Fds \cup {NoFd}
    /\ up \in BOOLEAN
    /\ silent \in BOOLEAN
    /\ registered \in BOOLEAN
    /\ outages \in 0..MaxOutages

(***************************************************************************)
(* A link that is off has no server address: were an announcement noted in *)
(* the middle of the guard's teardown, the client would connect to a       *)
(* server whose loss the guard no longer watches for.                      *)
(***************************************************************************)
LinkStateConsistent ==
    link_on = 0 /\ guard = "sleep" => s_server_ipaddr = 0

(***************************************************************************)
(* Although three threads write send_fd without a lock, a descriptor is    *)
(* closed only by the thread that opened it, and only once: what send_fd   *)
(* and client_socket name is open and of the right thread, except between  *)
(* that thread's close and its next assignment.                            *)
(***************************************************************************)
OwnedBy(f, t) == f \in Fds \ {0} => owner[f] = t /\ sock[f] # "free"

CloseOnlyOwn ==
    /\ conn # "closed" => OwnedBy(send_fd, "connect")
    /\ serv # "closed" => OwnedBy(client_socket, "server")
    /\ conn = "blocked" => OwnedBy(cfd, "connect")
    /\ serv = "blocked" => OwnedBy(sfd, "server")
    /\ conn = "close" => send_fd # 0
    /\ serv = "close" => client_socket # 0

(***************************************************************************)
(* The guard switches the link off only after AliveTimeout ticks without   *)
(* an announcement.                                                        *)
(***************************************************************************)
DropsOnlyExpired ==
    [][link_on = 1 /\ link_on' = 0 => time_alive_timeout = AliveTimeout]_vars

(***************************************************************************)
(* Under the comment "close all connect." (client.c) the guard drops the   *)
(* link: after that no connection should be left open that no thread uses. *)
(***************************************************************************)
InUse == {send_fd, client_socket}
            \cup (IF conn = "blocked" THEN {cfd} ELSE {})
            \cup (IF serv = "blocked" THEN {sfd} ELSE {})

AllConnectionsClosed ==
    guard = "sleep" /\ link_on = 0 /\ conn = "wait" /\ serv = "accept"
        => \A f \in Fds \ {0} : sock[f] # "free" => f \in InUse

(***************************************************************************)
(* Whatever outages there were, with descriptors enough: once the server   *)
(* stays, the client reports to it again (client_connect), and the server  *)
(* commands the client again (server_start).                               *)
(***************************************************************************)
Live(f) == f \in Fds /\ sock[f] = "est"

ReportsAgain  == <>[]up => <>[]Live(send_fd)
CommandsAgain == <>[]up => <>[]Live(client_socket)

ConnectedAgain == ReportsAgain /\ CommandsAgain

(***************************************************************************)
(* Once the server stays away, the client gives the report connection up   *)
(* and stops trying: it waits for an announcement.                         *)
(***************************************************************************)
OutageNoticed == <>[](~up) => <>[](conn = "wait" /\ send_fd = NoFd)
=============================================================================
