-------------------------- MODULE ClientLink_proofs --------------------------
(***************************************************************************)
(* Proofs about ClientLink, for every timeout, number of descriptors and   *)
(* number of outages, with or without the timing assumptions.              *)
(***************************************************************************)
EXTENDS ClientLink, TLAPS

(***************************************************************************)
(* The inductive invariant.  LinkStateConsistent has to be known while the *)
(* guard holds the mutex too; CloseOnlyOwn needs that stdin is never       *)
(* handed out, and that a thread past its connect or accept does not hold  *)
(* the 0 that memset left.                                                 *)
(***************************************************************************)
AddressGone ==
    /\ link_on = 0 => s_server_ipaddr = 0
    /\ guard # "sleep" => s_server_ipaddr = 0 /\ time_alive_timeout = AliveTimeout

StdinApart ==
    /\ sock[0] = "stdio"
    /\ conn \notin {"wait", "connect"} => send_fd # 0
    /\ serv # "accept" => client_socket # 0

IInv == TypeOK /\ AddressGone /\ StdinApart /\ CloseOnlyOwn

(***************************************************************************)
(* The socket calls keep the descriptor table well typed.                  *)
(***************************************************************************)
LEMMA ShutdownKeeps ==
  ASSUME TypeOK, NEW f \in Fds \cup {NoFd}, Shutdown(f)
  PROVE  /\ sock' \in [Fds -> SockStates]
         /\ \A g \in Fds : sock'[g] = "free" <=> sock[g] = "free"
         /\ \A g \in Fds : sock'[g] = "stdio" <=> sock[g] = "stdio"
BY DEF TypeOK, Shutdown, SockStates

(***************************************************************************)
(* client_init establishes the invariant.                                  *)
(***************************************************************************)
LEMMA InitEstablishes == Init => IInv
<1> SUFFICES ASSUME Init PROVE IInv
  OBVIOUS
<1>1. TypeOK
  <2>1. /\ mcast \in BOOLEAN /\ up \in BOOLEAN
        /\ silent \in BOOLEAN /\ registered \in BOOLEAN
    BY DEF Init
  <2>2. /\ sock \in [Fds -> SockStates]
        /\ owner \in [Fds -> {"none", "connect", "server"}]
    BY DEF Init, SockStates
  <2>3. /\ s_server_ipaddr \in {0, 1} /\ link_on \in {0, 1}
        /\ time_alive_timeout \in 0..AliveTimeout /\ outages \in 0..MaxOutages
        /\ send_fd \in Fds \cup {NoFd} /\ client_socket \in Fds \cup {NoFd}
        /\ cfd \in Fds \cup {NoFd} /\ sfd \in Fds \cup {NoFd}
    BY ClientLinkAssumption DEF Init, Fds
  <2>4. /\ guard \in GuardStates /\ conn \in ConnStates
        /\ serv \in ServStates /\ heart \in HeartStates
    BY DEF Init, GuardStates, ConnStates, ServStates, HeartStates
  <2> QED
    BY <2>1, <2>2, <2>3, <2>4 DEF TypeOK
<1>2. AddressGone /\ StdinApart
  BY ClientLinkAssumption DEF Init, AddressGone, StdinApart, Fds
<1>3. CloseOnlyOwn
  BY DEF Init, CloseOnlyOwn, OwnedBy, Fds, NoFd
<1> QED
  BY <1>1, <1>2, <1>3 DEF IInv

(***************************************************************************)
(* Every step keeps the state well typed.                                  *)
(***************************************************************************)
LEMMA TypeKeeps == TypeOK /\ [Next]_vars => TypeOK'
<1> SUFFICES ASSUME TypeOK, [Next]_vars PROVE TypeOK'
  OBVIOUS
<1> USE ClientLinkAssumption DEF TypeOK, shared, fds, server, GuardStates,
        ConnStates, ServStates, HeartStates
<1>1. CASE Guard
  <2>1. CASE GuardTick
    BY <2>1 DEF GuardTick, TickCount, LinkExpired
  <2>2. CASE GuardShutSend \/ GuardShutClient
    BY <2>2, ShutdownKeeps DEF GuardShutSend, GuardShutClient, GuardGoto
  <2>3. CASE GuardTestSend \/ GuardClearSend \/ GuardTestClient
             \/ GuardClearClient \/ GuardLinkOff
    BY <2>3 DEF GuardTestSend, GuardClearSend, GuardTestClient,
       GuardClearClient, GuardLinkOff, GuardGoto
  <2> QED
    BY <1>1, <2>1, <2>2, <2>3 DEF Guard
<1>2. CASE McastOpen \/ McastError \/ Announcement
  <2>1. mcast' \in BOOLEAN
    BY <1>2, Zenon DEF McastOpen, McastError, Announcement
  <2> QED
    BY <1>2, <2>1 DEF McastOpen, McastError, Announcement
<1>3. CASE Conn \/ ConnData
  <2>1. CASE ConnOpen
    BY <2>1 DEF ConnOpen, ConnGoto, Open, LowestFree, FreeFds, SockStates
  <2>2. CASE ConnClose
    BY <2>2 DEF ConnClose, ConnGoto, Close, SockStates
  <2>3. CASE ConnRegister
    BY <2>3 DEF ConnRegister, ConnGoto
  <2>4. CASE ConnWait \/ ConnFail \/ ConnRecv \/ ConnData \/ ConnLost
             \/ ConnEnded \/ ConnClosed \/ ConnClearIp
    BY <2>4 DEF ConnWait, ConnFail, ConnRecv, ConnData, ConnLost, ConnEnded,
       ConnClosed, ConnClearIp, ConnGoto
  <2> QED
    BY <1>3, <2>1, <2>2, <2>3, <2>4 DEF Conn
<1>4. CASE Serv \/ ServData
  <2>1. CASE ServAccept
    BY <2>1 DEF ServAccept, ServGoto, Open, LowestFree, FreeFds, SockStates
  <2>2. CASE ServClose
    BY <2>2 DEF ServClose, ServGoto, Close, SockStates
  <2>3. CASE ServAcceptFail \/ ServRecv \/ ServData \/ ServLost \/ ServEnded
             \/ ServClosed
    BY <2>3 DEF ServAcceptFail, ServRecv, ServData, ServLost, ServEnded,
       ServClosed, ServGoto
  <2> QED
    BY <1>4, <2>1, <2>2, <2>3 DEF Serv
<1>5. CASE Heart
  <2>1. CASE HeartFailShut
    BY <2>1, ShutdownKeeps DEF HeartFailShut, HeartGoto
  <2>2. CASE HeartSend
    BY <2>2 DEF HeartSend, HeartGoto, ResetIfBack, SockStates
  <2>3. CASE HeartTest \/ HeartFailClear
    BY <2>3 DEF HeartTest, HeartFailClear, HeartGoto
  <2> QED
    BY <1>5, <2>1, <2>2, <2>3 DEF Heart
<1>6. CASE Server
  <2>1. up' \in BOOLEAN /\ silent' \in BOOLEAN /\ registered' \in BOOLEAN
    BY <1>6, Zenon DEF Server, ServerEnds, ServerReturns
  <2>2. sock' \in [Fds -> SockStates] /\ outages' \in 0..MaxOutages
    BY <1>6 DEF Server, ServerEnds, ServerReturns, SockStates
  <2> QED
    BY <1>6, <2>1, <2>2 DEF Server, ServerEnds, ServerReturns
<1>7. CASE UNCHANGED vars
  BY <1>7 DEF vars
<1> QED
  BY <1>1, <1>2, <1>3, <1>4, <1>5, <1>6, <1>7 DEF Next

(***************************************************************************)
(* The mutex keeps the link flag and the address together.                 *)
(***************************************************************************)
LEMMA AddressKeeps == TypeOK /\ AddressGone /\ [Next]_vars => AddressGone'
<1> SUFFICES ASSUME TypeOK, AddressGone, [Next]_vars PROVE AddressGone'
  OBVIOUS
<1> USE ClientLinkAssumption DEF TypeOK, AddressGone, shared, server, fds
<1>1. CASE GuardTick
  BY <1>1 DEF GuardTick, TickCount, LinkExpired
<1>2. CASE Guard /\ ~GuardTick
  BY <1>2 DEF Guard, GuardTestSend, GuardShutSend, GuardClearSend,
     GuardTestClient, GuardShutClient, GuardClearClient, GuardLinkOff, GuardGoto
<1>3. CASE McastOpen \/ McastError \/ Announcement
  BY <1>3 DEF McastOpen, McastError, Announcement, MutexFree
<1>4. CASE Conn \/ ConnData
  BY <1>4 DEF Conn, ConnData, ConnWait, ConnOpen, ConnFail, ConnRegister,
     ConnRecv, ConnLost, ConnEnded, ConnClose, ConnClosed, ConnClearIp
<1>5. CASE Serv \/ ServData
  BY <1>5 DEF Serv, ServData, ServAccept, ServAcceptFail, ServRecv, ServLost,
     ServEnded, ServClose, ServClosed
<1>6. CASE Heart \/ Server
  BY <1>6 DEF Heart, HeartTest, HeartSend, HeartFailShut, HeartFailClear,
     Server, ServerEnds, ServerReturns
<1>7. CASE UNCHANGED vars
  BY <1>7 DEF vars
<1> QED
  BY <1>1, <1>2, <1>3, <1>4, <1>5, <1>6, <1>7 DEF Next

(***************************************************************************)
(* Stdin is never opened, closed or held by a thread past its connect.     *)
(***************************************************************************)
LEMMA StdinKeeps == IInv /\ [Next]_vars => StdinApart'
<1> SUFFICES ASSUME IInv, [Next]_vars PROVE StdinApart'
  OBVIOUS
<1>0. 0 \in Fds /\ 0 # NoFd
  BY ClientLinkAssumption DEF Fds, NoFd
<1> USE <1>0 DEF IInv, TypeOK, StdinApart, shared, server, fds
<1>1. CASE Guard
  <2>1. CASE GuardShutSend \/ GuardShutClient
    BY <2>1, ShutdownKeeps DEF GuardShutSend, GuardShutClient
  <2>2. CASE Guard /\ ~(GuardShutSend \/ GuardShutClient)
    BY <2>2 DEF Guard, GuardTick, GuardTestSend, GuardClearSend,
       GuardTestClient, GuardClearClient, GuardLinkOff
  <2> QED
    BY <1>1, <2>1, <2>2
<1>3. CASE McastOpen \/ McastError \/ Announcement
  BY <1>3 DEF McastOpen, McastError, Announcement
<1>4. CASE Conn \/ ConnData
  <2>1. CASE ConnOpen
    BY <2>1 DEF ConnOpen, ConnGoto, Open, LowestFree, FreeFds
  <2>2. CASE ConnClose
    BY <2>2 DEF ConnClose, ConnGoto, Close
  <2>3. CASE (Conn \/ ConnData) /\ ~(ConnOpen \/ ConnClose)
    BY <2>3 DEF Conn, ConnData, ConnWait, ConnFail, ConnRegister, ConnRecv,
       ConnLost, ConnEnded, ConnClosed, ConnClearIp, ConnGoto
  <2> QED
    BY <1>4, <2>1, <2>2, <2>3
<1>5. CASE Serv \/ ServData
  <2>1. CASE ServAccept
    BY <2>1 DEF ServAccept, ServGoto, Open, LowestFree, FreeFds
  <2>2. CASE ServClose
    BY <2>2 DEF ServClose, ServGoto, Close
  <2>3. CASE (Serv \/ ServData) /\ ~(ServAccept \/ ServClose)
    BY <2>3 DEF Serv, ServData, ServAcceptFail, ServRecv, ServLost, ServEnded,
       ServClosed, ServGoto
  <2> QED
    BY <1>5, <2>1, <2>2, <2>3
<1>6. CASE Heart
  <2>1. CASE HeartFailShut
    BY <2>1, ShutdownKeeps DEF HeartFailShut
  <2>2. CASE Heart /\ ~HeartFailShut
    BY <2>2 DEF Heart, HeartTest, HeartSend, HeartFailClear, ResetIfBack
  <2> QED
    BY <1>6, <2>1, <2>2
<1>7. CASE Server
  BY <1>7 DEF Server, ServerEnds, ServerReturns
<1>8. CASE UNCHANGED vars
  BY <1>8 DEF vars
<1> QED
  BY <1>1, <1>3, <1>4, <1>5, <1>6, <1>7, <1>8 DEF Next

(***************************************************************************)
(* Only its own thread makes or closes a descriptor that it still names.   *)
(***************************************************************************)
LEMMA OwnKeeps == IInv /\ [Next]_vars => CloseOnlyOwn'
<1> SUFFICES ASSUME IInv, [Next]_vars PROVE CloseOnlyOwn'
  OBVIOUS
<1>0. 0 \in Fds /\ 0 # NoFd /\ NoFd \notin Fds
  BY ClientLinkAssumption DEF Fds, NoFd
<1> USE <1>0 DEF IInv, TypeOK, StdinApart, CloseOnlyOwn, OwnedBy, shared,
        server, fds
<1>1. CASE Guard
  <2>1. CASE GuardShutSend \/ GuardShutClient
    BY <2>1, ShutdownKeeps DEF GuardShutSend, GuardShutClient
  <2>2. CASE Guard /\ ~(GuardShutSend \/ GuardShutClient)
    BY <2>2 DEF Guard, GuardTick, GuardTestSend, GuardClearSend,
       GuardTestClient, GuardClearClient, GuardLinkOff
  <2> QED
    BY <1>1, <2>1, <2>2
<1>3. CASE McastOpen \/ McastError \/ Announcement
  BY <1>3 DEF McastOpen, McastError, Announcement
<1>4. CASE Conn \/ ConnData
  <2>1. CASE ConnOpen
    BY <2>1 DEF ConnOpen, ConnGoto, Open, LowestFree, FreeFds
  <2>2. CASE ConnClose
    BY <2>2 DEF ConnClose, ConnGoto, Close
  <2>3. CASE (Conn \/ ConnData) /\ ~(ConnOpen \/ ConnClose)
    BY <2>3 DEF Conn, ConnData, ConnWait, ConnFail, ConnRegister, ConnRecv,
       ConnLost, ConnEnded, ConnClosed, ConnClearIp, ConnGoto
  <2> QED
    BY <1>4, <2>1, <2>2, <2>3
<1>5. CASE Serv \/ ServData
  <2>1. CASE ServAccept
    BY <2>1 DEF ServAccept, ServGoto, Open, LowestFree, FreeFds
  <2>2. CASE ServClose
    BY <2>2 DEF ServClose, ServGoto, Close
  <2>3. CASE (Serv \/ ServData) /\ ~(ServAccept \/ ServClose)
    BY <2>3 DEF Serv, ServData, ServAcceptFail, ServRecv, ServLost, ServEnded,
       ServClosed, ServGoto
  <2> QED
    BY <1>5, <2>1, <2>2, <2>3
<1>6. CASE Heart
  <2>1. CASE HeartFailShut
    BY <2>1, ShutdownKeeps DEF HeartFailShut
  <2>2. CASE Heart /\ ~HeartFailShut
    BY <2>2 DEF Heart, HeartTest, HeartSend, HeartFailClear, ResetIfBack
  <2> QED
    BY <1>6, <2>1, <2>2
<1>7. CASE Server
  BY <1>7 DEF Server, ServerEnds, ServerReturns
<1>8. CASE UNCHANGED vars
  BY <1>8 DEF vars
<1> QED
  BY <1>1, <1>3, <1>4, <1>5, <1>6, <1>7, <1>8 DEF Next

(***************************************************************************)
(* The inductive invariant of the link holds throughout.                   *)
(***************************************************************************)
THEOREM LinkInvariant == Spec => []IInv
<1>1. Init => IInv
  BY InitEstablishes
<1>2. IInv /\ [Next]_vars => IInv'
  BY TypeKeeps, AddressKeeps, StdinKeeps, OwnKeeps DEF IInv
<1> QED
  BY <1>1, <1>2, PTL DEF Spec

(***************************************************************************)
(* The state of the link is well typed.                                    *)
(***************************************************************************)
THEOREM LinkTypeOK == Spec => []TypeOK
<1>1. IInv => TypeOK
  BY DEF IInv
<1> QED
  BY <1>1, LinkInvariant, PTL

(***************************************************************************)
(* No announcement is half lost to the guard: a link that is off has no    *)
(* server address.                                                         *)
(***************************************************************************)
THEOREM LinkConsistent == Spec => []LinkStateConsistent
<1>1. IInv => LinkStateConsistent
  BY DEF IInv, AddressGone, LinkStateConsistent
<1> QED
  BY <1>1, LinkInvariant, PTL

(***************************************************************************)
(* No thread closes a descriptor of another, without any lock on send_fd.  *)
(***************************************************************************)
THEOREM LinkClosesOwn == Spec => []CloseOnlyOwn
<1>1. IInv => CloseOnlyOwn
  BY DEF IInv
<1> QED
  BY <1>1, LinkInvariant, PTL

(***************************************************************************)
(* The guard drops the link only after AliveTimeout silent ticks.          *)
(***************************************************************************)
THEOREM LinkDropsExpired == Spec => DropsOnlyExpired
<1>1. IInv /\ [Next]_vars =>
          [link_on = 1 /\ link_on' = 0 => time_alive_timeout = AliveTimeout]_vars
  <2> SUFFICES ASSUME IInv, [Next]_vars, link_on = 1, link_on' = 0
               PROVE  time_alive_timeout = AliveTimeout
    OBVIOUS
  <2> USE DEF IInv, AddressGone, shared, server, fds
  <2>1. CASE Guard
    BY <2>1 DEF Guard, GuardTick, GuardTestSend, GuardShutSend,
       GuardClearSend, GuardTestClient, GuardShutClient, GuardClearClient,
       GuardLinkOff, GuardGoto
  <2>2. CASE McastOpen \/ McastError \/ Announcement
    BY <2>2 DEF McastOpen, McastError, Announcement
  <2>3. CASE Conn \/ ConnData
    BY <2>3 DEF Conn, ConnData, ConnWait, ConnOpen, ConnFail, ConnRegister,
       ConnRecv, ConnLost, ConnEnded, ConnClose, ConnClosed, ConnClearIp
  <2>4. CASE Serv \/ ServData
    BY <2>4 DEF Serv, ServData, ServAccept, ServAcceptFail, ServRecv,
       ServLost, ServEnded, ServClose, ServClosed
  <2>5. CASE Heart \/ Server
    BY <2>5 DEF Heart, HeartTest, HeartSend, HeartFailShut, HeartFailClear,
       Server, ServerEnds, ServerReturns
  <2>6. CASE UNCHANGED vars
    BY <2>6 DEF vars
  <2> QED
    BY <2>1, <2>2, <2>3, <2>4, <2>5, <2>6 DEF Next
<1> QED
  BY <1>1, LinkInvariant, PTL DEF Spec, DropsOnlyExpired
=============================================================================
