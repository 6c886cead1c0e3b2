-------------------------- MODULE DhcpClientProofs ---------------------------
(***************************************************************************)
(* Proofs about DhcpClient, for any servers, any leases they grant and any *)
(* time that a message may spend in the network.  That the times of a      *)
(* lease are in order is said where it is needed: TimesInOrder and         *)
(* RebindsInTime.                                                          *)
(***************************************************************************)
EXTENDS DhcpClient, ProofBasics

-----------------------------------------------------------------------------
(***************************************************************************)
(* Messages.                                                               *)
(***************************************************************************)
Question == [type : {"DISCOVER", "REQUEST", "RELEASE"}, server : Servers,
             ip : Addresses, sid : Addresses, current : BOOLEAN,
             age : 0 .. Lifetime]
Reply == [type : {"OFFER", "ACK", "NAK"}, server : Servers,
          current : BOOLEAN, age : 0 .. Lifetime]

\* A message is not changed on its way but for its age and its being current.
SameMessage(m, n) ==
  /\ m.type = n.type /\ m.server = n.server
  /\ m.type = "REQUEST" => m.ip = n.ip /\ m.sid = n.sid

\* What is left after a second is a second older.
LEMMA AgedKeeps ==
  ASSUME NEW N \in SUBSET Message
  PROVE  /\ Aged(N) \subseteq Message
         /\ \A m \in Aged(N) : \E n \in N :
              SameMessage(m, n) /\ m.current = n.current /\ m.age = n.age + 1
<1> SUFFICES ASSUME NEW n \in N, n.age < Lifetime
             PROVE  LET m == [n EXCEPT !.age = @ + 1]
                    IN  /\ m \in Message /\ SameMessage(m, n)
                        /\ m.current = n.current /\ m.age = n.age + 1
  BY DEF Aged
<1>1. CASE n \in Question
  BY <1>1, DhcpAssumption DEF Question, Message, SameMessage
<1>2. CASE n \in Reply
  BY <1>2, DhcpAssumption DEF Reply, Message, SameMessage
<1> QED BY <1>1, <1>2 DEF Message, Question, Reply

\* A new transaction leaves nothing current.
LEMMA OutdatedKeeps ==
  ASSUME NEW N \in SUBSET Message
  PROVE  /\ Outdated(N) \subseteq Message
         /\ \A m \in Outdated(N) : ~m.current /\ \E n \in N : SameMessage(m, n)
<1> SUFFICES ASSUME NEW n \in N
             PROVE  LET m == [n EXCEPT !.current = FALSE]
                    IN  m \in Message /\ SameMessage(m, n) /\ ~m.current
  BY DEF Outdated
<1>1. CASE n \in Question
  BY <1>1 DEF Question, Message, SameMessage
<1>2. CASE n \in Reply
  BY <1>2 DEF Reply, Message, SameMessage
<1> QED BY <1>1, <1>2 DEF Message, Question, Reply

\* What the client sends.
LEMMA SentKeeps ==
  ASSUME NEW type \in {"DISCOVER", "REQUEST", "RELEASE"},
         NEW addr \in Addresses, NEW sid \in Addresses, TypeOK
  PROVE  /\ Sent(type, addr, sid) \subseteq Message
         /\ \A m \in Sent(type, addr, sid) :
              m.type = type /\ m.ip = addr /\ m.sid = sid
<1> SUFFICES ASSUME NEW s \in Servers
             PROVE  LET m == ToServer(type, s, addr, sid)
                    IN  m \in Message /\ m.type = type /\ m.ip = addr /\ m.sid = sid
  BY DEF Sent, TypeOK
<1> QED BY DhcpAssumption DEF ToServer, Message

\* What a server answers.
LEMMA AnswerKeeps ==
  ASSUME NEW m \in Message, NEW type \in {"OFFER", "ACK", "NAK"}
  PROVE  LET r == ToClient(type, m)
         IN  /\ r \in Message /\ r.type = type /\ r.server = m.server
             /\ r.current = m.current /\ r.age = 0
<1>1. m.server \in Servers /\ m.current \in BOOLEAN
  BY DEF Message
<1> QED BY <1>1, DhcpAssumption DEF ToClient, Message

-----------------------------------------------------------------------------
(***************************************************************************)
(* The inductive invariant.                                                *)
(***************************************************************************)

\* The server of the lease, while it is known, is the one whose address is used,
\* and is forgotten with it; an IMP that is detached has given its address up.
ServerKnown ==
  /\ Leased => ip \in Servers /\ dhcpip \in {ip, NoServer}
  /\ RebindsInTime /\ ~Leased => dhcpip = NoServer
  /\ ~attached => dhcp_state = "OFF"

\* The counters of a lease whose times are in order, in each of its stages.
CountersInOrder ==
  Leased /\ TimesInOrder(grant[ip]) =>
    /\ dhcp_state = "BOUND" /\ dhcp_lease # Infinite =>
         0 <= dhcp_renew /\ dhcp_renew < dhcp_rebind /\ dhcp_rebind < dhcp_lease
    /\ dhcp_state = "RENEWING" =>
         dhcp_renew < 0 /\ 0 <= dhcp_rebind /\ dhcp_rebind < dhcp_lease
    /\ dhcp_state = "REBINDING" => dhcp_renew < 0 /\ dhcp_rebind < 0

\* A lease is extended only if it ends, and then its server is forgotten before.
ServerIsForgotten ==
  /\ dhcp_state \in {"RENEWING", "REBINDING"} => dhcp_lease # Infinite
  /\ RebindsInTime /\ Leased /\ dhcp_lease # Infinite /\ dhcpip # NoServer =>
       0 <= dhcp_rebind /\ dhcp_rebind < dhcp_lease

\* A request names the server whose address it asks for.
OwnerIsNamed == RebindsInTime => RequestNamesOwner

\* Server s holds a lease that the client counts as l seconds, and lost at most
\* behind seconds of it to the network.
Holds(s, l, behind) ==
  IF l = Infinite THEN left[s] = Infinite ELSE left[s] >= l - behind

\* A grant on its way has been made at most as long ago as the message is old,
\* and the client is behind its server by the message it has got.
LeaseIsHeld ==
  /\ \A m \in net : m.type = "ACK" /\ m.current =>
       Holds(m.server, grant[m.server].lease, m.age)
  /\ Leased => /\ dhcp_lease <= grant[ip].lease
               /\ Holds(ip, dhcp_lease, Lifetime)

\* A RELEASE is only on its way while the IMP is detached, and then nothing else
\* is about its transaction.
ReleaseIsLast ==
  \A m \in net : m.type = "RELEASE" =>
    ~attached /\ \A n \in net : n.current => n.type = "RELEASE"

IInv ==
  /\ TypeOK
  /\ ServerKnown
  /\ OwnerIsNamed
  /\ CountersInOrder
  /\ ServerIsForgotten
  /\ LeaseIsHeld
  /\ ReleaseIsLast

-----------------------------------------------------------------------------
(***************************************************************************)
(* The lease.                                                              *)
(***************************************************************************)

\* The counters that a grant sets.
LEMMA GrantTypes ==
  ASSUME NEW g \in Grants
  PROVE  g.lease \in 1 .. Infinite /\ Renew(g) \in Nat /\ Rebind(g) \in Nat
<1>1. g.lease \in 1 .. Infinite /\ g.t1 \in Nat /\ g.t2 \in Nat
  BY DhcpAssumption
<1>2. LeaseMod \in Nat \ {0}
  BY DhcpAssumption
<1>3. g.lease \div 2 \in Nat
  BY <1>1, <1>2 DEF Infinite
<1>4. (7 * g.lease) % LeaseMod \in Nat
  <2>1. 7 * g.lease \in Int
    BY <1>1, <1>2 DEF Infinite
  <2>2. (7 * g.lease) % LeaseMod \in 0 .. (LeaseMod - 1)
    BY <1>2, <2>1, ModProperties
  <2> QED BY <1>2, <2>2
<1> HIDE DEF Infinite
<1>5. ((7 * g.lease) % LeaseMod) \div 8 \in Nat
  BY <1>4
<1> QED BY <1>1, <1>3, <1>5 DEF Renew, Rebind

\* A second of the lease, whatever its times are.
LEMMA SecondOfLease ==
  ASSUME IInv, CountLease
  PROVE  /\ dhcp_lease' \in 0 .. Infinite
         /\ dhcp_renew' \in Int /\ dhcp_rebind' \in Int
         /\ dhcp_lease = Infinite => dhcp_lease' = Infinite
         /\ ~Leased => CountedState = dhcp_state
         /\ CountedState \in {"RENEWING", "REBINDING"} => dhcp_lease' # Infinite
         /\ Leased /\ CountedState = "OFF" => dhcp_lease # Infinite /\ dhcp_lease = 0
         /\ Leased => CountedState \in {"BOUND", "RENEWING", "REBINDING", "OFF"}
         /\ CountedState = "BOUND" => dhcp_state = "BOUND"
         /\ RebindStarts => CountedState = "REBINDING"
         /\ Leased /\ CountedState # "OFF" /\ dhcp_lease' # Infinite /\ ~RebindStarts
            /\ 0 <= dhcp_rebind /\ dhcp_rebind < dhcp_lease =>
              0 <= dhcp_rebind' /\ dhcp_rebind' < dhcp_lease'
         /\ CountedState \in {"BOUND", "RENEWING", "REBINDING"} /\ dhcp_lease # Infinite =>
              dhcp_lease > 0 /\ dhcp_lease' = dhcp_lease - 1
<1>1. /\ dhcp_lease \in 0 .. Infinite /\ dhcp_renew \in Int /\ dhcp_rebind \in Int
      /\ dhcp_state \in States /\ LeaseMod \in Nat \ {0}
      /\ ServerIsForgotten
  BY DhcpAssumption DEF IInv, TypeOK
<1>2. /\ (dhcp_lease - 1) % LeaseMod \in 0 .. Infinite
      /\ dhcp_lease # 0 => (dhcp_lease - 1) % LeaseMod = dhcp_lease - 1
  <2>1. (dhcp_lease - 1) % LeaseMod \in 0 .. Infinite
    BY <1>1, ModProperties DEF Infinite
  <2>2. ASSUME dhcp_lease # 0 PROVE dhcp_lease - 1 \in 0 .. (LeaseMod - 1)
    BY <1>1, <2>2 DEF Infinite
  <2> QED BY <1>1, <2>1, <2>2, RemainderOfSmall
<1> DEFINE wrapped == (dhcp_lease - 1) % LeaseMod
<1>3. /\ wrapped \in 0 .. Infinite
      /\ dhcp_lease # 0 => wrapped = dhcp_lease - 1
      /\ dhcp_lease' = IF Counting THEN wrapped ELSE dhcp_lease
  BY <1>2 DEF CountLease
<1>4. Infinite \in Nat
  BY <1>1 DEF Infinite
<1> HIDE DEF wrapped, Infinite
<1>5. CASE dhcp_state = "BOUND"
  BY <1>1, <1>3, <1>4, <1>5 DEF CountLease, Counting, Leased, ServerIsForgotten, CountedState,
     LeaseEnds, RebindStarts, RenewStarts
<1>6. CASE dhcp_state = "RENEWING"
  BY <1>1, <1>3, <1>4, <1>6 DEF CountLease, Counting, Leased, ServerIsForgotten, CountedState,
     LeaseEnds, RebindStarts, RenewStarts
<1>7. CASE dhcp_state = "REBINDING"
  BY <1>1, <1>3, <1>4, <1>7 DEF CountLease, Counting, Leased, ServerIsForgotten, CountedState,
     LeaseEnds, RebindStarts, RenewStarts
<1>8. CASE dhcp_state \in {"OFF", "SELECTING", "REQUESTING"}
  BY <1>1, <1>3, <1>4, <1>8 DEF CountLease, Counting, Leased, ServerIsForgotten, CountedState,
     LeaseEnds, RebindStarts, RenewStarts
<1> QED BY <1>1, <1>5, <1>6, <1>7, <1>8 DEF States

\* A second of a lease whose times are in order: the stages follow each other.
LEMMA SecondInOrder ==
  ASSUME IInv, CountLease, Leased, TimesInOrder(grant[ip])
  PROVE  /\ dhcp_state = "BOUND" => CountedState \in {"BOUND", "RENEWING"}
         /\ dhcp_state = "RENEWING" => CountedState \in {"RENEWING", "REBINDING"}
         /\ dhcp_state = "REBINDING" => CountedState \in {"REBINDING", "OFF"}
         /\ CountedState = "BOUND" /\ dhcp_lease' # Infinite =>
              /\ 0 <= dhcp_renew' /\ dhcp_renew' < dhcp_rebind'
              /\ dhcp_rebind' < dhcp_lease'
         /\ CountedState = "RENEWING" =>
              dhcp_renew' < 0 /\ 0 <= dhcp_rebind' /\ dhcp_rebind' < dhcp_lease'
         /\ CountedState = "REBINDING" => dhcp_renew' < 0 /\ dhcp_rebind' < 0
<1>1. /\ dhcp_lease \in 0 .. Infinite /\ dhcp_renew \in Int /\ dhcp_rebind \in Int
      /\ dhcp_state \in {"BOUND", "RENEWING", "REBINDING"} /\ Infinite \in Nat
      /\ ServerIsForgotten
      /\ dhcp_state = "BOUND" /\ dhcp_lease # Infinite =>
           0 <= dhcp_renew /\ dhcp_renew < dhcp_rebind /\ dhcp_rebind < dhcp_lease
      /\ dhcp_state = "RENEWING" =>
           dhcp_renew < 0 /\ 0 <= dhcp_rebind /\ dhcp_rebind < dhcp_lease
      /\ dhcp_state = "REBINDING" => dhcp_renew < 0 /\ dhcp_rebind < 0
  BY DhcpAssumption DEF IInv, TypeOK, CountersInOrder, Leased, Infinite
<1>2. /\ dhcp_lease = Infinite => dhcp_lease' = Infinite
      /\ CountedState \in {"BOUND", "RENEWING", "REBINDING"} /\ dhcp_lease # Infinite =>
           dhcp_lease > 0 /\ dhcp_lease' = dhcp_lease - 1
  BY SecondOfLease
<1> HIDE DEF Infinite
<1>3. CASE dhcp_state = "BOUND"
  BY <1>1, <1>2, <1>3 DEF CountLease, Counting, Leased, ServerIsForgotten, CountedState,
     LeaseEnds, RebindStarts, RenewStarts
<1>4. CASE dhcp_state = "RENEWING"
  BY <1>1, <1>2, <1>4 DEF CountLease, Counting, Leased, ServerIsForgotten, CountedState,
     LeaseEnds, RebindStarts, RenewStarts
<1>5. CASE dhcp_state = "REBINDING"
  BY <1>1, <1>2, <1>5 DEF CountLease, Counting, Leased, ServerIsForgotten, CountedState,
     LeaseEnds, RebindStarts, RenewStarts
<1> QED BY <1>1, <1>3, <1>4, <1>5

\* The messages of an honest client.
Sane(N) ==
  /\ N \subseteq Message
  /\ RebindsInTime => \A m \in N : m.type = "REQUEST" => m.sid \in {m.ip, NoServer}

LEMMA SaneMessages ==
  /\ IInv => Sane(net)
  /\ \A N : Sane(N) => Sane(Aged(N)) /\ Sane(Outdated(N))
<1>1. IInv => Sane(net)
  BY DEF IInv, TypeOK, OwnerIsNamed, RequestNamesOwner, Sane
<1>2. ASSUME NEW N, Sane(N) PROVE Sane(Aged(N))
  BY <1>2, AgedKeeps DEF Sane, SameMessage
<1>3. ASSUME NEW N, Sane(N) PROVE Sane(Outdated(N))
  BY <1>3, OutdatedKeeps DEF Sane, SameMessage
<1> QED BY <1>1, <1>2, <1>3

\* A second later a server holds a lease for a second less.
LEMMA HeldASecondLater ==
  ASSUME TypeOK, ServerSecond, NEW s \in Servers, NEW l \in 1 .. Infinite,
         NEW b \in 0 .. Lifetime, Holds(s, l, b)
  PROVE  IF l = Infinite THEN left'[s] = Infinite ELSE left'[s] >= l - b - 1
<1>1. left[s] \in Ended .. Infinite /\ Infinite \in Int /\ Lifetime \in Nat
  BY DhcpAssumption DEF TypeOK, Infinite
<1>2. left'[s] = IF left[s] \in {Infinite, Ended} THEN left[s] ELSE left[s] - 1
  BY DEF ServerSecond
<1>3. Ended \in Int /\ Ended < 1 - b
  BY <1>1 DEF Ended
<1> HIDE DEF Infinite, Ended
<1> QED BY <1>1, <1>2, <1>3 DEF Holds

\* The servers' side of a second, while the client waits or counts.
LEMMA SecondOfServers ==
  ASSUME IInv, ServerSecond, UNCHANGED grant
  PROVE  /\ left' \in [Servers -> Ended .. Infinite]
         /\ \A m \in Aged(net) : m.type = "ACK" /\ m.current =>
              Holds(m.server, grant[m.server].lease, m.age)'
         /\ Leased /\ dhcp_lease # 0 =>
              IF dhcp_lease = Infinite THEN left'[ip] = Infinite
              ELSE left'[ip] >= dhcp_lease - 1 - Lifetime
<1>1. TypeOK
  BY DEF IInv
<1>2. left' \in [Servers -> Ended .. Infinite]
  <2>1. left \in [Servers -> Ended .. Infinite] /\ Ended \in Int /\ Infinite \in Int
    BY <1>1, DhcpAssumption DEF TypeOK, Ended, Infinite
  <2> HIDE DEF Ended, Infinite
  <2> QED BY <2>1 DEF ServerSecond
<1>3. ASSUME NEW m \in Aged(net), m.type = "ACK", m.current
      PROVE  Holds(m.server, grant[m.server].lease, m.age)'
  <2>1. PICK n \in net : SameMessage(m, n) /\ m.current = n.current /\ m.age = n.age + 1
    BY <1>1, <1>3, AgedKeeps DEF TypeOK
  <2>2. n.type = "ACK" /\ n.current /\ n.server = m.server
    BY <1>3, <2>1 DEF SameMessage
  <2>3. n \in Message
    BY <1>1 DEF TypeOK
  <2>4. n.server \in Servers /\ n.age \in 0 .. Lifetime
    BY <2>3 DEF Message
  <2>5. Holds(n.server, grant[n.server].lease, n.age)
    BY <2>2 DEF IInv, LeaseIsHeld
  <2>6. grant[n.server].lease \in 1 .. Infinite
    BY <2>4, <1>1, DhcpAssumption DEF TypeOK
  <2>7. IF grant[n.server].lease = Infinite THEN left'[n.server] = Infinite
        ELSE left'[n.server] >= grant[n.server].lease - n.age - 1
    BY <1>1, <2>4, <2>5, <2>6, HeldASecondLater
  <2>8. Infinite \in Int
    BY DhcpAssumption DEF Infinite
  <2> HIDE DEF Infinite
  <2> QED BY <2>1, <2>2, <2>4, <2>6, <2>7, <2>8 DEF Holds
<1>4. ASSUME Leased, dhcp_lease # 0
      PROVE  IF dhcp_lease = Infinite THEN left'[ip] = Infinite
             ELSE left'[ip] >= dhcp_lease - 1 - Lifetime
  <2>1. ip \in Servers /\ Holds(ip, dhcp_lease, Lifetime)
    BY <1>4 DEF IInv, ServerKnown, LeaseIsHeld
  <2>2. dhcp_lease \in 1 .. Infinite /\ Lifetime \in Nat
    BY <1>1, <1>4, DhcpAssumption DEF TypeOK, Infinite
  <2>3. Lifetime \in 0 .. Lifetime
    BY <2>2
  <2>4. IF dhcp_lease = Infinite THEN left'[ip] = Infinite
        ELSE left'[ip] >= dhcp_lease - Lifetime - 1
    BY <1>1, <2>1, <2>2, <2>3, HeldASecondLater
  <2>5. left'[ip] \in Int
    BY <1>2, <2>1, DhcpAssumption DEF Ended, Infinite
  <2> HIDE DEF Infinite
  <2> QED BY <2>2, <2>4, <2>5
<1> QED BY <1>2, <1>3, <1>4

-----------------------------------------------------------------------------
LEMMA InitIInv == Init => IInv
<1> SUFFICES ASSUME Init PROVE IInv
  OBVIOUS
<1>1. TypeOK
  BY DhcpAssumption DEF Init, TypeOK, Message, Addresses, States, Ended, Infinite
<1>2. /\ ServerKnown /\ OwnerIsNamed /\ CountersInOrder /\ ServerIsForgotten
      /\ LeaseIsHeld /\ ReleaseIsLast
  BY DEF Init, ServerKnown, OwnerIsNamed, RequestNamesOwner, CountersInOrder,
         ServerIsForgotten, LeaseIsHeld, ReleaseIsLast, Leased
<1> QED BY <1>1, <1>2 DEF IInv

-----------------------------------------------------------------------------
(***************************************************************************)
(* The timer.                                                              *)
(***************************************************************************)

\* What it sends is sane, and leaves the grants on their way as they were.
LEMMA TimerMessages ==
  ASSUME IInv, imp_dhcp_timer
  PROVE  /\ Sane(net')
         /\ \A m \in net' : /\ m.type # "RELEASE"
                            /\ m.type = "ACK" /\ m.current => m \in Aged(net)
<1> DEFINE Kept(N) == \A m \in N : /\ m.type # "RELEASE"
                                   /\ m.type = "ACK" /\ m.current => m \in Aged(net)
<1>1. /\ TypeOK /\ attached
      /\ ip \in Addresses /\ dhcpip \in Addresses /\ NoServer \in Addresses
      /\ net \subseteq Message /\ Aged(net) \subseteq Message
  BY AgedKeeps DEF IInv, TypeOK, imp_dhcp_timer, Addresses
<1>2. Sane(Aged(net)) /\ Sane(Outdated(Aged(net)))
  BY SaneMessages
<1>3. Kept(Aged(net)) /\ Kept(Outdated(Aged(net)))
  <2>1. \A m \in net : m.type # "RELEASE"
    BY <1>1 DEF IInv, ReleaseIsLast
  <2>2. \A m \in Aged(net) : m.type # "RELEASE"
    BY <1>1, <2>1, AgedKeeps DEF SameMessage
  <2>3. \A m \in Outdated(Aged(net)) : m.type # "RELEASE" /\ ~m.current
    BY <1>1, <2>2, OutdatedKeeps DEF SameMessage
  <2> QED BY <2>2, <2>3
<1>4. ASSUME Discover PROVE Sane(net') /\ Kept(net')
  <2>1. Sane(Sent("DISCOVER", NoServer, NoServer)) /\ Kept(Sent("DISCOVER", NoServer, NoServer))
    BY <1>1, SentKeeps DEF Sane
  <2> QED BY <1>2, <1>3, <1>4, <2>1 DEF Discover, Sane
<1>5. ASSUME NEW sid \in Addresses, RebindsInTime => sid \in {ip, NoServer}, Request(sid)
      PROVE  Sane(net') /\ Kept(net')
  <2>1. Sane(Sent("REQUEST", ip, sid)) /\ Kept(Sent("REQUEST", ip, sid))
    BY <1>1, <1>5, SentKeeps DEF Sane
  <2>2. net' = Aged(net) \cup Sent("REQUEST", ip, sid)
    BY <1>5 DEF Request
  <2> QED BY <1>2, <1>3, <2>1, <2>2 DEF Sane
<1>6. RebindsInTime => dhcpip \in {ip, NoServer}
  BY DEF IInv, ServerKnown
<1>7. CASE KeepLease
  BY <1>2, <1>3, <1>7 DEF KeepLease
<1>8. CASE Extend
  BY <1>1, <1>5, <1>6, <1>8 DEF Extend
<1>9. CASE StartDiscovery
  BY <1>4, <1>9 DEF StartDiscovery
<1>10. CASE Wait
  BY <1>2, <1>3, <1>10 DEF Wait
<1>11. CASE Retry
  BY <1>1, <1>4, <1>5, <1>6, <1>11 DEF Retry
<1> QED BY <1>7, <1>8, <1>9, <1>10, <1>11 DEF imp_dhcp_timer

\* The states that it goes through.
LEMMA TimerStates ==
  ASSUME IInv, imp_dhcp_timer
  PROVE  \/ /\ dhcp_state' = CountedState
            /\ CountedState \in {"BOUND", "RENEWING", "REBINDING"} /\ Leased
         \/ /\ dhcp_state' \in {"SELECTING", "REQUESTING"}
            /\ Leased => CountedState = "OFF"
<1>1. CountLease
  BY DEF imp_dhcp_timer
<1>2. /\ ~Leased => CountedState = dhcp_state
      /\ CountedState = "BOUND" => dhcp_state = "BOUND"
  BY <1>1, SecondOfLease
<1>3. CASE KeepLease \/ Extend
  BY <1>2, <1>3 DEF KeepLease, Extend, Leased
<1>4. CASE StartDiscovery \/ Wait \/ Retry
  BY <1>2, <1>4 DEF StartDiscovery, Wait, Retry, Leased
<1> QED BY <1>3, <1>4 DEF imp_dhcp_timer

LEMMA TimerKeeps ==
  ASSUME IInv, imp_dhcp_timer
  PROVE  IInv'
<1>1. /\ CountLease /\ ForgetServer /\ ServerSecond /\ attached
      /\ UNCHANGED <<grant, attached, ip, arp>>
  BY DEF imp_dhcp_timer
<1>2. Sane(net') /\ \A m \in net' : /\ m.type # "RELEASE"
                                    /\ m.type = "ACK" /\ m.current => m \in Aged(net)
  BY TimerMessages
<1>3. TypeOK'
  <2>1. left' \in [Servers -> Ended .. Infinite]
    BY <1>1, SecondOfServers
  <2>2. dhcp_lease' \in 0 .. Infinite /\ dhcp_renew' \in Int /\ dhcp_rebind' \in Int
    BY <1>1, SecondOfLease
  <2>3. dhcp_state' \in States
    BY TimerStates DEF States
  <2>4. dhcp_wait_time' \in Nat /\ dhcp_retry_after' \in Nat
    BY DhcpAssumption DEF imp_dhcp_timer, IInv, TypeOK, KeepLease, Extend, StartDiscovery, Wait,
       Retry, StartWait, retries
  <2>5. dhcpip' \in Addresses
    BY <1>1 DEF ForgetServer, IInv, TypeOK, Addresses
  <2> QED BY <1>1, <1>2, <2>1, <2>2, <2>3, <2>4, <2>5 DEF IInv, TypeOK, Sane
<1>states. /\ Leased' => Leased /\ dhcp_state' = CountedState /\ CountedState # "OFF"
           /\ Leased /\ ~Leased' => CountedState = "OFF"
  BY TimerStates DEF Leased
<1>4. ServerKnown'
  <2>1. Leased' => ip' \in Servers /\ dhcpip' \in {ip', NoServer}
    BY <1>1, <1>states DEF IInv, ServerKnown, ForgetServer
  <2>2. ASSUME RebindsInTime, ~Leased' PROVE dhcpip' = NoServer
    <3>1. CASE Leased
      <4>1. dhcp_lease # Infinite /\ dhcp_lease = 0 /\ dhcp_rebind \in Int
        BY <1>1, <1>states, <2>2, <3>1, SecondOfLease DEF IInv, TypeOK
      <4>2. ~(0 <= dhcp_rebind /\ dhcp_rebind < dhcp_lease)
        BY <4>1
      <4>3. dhcpip = NoServer
        BY <2>2, <3>1, <4>1, <4>2 DEF IInv, ServerIsForgotten
      <4> QED BY <1>1, <4>3 DEF ForgetServer
    <3>2. CASE ~Leased
      BY <1>1, <2>2, <3>2 DEF IInv, ServerKnown, ForgetServer
    <3> QED BY <3>1, <3>2
  <2> QED BY <1>1, <2>1, <2>2 DEF ServerKnown, RebindsInTime
<1>5. OwnerIsNamed' /\ ReleaseIsLast'
  BY <1>2 DEF Sane, OwnerIsNamed, RequestNamesOwner, ReleaseIsLast
<1>6. CountersInOrder'
  <2> SUFFICES ASSUME Leased', TimesInOrder(grant[ip])
               PROVE  CountersInOrder'
    BY <1>1 DEF CountersInOrder
  <2>1. Leased /\ dhcp_state' = CountedState
    BY <1>states DEF Leased
  <2> QED BY <1>1, <2>1, SecondInOrder DEF CountersInOrder
<1>forgotten. ServerIsForgotten'
  <2>1. dhcp_state' \in {"RENEWING", "REBINDING"} => dhcp_lease' # Infinite
    BY <1>1, TimerStates, SecondOfLease
  <2>2. ASSUME RebindsInTime, Leased', dhcp_lease' # Infinite, dhcpip' # NoServer
        PROVE  0 <= dhcp_rebind' /\ dhcp_rebind' < dhcp_lease'
    <3>1. Leased /\ CountedState # "OFF" /\ dhcp_lease # Infinite
      BY <1>1, <1>states, <2>2, SecondOfLease DEF Leased
    <3>2. ~RebindStarts /\ dhcpip # NoServer
      BY <1>1, <2>2 DEF ForgetServer
    <3>3. 0 <= dhcp_rebind /\ dhcp_rebind < dhcp_lease
      BY <2>2, <3>1, <3>2 DEF IInv, ServerIsForgotten
    <3> QED BY <1>1, <2>2, <3>1, <3>2, <3>3, SecondOfLease
  <2> QED BY <2>1, <2>2 DEF ServerIsForgotten, RebindsInTime
<1>7. LeaseIsHeld'
  <2>1. \A m \in net' : m.type = "ACK" /\ m.current =>
          Holds(m.server, grant[m.server].lease, m.age)'
    BY <1>1, <1>2, SecondOfServers
  <2>2. ASSUME Leased'
        PROVE  dhcp_lease' <= grant[ip].lease /\ Holds(ip, dhcp_lease, Lifetime)'
    <3>1. dhcp_state' = CountedState /\ CountedState \in {"BOUND", "RENEWING", "REBINDING"}
      BY <2>2, TimerStates DEF Leased
    <3>2. Leased
      BY <1>states, <2>2 DEF Leased
    <3>3. /\ dhcp_lease = Infinite => dhcp_lease' = Infinite
          /\ dhcp_lease # Infinite => dhcp_lease > 0 /\ dhcp_lease' = dhcp_lease - 1
      BY <1>1, <3>1, SecondOfLease
    <3>4. /\ dhcp_lease \in 0 .. Infinite /\ ip \in Servers
          /\ dhcp_lease <= grant[ip].lease /\ grant[ip].lease \in 1 .. Infinite
          /\ Infinite \in Nat /\ Lifetime \in Nat
      BY <3>2, DhcpAssumption DEF IInv, TypeOK, ServerKnown, LeaseIsHeld, Infinite
    <3>5. IF dhcp_lease = Infinite THEN left'[ip] = Infinite
          ELSE left'[ip] >= dhcp_lease - 1 - Lifetime
      <4>1. dhcp_lease # 0
        BY <3>3, <3>4
      <4> QED BY <1>1, <3>2, <4>1, SecondOfServers
    <3> HIDE DEF Infinite
    <3> QED BY <1>1, <3>3, <3>4, <3>5 DEF Holds
  <2> QED BY <1>1, <2>1, <2>2 DEF LeaseIsHeld, Holds
<1> QED BY <1>3, <1>4, <1>5, <1>6, <1>forgotten, <1>7 DEF IInv

-----------------------------------------------------------------------------
(***************************************************************************)
(* Answers and commands.                                                   *)
(***************************************************************************)

LEMMA AcceptOfferKeeps ==
  ASSUME IInv, NEW m \in net, AcceptOffer(m)
  PROVE  IInv'
<1>1. /\ TypeOK /\ attached /\ m \in Message /\ m.server \in Servers
      /\ m.server \in Addresses
      /\ dhcp_state = "SELECTING" /\ dhcp_state' = "REQUESTING" /\ ip' = m.server
      /\ UNCHANGED <<grant, left, attached, dhcpip, dhcp_lease, dhcp_renew, dhcp_rebind, arp>>
  BY DEF AcceptOffer, Arrives, IInv, TypeOK, Message, Addresses, counters
<1> DEFINE Asked == Sent("REQUEST", m.server, m.server)
<1>2. /\ Asked \subseteq Message
      /\ \A n \in Asked : n.type = "REQUEST" /\ n.ip = m.server /\ n.sid = m.server
  BY <1>1, SentKeeps
<1>3. net' = (net \ {m}) \cup Asked
  BY DEF AcceptOffer
<1> HIDE DEF Asked
<1>4. TypeOK'
  BY <1>1, <1>2, <1>3, DhcpAssumption DEF TypeOK, AcceptOffer, StartWait, States
<1>5. ServerKnown' /\ CountersInOrder' /\ ServerIsForgotten'
  BY <1>1 DEF IInv, ServerKnown, CountersInOrder, ServerIsForgotten, Leased
<1>6. OwnerIsNamed' /\ ReleaseIsLast'
  BY <1>1, <1>2, <1>3 DEF IInv, OwnerIsNamed, RequestNamesOwner, ReleaseIsLast
<1>7. LeaseIsHeld'
  BY <1>1, <1>2, <1>3 DEF IInv, LeaseIsHeld, Leased, Holds
<1> QED BY <1>4, <1>5, <1>6, <1>7 DEF IInv

LEMMA AcceptAckKeeps ==
  ASSUME IInv, NEW m \in net, AcceptAck(m)
  PROVE  IInv'
<1> DEFINE g == grant[m.server]
<1>1. /\ TypeOK /\ attached /\ m \in Message /\ m.server \in Servers /\ g \in Grants
      /\ m.server \in Addresses /\ m.type = "ACK" /\ m.current /\ m.age \in 0 .. Lifetime
  BY DEF AcceptAck, Arrives, IInv, TypeOK, Message, Addresses
<1>2. /\ dhcp_state' = "BOUND" /\ ip' = m.server /\ dhcpip' = m.server
      /\ dhcp_lease' = g.lease /\ dhcp_renew' = Renew(g) /\ dhcp_rebind' = Rebind(g)
      /\ net' = net \ {m}
      /\ UNCHANGED <<grant, left, attached, dhcp_wait_time, dhcp_retry_after>>
  BY DEF AcceptAck, retries
<1>3. g.lease \in 1 .. Infinite /\ Renew(g) \in Nat /\ Rebind(g) \in Nat
  BY <1>1, GrantTypes
<1>4. Holds(m.server, g.lease, Lifetime)
  <2>1. Holds(m.server, g.lease, m.age)
    BY <1>1 DEF IInv, LeaseIsHeld
  <2>2. left[m.server] \in Int /\ Lifetime \in Nat /\ Infinite \in Int
    BY <1>1, DhcpAssumption DEF TypeOK, Ended, Infinite
  <2> HIDE DEF g, Infinite
  <2> QED BY <1>1, <1>3, <2>1, <2>2 DEF Holds
<1>5. arp' \subseteq Servers
  BY <1>1 DEF AcceptAck, TypeOK
<1> HIDE DEF g
<1>6. Infinite \in Nat
  BY DhcpAssumption DEF Infinite
<1>7. TypeOK'
  <2> HIDE DEF Infinite
  <2> QED BY <1>1, <1>2, <1>3, <1>5, <1>6 DEF TypeOK, States
<1>8. ServerKnown' /\ OwnerIsNamed' /\ ReleaseIsLast'
  BY <1>1, <1>2 DEF IInv, ServerKnown, OwnerIsNamed, RequestNamesOwner, ReleaseIsLast, Leased
<1>9. CountersInOrder' /\ ServerIsForgotten'
  <2>1. CountersInOrder'
    BY <1>2, <1>3 DEF CountersInOrder, TimesInOrder, g
  <2>2. RebindsInTime /\ g.lease # Infinite => Rebind(g) < g.lease
    BY <1>1 DEF RebindsInTime
  <2> QED BY <1>2, <1>3, <2>1, <2>2 DEF ServerIsForgotten
<1>10. LeaseIsHeld'
  <2>1. dhcp_lease' <= g.lease
    BY <1>2, <1>3, <1>6
  <2> QED BY <1>2, <1>4, <2>1 DEF IInv, LeaseIsHeld, Holds, g
<1> QED BY <1>7, <1>8, <1>9, <1>10 DEF IInv

LEMMA AcceptNakKeeps ==
  ASSUME IInv, NEW m \in net, AcceptNak(m)
  PROVE  IInv'
<1>1. TypeOK'
  BY DEF IInv, TypeOK, AcceptNak, States, Addresses, counters, retries
<1>2. ServerKnown' /\ CountersInOrder' /\ ServerIsForgotten' /\ LeaseIsHeld'
  BY DEF IInv, AcceptNak, ServerKnown, CountersInOrder, ServerIsForgotten, LeaseIsHeld, Holds, Leased, Arrives
<1>3. OwnerIsNamed' /\ ReleaseIsLast'
  BY DEF IInv, AcceptNak, OwnerIsNamed, RequestNamesOwner, ReleaseIsLast
<1> QED BY <1>1, <1>2, <1>3 DEF IInv

LEMMA DetachKeeps ==
  ASSUME IInv, imp_detach
  PROVE  IInv'
<1>1. /\ TypeOK /\ attached /\ attached' = FALSE
      /\ UNCHANGED <<grant, left, dhcp_lease, dhcp_renew, dhcp_rebind,
                     dhcp_wait_time, dhcp_retry_after, arp>>
  BY DEF imp_detach, IInv, counters, retries
<1>2. \A m \in net : m.type # "RELEASE"
  BY <1>1 DEF IInv, ReleaseIsLast
<1>3. CASE dhcp_state = "OFF"
  <2>1. UNCHANGED <<net, dhcp_state, ip, dhcpip>>
    BY <1>3 DEF imp_detach, imp_dhcp_release
  <2>2. TypeOK'
    BY <1>1, <2>1 DEF TypeOK
  <2>3. ServerKnown' /\ OwnerIsNamed' /\ CountersInOrder' /\ ServerIsForgotten' /\ ReleaseIsLast'
    BY <1>1, <1>2, <1>3, <2>1 DEF IInv, ServerKnown, OwnerIsNamed, RequestNamesOwner, CountersInOrder, ServerIsForgotten,
       ReleaseIsLast, Leased
  <2>4. LeaseIsHeld'
    BY <1>1, <1>3, <2>1 DEF IInv, LeaseIsHeld, Leased, Holds
  <2> QED BY <2>2, <2>3, <2>4 DEF IInv
<1>4. CASE dhcp_state # "OFF"
  <2> DEFINE Released == Sent("RELEASE", ip, dhcpip)
  <2>1. /\ net' = Outdated(net) \cup Released
        /\ dhcp_state' = "OFF" /\ ip' = NoServer /\ dhcpip' = NoServer
    BY <1>4 DEF imp_detach, imp_dhcp_release
  <2>2. /\ Released \subseteq Message
        /\ \A m \in Released : m.type = "RELEASE"
    BY <1>1, SentKeeps DEF TypeOK
  <2>3. /\ Outdated(net) \subseteq Message
        /\ \A m \in Outdated(net) : ~m.current
        /\ RebindsInTime =>
             \A m \in Outdated(net) : m.type = "REQUEST" => m.sid \in {m.ip, NoServer}
    BY <1>1, OutdatedKeeps, SaneMessages DEF TypeOK, Sane
  <2> HIDE DEF Released
  <2>4. TypeOK'
    BY <1>1, <2>1, <2>2, <2>3 DEF TypeOK, States, Addresses
  <2>5. OwnerIsNamed' /\ ReleaseIsLast'
    BY <1>1, <2>1, <2>2, <2>3 DEF OwnerIsNamed, RequestNamesOwner, ReleaseIsLast
  <2>6. ServerKnown' /\ CountersInOrder' /\ ServerIsForgotten' /\ LeaseIsHeld'
    BY <1>1, <2>1, <2>2, <2>3 DEF ServerKnown, CountersInOrder, ServerIsForgotten, LeaseIsHeld, Leased
  <2> QED BY <2>4, <2>5, <2>6 DEF IInv
<1> QED BY <1>3, <1>4

LEMMA AttachKeeps ==
  ASSUME IInv, imp_attach
  PROVE  IInv'
<1>1. /\ TypeOK /\ ~attached /\ attached' /\ dhcp_state' = "OFF" /\ dhcp_state = "OFF"
      /\ net' = Outdated(net) /\ \A m \in net : m.type # "RELEASE"
      /\ UNCHANGED <<grant, left, ip, dhcpip, dhcp_lease, dhcp_renew, dhcp_rebind,
                     dhcp_wait_time, dhcp_retry_after>>
      /\ arp' = {}
  BY DEF imp_attach, IInv, ServerKnown, counters, retries
<1>2. /\ Outdated(net) \subseteq Message
      /\ \A m \in Outdated(net) : ~m.current /\ \E n \in net : SameMessage(m, n)
      /\ RebindsInTime =>
             \A m \in Outdated(net) : m.type = "REQUEST" => m.sid \in {m.ip, NoServer}
  BY <1>1, OutdatedKeeps, SaneMessages DEF TypeOK, Sane
<1>3. \A m \in net' : m.type # "RELEASE"
  BY <1>1, <1>2 DEF SameMessage
<1>4. TypeOK'
  BY <1>1, <1>2 DEF TypeOK, States
<1>5. ServerKnown' /\ CountersInOrder' /\ ServerIsForgotten' /\ LeaseIsHeld'
  BY <1>1, <1>2 DEF IInv, ServerKnown, CountersInOrder, ServerIsForgotten, LeaseIsHeld, Leased
<1>6. OwnerIsNamed' /\ ReleaseIsLast'
  BY <1>1, <1>2, <1>3 DEF OwnerIsNamed, RequestNamesOwner, ReleaseIsLast
<1> QED BY <1>4, <1>5, <1>6 DEF IInv

LEMMA SecondKeeps ==
  ASSUME IInv, Second
  PROVE  IInv'
<1>1. /\ TypeOK /\ ~attached /\ dhcp_state = "OFF" /\ net' = Aged(net) /\ ServerSecond
      /\ UNCHANGED <<grant, attached, dhcp_state, ip, dhcpip, dhcp_lease, dhcp_renew,
                     dhcp_rebind, dhcp_wait_time, dhcp_retry_after, arp>>
  BY DEF Second, IInv, ServerKnown, counters, retries
<1>2. /\ Aged(net) \subseteq Message
      /\ \A m \in Aged(net) : \E n \in net : SameMessage(m, n) /\ m.current = n.current
      /\ RebindsInTime =>
             \A m \in Aged(net) : m.type = "REQUEST" => m.sid \in {m.ip, NoServer}
  BY <1>1, AgedKeeps, SaneMessages DEF TypeOK, Sane
<1>3. /\ left' \in [Servers -> Ended .. Infinite]
      /\ \A m \in Aged(net) : m.type = "ACK" /\ m.current =>
           Holds(m.server, grant[m.server].lease, m.age)'
  BY <1>1, SecondOfServers
<1>4. TypeOK'
  BY <1>1, <1>2, <1>3 DEF TypeOK
<1>5. ServerKnown' /\ CountersInOrder' /\ ServerIsForgotten' /\ LeaseIsHeld'
  BY <1>1, <1>3 DEF IInv, ServerKnown, CountersInOrder, ServerIsForgotten, LeaseIsHeld, Leased
<1>6. OwnerIsNamed' /\ ReleaseIsLast'
  BY <1>1, <1>2 DEF IInv, OwnerIsNamed, RequestNamesOwner, ReleaseIsLast, SameMessage
<1> QED BY <1>4, <1>5, <1>6 DEF IInv

-----------------------------------------------------------------------------
(***************************************************************************)
(* The servers.                                                            *)
(***************************************************************************)

\* An answer that promises no lease, or one that the server holds.
LEMMA AnswersKeep ==
  ASSUME IInv, NEW m \in net, m.type # "RELEASE",
         NEW type \in {"OFFER", "ACK", "NAK"}, Answer(m, type), UNCHANGED clientVars,
         left' \in [Servers -> Ended .. Infinite],
         \A s \in Servers : s # m.server => left'[s] = left[s],
         type = "ACK" => left'[m.server] = grant[m.server].lease,
         type # "ACK" => left' = left
  PROVE  IInv'
<1> DEFINE r == ToClient(type, m)
<1>1. /\ r \in Message /\ r.type = type /\ r.server = m.server
      /\ r.current = m.current /\ r.age = 0
  BY AnswerKeeps DEF IInv, TypeOK
<1>2. net' = (net \ {m}) \cup {r}
  BY DEF Answer
<1> HIDE DEF r
<1>3. /\ TypeOK /\ Infinite \in Int /\ Lifetime \in Nat
      /\ UNCHANGED <<grant, attached, dhcp_state, ip, dhcpip, dhcp_lease, dhcp_renew,
                     dhcp_rebind, dhcp_wait_time, dhcp_retry_after, arp>>
  BY DhcpAssumption DEF IInv, clientVars, counters, retries, Infinite
<1>4. TypeOK'
  BY <1>1, <1>2, <1>3 DEF TypeOK
<1>5. ServerKnown' /\ CountersInOrder' /\ ServerIsForgotten'
  BY <1>3 DEF IInv, ServerKnown, CountersInOrder, ServerIsForgotten, Leased
<1>6. OwnerIsNamed' /\ ReleaseIsLast'
  BY <1>1, <1>2, <1>3 DEF IInv, OwnerIsNamed, RequestNamesOwner, ReleaseIsLast
<1>7. CASE type # "ACK"
  BY <1>1, <1>2, <1>3, <1>5, <1>7, <1>4, <1>6 DEF IInv, LeaseIsHeld, Holds, Leased
<1>8. CASE type = "ACK"
  <2>1. /\ \A n \in net : n.server \in Servers /\ n.age \in 0 .. Lifetime
        /\ \A s \in Servers : grant[s].lease \in 1 .. Infinite
    BY <1>3, DhcpAssumption DEF TypeOK, Message
  <2>2. left'[m.server] = grant[m.server].lease
    BY <1>8
  <2>3. ASSUME NEW s \in Servers, NEW l \in 0 .. Infinite, NEW b \in 0 .. Lifetime,
               l <= grant[s].lease, Holds(s, l, b)
        PROVE  IF l = Infinite THEN left'[s] = Infinite ELSE left'[s] >= l - b
    <3>1. CASE s # m.server
      BY <2>3, <3>1 DEF Holds
    <3>2. CASE s = m.server
      <4> HIDE DEF Infinite
      <4> QED BY <1>3, <2>1, <2>2, <2>3, <3>2
    <3> QED BY <3>1, <3>2
  <2>4. ASSUME NEW n \in net', n.type = "ACK", n.current
        PROVE  Holds(n.server, grant[n.server].lease, n.age)'
    <3>1. CASE n = r
      <4>1. grant[m.server].lease \in 1 .. Infinite
        BY <2>1
      <4> HIDE DEF Infinite
      <4> QED BY <1>1, <1>3, <2>2, <3>1, <4>1 DEF Holds
    <3>2. CASE n \in net
      <4>1. Holds(n.server, grant[n.server].lease, n.age)
        BY <2>4, <3>2 DEF IInv, LeaseIsHeld
      <4>2. /\ grant[n.server].lease \in 0 .. Infinite
            /\ grant[n.server].lease <= grant[n.server].lease
        BY <2>1, <3>2
      <4> QED BY <1>3, <2>1, <2>3, <3>2, <4>1, <4>2 DEF Holds
    <3> QED BY <1>2, <3>1, <3>2
  <2>5. ASSUME Leased
        PROVE  dhcp_lease <= grant[ip].lease /\ Holds(ip, dhcp_lease, Lifetime)'
    <3>1. /\ ip \in Servers /\ dhcp_lease <= grant[ip].lease
          /\ Holds(ip, dhcp_lease, Lifetime)
      BY <2>5 DEF IInv, ServerKnown, LeaseIsHeld
    <3>2. dhcp_lease \in 0 .. Infinite /\ Lifetime \in 0 .. Lifetime
      BY <1>3 DEF TypeOK
    <3> QED BY <1>3, <2>3, <3>1, <3>2 DEF Holds
  <2>6. LeaseIsHeld'
    BY <1>3, <2>4, <2>5 DEF LeaseIsHeld, Leased
  <2> QED BY <1>4, <1>5, <1>6, <2>6 DEF IInv
<1> QED BY <1>7, <1>8

LEMMA ServersKeep ==
  ASSUME IInv, NEW m \in net, Offer(m) \/ Grant(m) \/ Refuse(m)
  PROVE  IInv'
<1>1. TypeOK /\ m.server \in Servers
  BY DEF IInv, TypeOK, Message
<1>2. left \in [Servers -> Ended .. Infinite]
  BY <1>1 DEF TypeOK
<1>3. CASE Offer(m)
  BY <1>2, <1>3, AnswersKeep DEF Offer
<1>4. CASE Refuse(m)
  BY <1>2, <1>4, AnswersKeep DEF Refuse, IsFor
<1>5. CASE Grant(m)
  <2>1. grant[m.server].lease \in 1 .. Infinite
    BY <1>1, DhcpAssumption DEF TypeOK
  <2>2. grant[m.server].lease \in Ended .. Infinite
    BY <2>1, DhcpAssumption DEF Ended, Infinite
  <2>3. /\ left' \in [Servers -> Ended .. Infinite]
        /\ \A s \in Servers : s # m.server => left'[s] = left[s]
        /\ left'[m.server] = grant[m.server].lease
    <3> HIDE DEF Ended, Infinite
    <3> QED BY <1>1, <1>2, <1>5, <2>2 DEF Grant
  <2> QED BY <1>5, <2>3, AnswersKeep DEF Grant, IsFor
<1> QED BY <1>3, <1>4, <1>5

LEMMA EndLeaseKeeps ==
  ASSUME IInv, NEW m \in net, EndLease(m)
  PROVE  IInv'
<1>1. /\ TypeOK /\ m.type = "RELEASE" /\ net' = net \ {m}
      /\ left' = [left EXCEPT ![m.server] = Ended]
      /\ UNCHANGED <<grant, attached, dhcp_state, ip, dhcpip, dhcp_lease, dhcp_renew,
                     dhcp_rebind, dhcp_wait_time, dhcp_retry_after, arp>>
  BY DEF IInv, EndLease, clientVars, counters, retries
<1>2. dhcp_state = "OFF" /\ \A n \in net : n.current => n.type = "RELEASE"
  BY <1>1 DEF IInv, ReleaseIsLast, ServerKnown
<1>3. Ended \in Ended .. Infinite
  BY DhcpAssumption DEF Ended, Infinite
<1>4. TypeOK'
  <2> HIDE DEF Ended, Infinite
  <2> QED BY <1>1, <1>3 DEF TypeOK
<1>5. ServerKnown' /\ CountersInOrder' /\ ServerIsForgotten' /\ LeaseIsHeld'
  BY <1>1, <1>2 DEF IInv, ServerKnown, CountersInOrder, ServerIsForgotten, LeaseIsHeld, Leased
<1>6. OwnerIsNamed' /\ ReleaseIsLast'
  BY <1>1 DEF IInv, OwnerIsNamed, RequestNamesOwner, ReleaseIsLast
<1> QED BY <1>4, <1>5, <1>6 DEF IInv

-----------------------------------------------------------------------------
LEMMA NextKeepsIInv == IInv /\ [Next]_vars => IInv'
<1> SUFFICES ASSUME IInv, [Next]_vars PROVE IInv'
  OBVIOUS
<1>1. CASE imp_dhcp_timer
  BY <1>1, TimerKeeps
<1>2. CASE imp_detach
  BY <1>2, DetachKeeps
<1>3. CASE imp_attach
  BY <1>3, AttachKeeps
<1>4. CASE Second
  BY <1>4, SecondKeeps
<1>5. ASSUME NEW m \in net, AcceptOffer(m) \/ AcceptAck(m) \/ AcceptNak(m)
      PROVE  IInv'
  BY <1>5, AcceptOfferKeeps, AcceptAckKeeps, AcceptNakKeeps
<1>6. ASSUME NEW m \in net, Offer(m) \/ Grant(m) \/ Refuse(m) \/ EndLease(m)
      PROVE  IInv'
  BY <1>6, ServersKeep, EndLeaseKeeps
<1>7. CASE UNCHANGED vars
  <2> USE <1>7 DEF vars, counters, retries
  <2>1. TypeOK'
    BY DEF IInv, TypeOK
  <2>2. ServerKnown' /\ OwnerIsNamed' /\ CountersInOrder' /\ ServerIsForgotten' /\ ReleaseIsLast'
    BY DEF IInv, ServerKnown, OwnerIsNamed, RequestNamesOwner, CountersInOrder, ServerIsForgotten, ReleaseIsLast, Leased
  <2>3. LeaseIsHeld'
    BY DEF IInv, LeaseIsHeld, Leased, Holds
  <2> QED BY <2>1, <2>2, <2>3 DEF IInv
<1> QED BY <1>1, <1>2, <1>3, <1>4, <1>5, <1>6, <1>7 DEF Next

LEMMA IInvHolds == Spec => []IInv
  BY InitIInv, NextKeepsIInv, PTL DEF Spec

-----------------------------------------------------------------------------
(***************************************************************************)
(* The theorems.                                                           *)
(***************************************************************************)

\* The variables keep their types: the lease does not leave its width, and what
\* is under way is a message.
THEOREM TypesAreKept == Spec => []TypeOK
  BY IInvHolds, PTL DEF IInv

\* A request, or its retry, does not name a server that would not grant it, if
\* the servers' T2 is less than the lease, which the client does not look at.
THEOREM RequestsReachTheOwner ==
  ASSUME RebindsInTime
  PROVE  Spec => []RequestNamesOwner
<1>1. IInv => RequestNamesOwner
  BY DEF IInv, OwnerIsNamed
<1> QED BY <1>1, IInvHolds, PTL

\* The client does not use an address longer than its server keeps it, but for
\* the time of a message.
THEOREM AddressStaysGranted == Spec => []AddressIsGranted
<1>1. IInv => AddressIsGranted
  <2> SUFFICES ASSUME IInv, Leased PROVE ip \in Servers /\ left[ip] > Ended
    BY DEF AddressIsGranted
  <2>1. /\ ip \in Servers /\ Holds(ip, dhcp_lease, Lifetime)
        /\ dhcp_lease \in 0 .. Infinite /\ left[ip] \in Int
        /\ Lifetime \in Nat /\ Infinite \in Nat
    BY DhcpAssumption DEF IInv, TypeOK, ServerKnown, LeaseIsHeld, Ended, Infinite
  <2> HIDE DEF Infinite
  <2> QED BY <2>1 DEF Holds, Ended
<1> QED BY <1>1, IInvHolds, PTL

\* No stage of a lease whose times are in order is left out, and none is gone
\* back to but by a grant; whatever the times of other leases are.
THEOREM StagesAdvance == Spec => LeaseStagesAdvance
<1>1. ASSUME IInv, imp_dhcp_timer, Leased, TimesInOrder(grant[ip])
      PROVE  /\ dhcp_state = "BOUND" => dhcp_state' \in {"BOUND", "RENEWING"}
             /\ dhcp_state = "RENEWING" => dhcp_state' \in {"RENEWING", "REBINDING"}
             /\ dhcp_state = "REBINDING" => dhcp_state' \in {"REBINDING", "SELECTING"}
  <2>1. CountLease
    BY <1>1 DEF imp_dhcp_timer
  <2>2. /\ dhcp_state = "BOUND" => CountedState \in {"BOUND", "RENEWING"}
        /\ dhcp_state = "RENEWING" => CountedState \in {"RENEWING", "REBINDING"}
        /\ dhcp_state = "REBINDING" => CountedState \in {"REBINDING", "OFF"}
    BY <1>1, <2>1, SecondInOrder
  <2>3. CASE KeepLease
    BY <2>2, <2>3 DEF KeepLease
  <2>4. CASE Extend
    BY <2>2, <2>4 DEF Extend
  <2>5. CASE StartDiscovery
    BY <2>2, <2>5 DEF StartDiscovery
  <2>6. CASE Wait \/ Retry
    BY <2>6 DEF Wait, Retry
  <2> QED BY <1>1, <2>3, <2>4, <2>5, <2>6 DEF imp_dhcp_timer
<1>2. IInv /\ [Next]_vars =>
        [imp_dhcp_timer /\ Leased /\ TimesInOrder(grant[ip]) =>
          /\ dhcp_state = "BOUND" => dhcp_state' \in {"BOUND", "RENEWING"}
          /\ dhcp_state = "RENEWING" => dhcp_state' \in {"RENEWING", "REBINDING"}
          /\ dhcp_state = "REBINDING" => dhcp_state' \in {"REBINDING", "SELECTING"}]_vars
  BY <1>1
<1> QED BY <1>2, IInvHolds, PTL DEF Spec, LeaseStagesAdvance
=============================================================================
