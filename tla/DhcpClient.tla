----------------------------- MODULE DhcpClient ------------------------------
(***************************************************************************)
(* The DHCP client of the IMP (src/PDP10/kx10_imp.c): how it asks the      *)
(* servers of its network for an address, keeps count of its lease, renews *)
(* and rebinds it, and gives it up when it is detached.  The client is     *)
(* called once a second by its timer (imp_tim_srv) and, between the        *)
(* seconds, once for every packet that arrives (imp_packet_in).            *)
(*                                                                         *)
(* The servers and the network are not under src/.  A server leases one    *)
(* address, named after it; a message is delivered at most Lifetime        *)
(* seconds after it is sent: at once, late, several times, in any order,   *)
(* or never.  The transaction number is 32 bits wide and counts up with    *)
(* every DISCOVER and RELEASE, so that a number does not come back while a *)
(* message that carries it is on its way: a message is current or it is    *)
(* not.                                                                    *)
(***************************************************************************)
EXTENDS Integers, FiniteSets

CONSTANTS
    Servers,        \* the DHCP servers; also the addresses they lease
    NoServer,       \* no server, and the address 0
    Grants,         \* what a server may grant: records [lease, t1, t2, mask]
    LeaseMod,       \* the width of dhcp_lease: 2^32 in the code
    FirstRetry,     \* seconds before the first retry: 4 in the code
    LastRetry,      \* the time between retries stops growing: 64 in the code
    Lifetime        \* how many seconds a message may spend in the network

Infinite == LeaseMod - 1

\* dhcp_renew and dhcp_rebind for a grant: the options T1 and T2 if the server
\* sends them, else a half and 7/8 of the lease, in unsigned arithmetic.
Renew(g) == IF g.t1 # 0 THEN g.t1 ELSE g.lease \div 2
Rebind(g) == IF g.t2 # 0 THEN g.t2 ELSE ((7 * g.lease) % LeaseMod) \div 8

\* Servers send T1 < T2 < lease (RFC 2131, 4.4.5), but the options are taken as
\* they are sent, and the times that the client makes up for a server that
\* leaves them out are equal for a lease of 1 or 2 seconds, and wrong when
\* 7 * dhcp_lease wraps, after 19 years.  So nothing is assumed of them.
TimesInOrder(g) ==
    g.lease # Infinite => Renew(g) < Rebind(g) /\ Rebind(g) < g.lease

\* Every lease that ends is rebound before it ends.
RebindsInTime ==
    \A g \in Grants : g.lease # Infinite => Rebind(g) < g.lease

ASSUME DhcpAssumption ==
    /\ NoServer \notin Servers
    /\ LeaseMod \in Nat \ {0} /\ Lifetime \in Nat
    /\ FirstRetry \in Nat \ {0} /\ LastRetry \in Nat
    /\ \A g \in Grants :
          /\ g.lease \in 1 .. Infinite
          /\ g.t1 \in Nat /\ g.t2 \in Nat      \* 0: the option is not sent
          /\ g.mask \in 0 .. 32                \* bits of the network mask

VARIABLES
    grant,              \* what each server grants
    left,               \* seconds each server still holds our lease
    net,                \* the messages on their way
    attached,           \* UNIT_ATT: the IMP is attached, its timer runs
    dhcp_state, ip, dhcpip,
    dhcp_lease, dhcp_renew, dhcp_rebind,
    dhcp_wait_time, dhcp_retry_after,
    arp                 \* the servers with an entry in the ARP table

counters == <<dhcp_lease, dhcp_renew, dhcp_rebind>>
retries  == <<dhcp_wait_time, dhcp_retry_after>>
vars == <<grant, left, net, attached, dhcp_state, ip, dhcpip,
          counters, retries, arp>>

Addresses == Servers \cup {NoServer}
States == {"OFF", "SELECTING", "REQUESTING", "BOUND", "RENEWING", "REBINDING"}
Leased == dhcp_state \in {"BOUND", "RENEWING", "REBINDING"}
Asking == dhcp_state \in {"REQUESTING", "RENEWING", "REBINDING"}

\* What is left of a lease that is long over, or was never granted.
Ended == -(Lifetime + 1)

-----------------------------------------------------------------------------
(***************************************************************************)
(* Messages.  A broadcast is a message to each server.                     *)
(***************************************************************************)
ToServer(type, s, addr, sid) ==
    [type |-> type, server |-> s, ip |-> addr, sid |-> sid,
     current |-> TRUE, age |-> 0]

ToClient(type, m) ==
    [type |-> type, server |-> m.server, current |-> m.current, age |-> 0]

\* imp_do_send_dhcp: to the server in the ARP table, or a broadcast.
Sent(type, addr, sid) ==
    {ToServer(type, s, addr, sid) :
        s \in IF sid \in arp THEN {sid} ELSE Servers}

\* A second later the messages are older, and the oldest are gone.
Aged(messages) ==
    {[m EXCEPT !.age = @ + 1] : m \in {n \in messages : n.age < Lifetime}}

\* ++dhcp_xid: no message under way is about the new transaction.
Outdated(messages) == {[m EXCEPT !.current = FALSE] : m \in messages}

Init ==
    /\ grant \in [Servers -> Grants]
    /\ left = [s \in Servers |-> Ended]
    /\ net = {} /\ attached = TRUE
    /\ dhcp_state = "OFF" /\ ip = NoServer /\ dhcpip = NoServer
    /\ dhcp_lease = 0 /\ dhcp_renew = 0 /\ dhcp_rebind = 0
    /\ dhcp_wait_time = 0 /\ dhcp_retry_after = 0
    /\ arp = {}

-----------------------------------------------------------------------------
(***************************************************************************)
(* imp_dhcp_timer.  First the lease is counted: the three counters go down *)
(* in a chain of post-decrements, the next one only when the one before it *)
(* has not run out.                                                        *)
(***************************************************************************)
\* A mutant of Counting: the lease is not counted once it is being extended.
CountingBound == dhcp_state = "BOUND" /\ dhcp_lease # Infinite

Counting == Leased /\ dhcp_lease # Infinite

LeaseEnds    == Counting /\ dhcp_lease = 0
RebindStarts == Counting /\ dhcp_lease # 0 /\ dhcp_rebind = 0
RenewStarts  == Counting /\ dhcp_lease # 0 /\ dhcp_rebind # 0
                         /\ dhcp_renew = 0

CountedState == IF LeaseEnds THEN "OFF"
                ELSE IF RebindStarts THEN "REBINDING"
                ELSE IF RenewStarts THEN "RENEWING" ELSE dhcp_state

\* Mutants of CountLease: the lease is a signed number; dhcp_renew stays 0.
CountLeaseSigned ==
    /\ dhcp_lease' = IF Counting THEN dhcp_lease - 1 ELSE dhcp_lease
    /\ UNCHANGED <<dhcp_rebind, dhcp_renew>>

CountLeaseStuck ==
    /\ dhcp_lease' = IF Counting THEN (dhcp_lease - 1) % LeaseMod
                     ELSE dhcp_lease
    /\ dhcp_rebind' = IF Counting /\ dhcp_lease # 0 THEN dhcp_rebind - 1
                      ELSE dhcp_rebind
    /\ dhcp_renew' = IF Counting /\ dhcp_lease # 0 /\ dhcp_rebind # 0
                        /\ dhcp_renew # 0
                     THEN dhcp_renew - 1 ELSE dhcp_renew

CountLease ==
    /\ dhcp_lease' = IF Counting THEN (dhcp_lease - 1) % LeaseMod
                     ELSE dhcp_lease
    /\ dhcp_rebind' = IF Counting /\ dhcp_lease # 0 THEN dhcp_rebind - 1
                      ELSE dhcp_rebind
    /\ dhcp_renew' = IF Counting /\ dhcp_lease # 0 /\ dhcp_rebind # 0
                     THEN dhcp_renew - 1 ELSE dhcp_renew

\* A mutant of ForgetServer: the server is kept when its lease was not extended.
ForgetServerNever == dhcpip' = dhcpip

\* Rebinding asks any server.
ForgetServer == dhcpip' = IF RebindStarts THEN NoServer ELSE dhcpip

\* imp_dhcp_discover, imp_dhcp_request.  The address a DISCOVER asks for is a
\* hint and left out.
Discover == net' = Outdated(Aged(net)) \cup Sent("DISCOVER", NoServer, NoServer)
Request(sid) == net' = Aged(net) \cup Sent("REQUEST", ip, sid)

StartWait == dhcp_wait_time' = 0 /\ dhcp_retry_after' = FirstRetry

KeepLease ==
    /\ CountedState = "BOUND"
    /\ net' = Aged(net)
    /\ UNCHANGED <<dhcp_state, retries>>

\* Every second of these states.
Extend ==
    /\ CountedState \in {"RENEWING", "REBINDING"}
    /\ dhcp_state' = CountedState
    /\ Request(IF CountedState = "RENEWING" THEN dhcpip ELSE NoServer)
    /\ IF RebindStarts \/ RenewStarts THEN StartWait ELSE UNCHANGED retries

StartDiscovery ==
    /\ CountedState = "OFF"
    /\ StartWait
    /\ dhcp_state' = "SELECTING"
    /\ Discover

\* The wait is over.
RetryNow == (dhcp_wait_time + 1) % dhcp_retry_after = 0

Wait ==
    /\ dhcp_state \in {"SELECTING", "REQUESTING"} /\ ~RetryNow
    /\ dhcp_wait_time' = dhcp_wait_time + 1
    /\ net' = Aged(net)
    /\ UNCHANGED <<dhcp_state, dhcp_retry_after>>

\* A mutant of Retry: a request is not repeated.
RetryDiscover ==
    /\ dhcp_state \in {"SELECTING", "REQUESTING"} /\ RetryNow
    /\ StartWait
    /\ IF dhcp_state = "SELECTING" THEN Discover ELSE net' = Aged(net)
    /\ UNCHANGED dhcp_state

\* The time to the next retry doubles.  A repeated request names the server
\* of the lease before, not the one whose offer was accepted.
Retry ==
    /\ dhcp_state \in {"SELECTING", "REQUESTING"} /\ RetryNow
    /\ dhcp_wait_time' = 0
    /\ dhcp_retry_after' = IF dhcp_retry_after < LastRetry
                           THEN 2 * dhcp_retry_after ELSE dhcp_retry_after
    /\ IF dhcp_state = "SELECTING" THEN Discover ELSE Request(dhcpip)
    /\ UNCHANGED dhcp_state

\* A second goes by: for the network, for the servers, and for the client.
ServerSecond ==
    left' = [s \in Servers |->
                IF left[s] \in {Infinite, Ended} THEN left[s] ELSE left[s] - 1]

imp_dhcp_timer ==
    /\ attached
    /\ CountLease /\ ForgetServer
    /\ KeepLease \/ Extend \/ StartDiscovery \/ Wait \/ Retry
    /\ ServerSecond
    /\ UNCHANGED <<grant, attached, ip, arp>>

-----------------------------------------------------------------------------
(***************************************************************************)
(* imp_do_dhcp_client: a message for the current transaction arrives.  The *)
(* timer has the IMP attached.                                             *)
(***************************************************************************)
Arrives(m, type) ==
    /\ attached /\ m.type = type
    /\ m.current

AcceptOffer(m) ==
    /\ Arrives(m, "OFFER") /\ dhcp_state = "SELECTING"
    /\ dhcp_state' = "REQUESTING"
    /\ ip' = m.server
    /\ StartWait
    /\ net' = (net \ {m}) \cup Sent("REQUEST", m.server, m.server)
    /\ UNCHANGED <<grant, left, attached, dhcpip, counters, arp>>

\* The ARP entry is made inside the loop that looks for the network mask: at
\* least once, but not if the mask is the first one, of 32 bits.
AcceptAck(m) ==
    /\ Arrives(m, "ACK") /\ Asking
    /\ ip' = m.server /\ dhcpip' = m.server
    /\ dhcp_state' = "BOUND"
    /\ LET g == grant[m.server] IN
          /\ dhcp_lease' = g.lease
          /\ dhcp_renew' = Renew(g) /\ dhcp_rebind' = Rebind(g)
          /\ arp' = IF g.mask = 32 THEN arp ELSE arp \cup {m.server}
    /\ net' = net \ {m}
    /\ UNCHANGED <<grant, left, attached, retries>>

AcceptNak(m) ==
    /\ Arrives(m, "NAK") /\ Asking
    /\ ip' = NoServer /\ dhcpip' = NoServer
    /\ dhcp_state' = "OFF"
    /\ net' = net \ {m}
    /\ UNCHANGED <<grant, left, attached, counters, retries, arp>>

-----------------------------------------------------------------------------
(***************************************************************************)
(* The commands.  imp_detach releases the lease, and the address that was  *)
(* offered but not yet granted.  imp_attach starts from an empty ARP table *)
(* and from another transaction number; we assume that a RELEASE on its    *)
(* way arrives, if at all, before the IMP is attached again.               *)
(***************************************************************************)
imp_dhcp_release ==
    IF dhcp_state = "OFF" THEN UNCHANGED <<net, dhcp_state, ip, dhcpip>>
    ELSE /\ net' = Outdated(net) \cup Sent("RELEASE", ip, dhcpip)
         /\ dhcp_state' = "OFF"
         /\ ip' = NoServer /\ dhcpip' = NoServer

imp_detach ==
    /\ attached
    /\ imp_dhcp_release
    /\ attached' = FALSE
    /\ UNCHANGED <<grant, left, counters, retries, arp>>

imp_attach ==
    /\ ~attached
    /\ \A m \in net : m.type # "RELEASE"
    /\ attached' = TRUE
    /\ dhcp_state' = "OFF" /\ arp' = {}
    /\ net' = Outdated(net)
    /\ UNCHANGED <<grant, left, ip, dhcpip, counters, retries>>

\* Time also goes by while the IMP is detached.
Second ==
    /\ ~attached
    /\ net' = Aged(net) /\ ServerSecond
    /\ UNCHANGED <<grant, attached, dhcp_state, ip, dhcpip, counters, retries,
                   arp>>

-----------------------------------------------------------------------------
(***************************************************************************)
(* The servers.  A request is for the server it names or, without a name,  *)
(* for the one whose address it asks for; that server grants it or not.    *)
(***************************************************************************)
clientVars == <<grant, attached, dhcp_state, ip, dhcpip, counters, retries, arp>>

Answer(m, type) == net' = (net \ {m}) \cup {ToClient(type, m)}

Offer(m) ==
    /\ m.type = "DISCOVER"
    /\ Answer(m, "OFFER")
    /\ UNCHANGED <<left, clientVars>>

IsFor(m) == m.type = "REQUEST" /\ m.ip = m.server /\ m.sid \in {m.server, NoServer}

Grant(m) ==
    /\ IsFor(m)
    /\ left' = [left EXCEPT ![m.server] = grant[m.server].lease]
    /\ Answer(m, "ACK")
    /\ UNCHANGED clientVars

Refuse(m) ==
    /\ IsFor(m)
    /\ Answer(m, "NAK")
    /\ UNCHANGED <<left, clientVars>>

EndLease(m) ==
    /\ m.type = "RELEASE" /\ m.ip = m.server
    /\ left' = [left EXCEPT ![m.server] = Ended]
    /\ net' = net \ {m}
    /\ UNCHANGED clientVars

Next ==
    \/ imp_dhcp_timer \/ imp_detach \/ imp_attach \/ Second
    \/ \E m \in net :
          \/ AcceptOffer(m) \/ AcceptAck(m) \/ AcceptNak(m)
          \/ Offer(m) \/ Grant(m) \/ Refuse(m) \/ EndLease(m)

\* The timer goes on while the simulator runs; the host reads its packets; a
\* server that is asked again and again grants at last, and its offers and
\* grants arrive.
Fairness ==
    /\ WF_vars(imp_dhcp_timer)
    /\ \A s \in Servers :
          /\ SF_vars(\E m \in net : m.server = s /\ m.current /\ Offer(m))
          /\ SF_vars(Asking /\ \E m \in net :
                        m.server = s /\ m.current /\ Grant(m))
          /\ SF_vars(\E m \in net : m.server = s /\ AcceptOffer(m))
          /\ SF_vars(\E m \in net : m.server = s /\ AcceptAck(m))

Spec == Init /\ [][Next]_vars
FairSpec == Spec /\ Fairness

-----------------------------------------------------------------------------
Message == [type : {"DISCOVER", "REQUEST", "RELEASE"}, server : Servers,
            ip : Addresses, sid : Addresses, current : BOOLEAN,
            age : 0 .. Lifetime]
           \cup
           [type : {"OFFER", "ACK", "NAK"}, server : Servers,
            current : BOOLEAN, age : 0 .. Lifetime]

\* The types.
TypeOK ==
    /\ grant \in [Servers -> Grants]
    /\ left \in [Servers -> Ended .. Infinite]
    /\ net \subseteq Message
    /\ attached \in BOOLEAN
    /\ dhcp_state \in States /\ ip \in Addresses /\ dhcpip \in Addresses
    /\ dhcp_lease \in 0 .. Infinite
    /\ dhcp_renew \in Int /\ dhcp_rebind \in Int
    /\ dhcp_wait_time \in Nat /\ dhcp_retry_after \in Nat
    /\ arp \subseteq Servers

\* The client does not use an address that its server has given up: it counts
\* the lease from the moment the grant arrives, so it is at most the time a
\* message takes behind the server, whatever was lost, delayed or repeated, in
\* this transaction or one before it.
AddressIsGranted ==
    Leased => ip \in Servers /\ left[ip] > Ended

\* A request reaches a server that can grant it: it names the server whose
\* address it asks for, or nobody.  A retry names dhcpip, the server of the
\* lease before, and is right only because rebinding forgets that server
\* before every end of a lease, when T2 is less than the lease.
RequestNamesOwner ==
    \A m \in net : m.type = "REQUEST" => m.sid \in {m.ip, NoServer}

\* A lease that is not extended is first renewed with its server, then rebound
\* with any, and only then lost, though each counter is looked at only when
\* the one before it has not run out: if its times are in order.  Out of order
\* they take it from BOUND to REBINDING, and from there back to RENEWING.
LeaseStagesAdvance ==
    [][imp_dhcp_timer /\ Leased /\ TimesInOrder(grant[ip]) =>
          /\ dhcp_state = "BOUND" => dhcp_state' \in {"BOUND", "RENEWING"}
          /\ dhcp_state = "RENEWING" => dhcp_state' \in {"RENEWING", "REBINDING"}
          /\ dhcp_state = "REBINDING" =>
                dhcp_state' \in {"REBINDING", "SELECTING"}]_vars

\* An IMP that is attached gets an address, unless it is detached first, though
\* it never asks for another offer while it waits for a grant.
LeaseIsObtained == attached ~> (Leased \/ ~attached)
=============================================================================
