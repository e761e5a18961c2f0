----------------------------- MODULE Discovery -----------------------------
(***************************************************************************)
(* Being found and recognised on the network: the addresses the server     *)
(* announces (select_advertise_ip, select_ssdp_interfaces), the answers to *)
(* SSDP searches (ssdp_loop, handle_unicast_ssdp_datagram,                 *)
(* schedule_msearch_reply, SsdpReplyLimiter, crates/ssdp), and the profile *)
(* a client is served by (identify_peer, sniff_renderer_location,          *)
(* RendererFetchLimiter, client_cache.rs).                                 *)
(*                                                                         *)
(* Addresses are numbers of SdWidth bits and masks are prefix lengths;     *)
(* time is a clock of ticks, and the code's spans are constants in ticks.  *)
(***************************************************************************)
EXTENDS Integers, Sequences, FiniteSets

CONSTANTS
  SdWidth,          \* bits of an address
  SdSetups,         \* hosts and configurations to start with: see Setup
  SdSearchers,      \* addresses that search
  SdPackets,        \* the searches they send: sequences of <<header, value>>
  WINDOW,           \* ticks of a window of SsdpReplyLimiter
  MAX_DATAGRAMS,    \* datagrams a sender is sent in one
  ReplyWorkers,     \* permits of reply_workers (64 in the code)
  SdPeers,          \* addresses of clients and renderers
  SdMacs,           \* their hardware addresses
  SdProfiles,       \* profiles the request or the description names
  CLIENT_CACHE_SLOTS, CLIENT_CACHE_TTL,
  KEY_TTL, SENDER_WINDOW, MAX_PER_SENDER,  \* RendererFetchLimiter
  RendererWorkers,  \* permits of renderer_workers (4 in the code)
  SdTicks           \* bound: the last tick

VARIABLES
  sdSetup,     \* the host: a member of SdSetups
  sdPrimary,   \* App.advertise_ip, or -1 when the server refuses to start
  sdAnnounced, \* App.ssdp_interfaces: <<address, prefix>>
  sdClock,
  sdSenders,   \* SsdpReplyLimiter.senders: <<start, datagrams>> or none
  sdReplies,   \* scheduled replies
  sdAsked,     \* searches made: when, how many datagrams, whether answered (a ghost)
  sdSlots,     \* ClientCache.slots
  sdMac,       \* what /proc/net/arp knows of a peer
  sdRecent,    \* RendererFetchLimiter.recent_keys
  sdWindow,    \* RendererFetchLimiter.sender_windows
  sdFetches    \* descriptions being fetched

searchVars == <<sdSenders, sdReplies, sdAsked>>
peerVars == <<sdSlots, sdMac, sdRecent, sdWindow, sdFetches>>
netVars == <<sdSetup, sdPrimary, sdAnnounced>>
sdVars == <<netVars, sdClock, searchVars, peerVars>>

SdNone == <<>>

-----------------------------------------------------------------------------
(* The addresses that are announced.                                       *)

(* A setup is a host and its configuration: interfaces, as a set of        *)
(* [name, addr, prefix]; live, whether SSDP runs on port 1900; configured  *)
(* and interfaces wanted, as sequences of names or addresses; listen, the  *)
(* default route's interface and the source address it would use.          *)
Unspecified == 0
Loopback == 1
usable_lan_ipv4(a) == a > Loopback

SameNet(a, b, prefix) ==
  a \div 2 ^ (SdWidth - prefix) = b \div 2 ^ (SdWidth - prefix)

Names(token, i) == token = <<"addr", i.addr>> \/ token = <<"name", i.name>>

Least(S) == CHOOSE x \in S : \A y \in S : x <= y

\* Mutant: with several addresses and nothing to choose by, the first is taken.
select_advertise_ip_guesses(h) ==
  LET all == {i.addr : i \in {j \in h.interfaces : usable_lan_ipv4(j.addr)}}
      wanted == {i.addr : i \in {j \in h.interfaces :
                    \E t \in h.wanted : Names(t, j) /\ usable_lan_ipv4(j.addr)}}
  IN IF h.advertise # SdNone THEN h.advertise[1]
     ELSE IF h.listen # Unspecified THEN h.listen
     ELSE IF wanted # {} THEN Least(wanted)
     ELSE IF all # {} THEN Least(all) ELSE -1

(* The primary address, or -1 for a refusal: a configured one that this    *)
(* host has, the one listened on, the one among the wanted interfaces or   *)
(* on the default route that routing would use, or the only one there is.  *)
select_advertise_ip(h) ==
  LET has(a) == \E i \in h.interfaces : i.addr = a
      usable(S) == {i.addr : i \in {j \in S : usable_lan_ipv4(j.addr)}}
      wanted == usable({i \in h.interfaces : \E t \in h.wanted : Names(t, i)})
      routed == usable({i \in h.interfaces : i.name = h.route})
      all == usable(h.interfaces)
  IN IF \E t \in h.wanted : \A i \in h.interfaces : ~Names(t, i) THEN -1
     ELSE IF h.advertise # SdNone
     THEN LET a == h.advertise[1]
          IN IF a = Unspecified \/ (h.live /\ (a = Loopback \/ ~has(a))) THEN -1 ELSE a
     ELSE IF h.listen # Unspecified
     THEN IF h.live /\ ~(usable_lan_ipv4(h.listen) /\ has(h.listen)) THEN -1 ELSE h.listen
     ELSE IF wanted # {} THEN (IF h.source \in wanted THEN h.source ELSE Least(wanted))
     ELSE IF h.source \in routed THEN h.source
     ELSE IF Cardinality(routed) = 1 THEN Least(routed)
     ELSE IF Cardinality(all) = 1 THEN Least(all)
     ELSE IF all = {} /\ ~h.live THEN Loopback ELSE -1

\* Every address announced, with its mask; the primary one is always among them.
select_ssdp_interfaces(h, primary) ==
  LET pair(i) == <<i.addr, i.prefix>>
      chosen == {pair(i) : i \in {j \in h.interfaces :
                   /\ IF h.wanted = {} THEN j.addr = primary ELSE \E t \in h.wanted : Names(t, j)
                   /\ usable_lan_ipv4(j.addr) \/ (~h.live /\ j.addr = Loopback)}}
      known == {pair(i) : i \in {j \in h.interfaces : j.addr = primary}}
  IN IF chosen # {} /\ primary \in {p[1] : p \in chosen} THEN chosen
     ELSE chosen \cup (IF known = {} \/ chosen = {} THEN {<<primary, SdWidth>>} ELSE known)

-----------------------------------------------------------------------------
(* Searches.                                                               *)

\* Mutant: the mask of the interface is not looked at.
reply_interface_any(sender) == sdPrimary

\* The address used where no interface suggests one.
ssdp_iface == IF sdPrimary > Loopback THEN sdPrimary ELSE sdSetup.listen

(* The announced address on the searcher's own subnet, the closest one;    *)
(* the primary when it is as close as any, or when none is.                *)
reply_interface_for_sender(sender) ==
  LET near == {i \in sdAnnounced : SameNet(i[1], sender, i[2])}
      best == {i[1] : i \in {j \in near : \A k \in near : k[2] <= j[2]}}
  IN IF best = {} \/ ssdp_iface \in best THEN ssdp_iface ELSE Least(best)

(* A unicast search is answered only on the subnet of the address it came  *)
(* to, and never to that subnet's own or broadcast address.                *)
unicast_msearch_sender_is_on_link(sender, ingress) ==
  /\ usable_lan_ipv4(sender)
  /\ \E i \in sdAnnounced :
       LET hosts == 2 ^ (SdWidth - i[2]) IN
       /\ i[1] = ingress /\ i[2] > 0 /\ SameNet(sender, ingress, i[2])
       /\ hosts > 2 => sender % hosts \notin {0, hosts - 1}

Values(packet, header) == {packet[i][2] : i \in {j \in DOMAIN packet : packet[j][1] = header}}

\* Mutant: the last of several different values counts.
parse_msearch_last_wins(packet, unicast) ==
  LET last(h) == IF Values(packet, h) = {} THEN ""
                 ELSE packet[CHOOSE i \in DOMAIN packet : packet[i][1] = h
                        /\ \A j \in i + 1 .. Len(packet) : packet[j][1] # h][2]
  IN IF last("ST") = "" \/ last("MAN") # "discover"
        \/ (last("MX") \notin {"0", "3"} /\ ~(unicast /\ last("MX") = "")) THEN "rejected"
     ELSE last("ST")

(* parse_msearch_delivered: repeated headers must agree (set_unique_header),*)
(* and a search sent to the group needs an MX.  What is searched for, or   *)
(* "rejected".                                                             *)
parse_msearch(packet, unicast) ==
  LET st == Values(packet, "ST") man == Values(packet, "MAN") mx == Values(packet, "MX")
  IN IF /\ Cardinality(st) = 1 /\ "" \notin st
        /\ man = {"discover"}
        /\ (unicast /\ mx = {}) \/ (Cardinality(mx) = 1 /\ mx \subseteq {"0", "3"})
     THEN CHOOSE s \in st : TRUE ELSE "rejected"

\* msearch_reply_indices: one datagram for each of the types that match.
Replies(st) == CASE st = "all" -> 6 [] st \in {"device", "device1"} -> 1 [] OTHER -> 0

SdAge(start) == sdClock - start

\* Mutant: the window of a sender never begins again.
limiter_allow_no_reset(sender, n) ==
  LET entry == IF sdSenders[sender] = SdNone THEN <<sdClock, 0>> ELSE sdSenders[sender]
      ok == entry[2] + n <= MAX_DATAGRAMS
  IN [ok |-> ok, entry |-> IF ok THEN <<entry[1], entry[2] + n>> ELSE entry]

\* SsdpReplyLimiter::allow, and what it holds of the sender afterwards.
limiter_allow(sender, n) ==
  LET kept == sdSenders[sender]
      entry == IF kept = SdNone \/ SdAge(kept[1]) >= WINDOW THEN <<sdClock, 0>> ELSE kept
      ok == entry[2] + n <= MAX_DATAGRAMS
  IN [ok |-> ok, entry |-> IF ok THEN <<entry[1], entry[2] + n>> ELSE entry]

(* schedule_msearch_reply: a search for a type of this device is limited,  *)
(* then given to a worker that waits out the delay.                        *)
schedule_msearch_reply(sender, st, via, unicast) ==
  LET n == Replies(st)
      limit == limiter_allow(sender, n)
      full == Cardinality(sdReplies) = ReplyWorkers
      kept(s) == IF sdSenders[s] # SdNone /\ SdAge(sdSenders[s][1]) >= 2 * WINDOW
                 THEN SdNone ELSE sdSenders[s]
  IN /\ n > 0
     /\ sdSenders' = [s \in SdSearchers |-> IF s = sender THEN limit.entry ELSE kept(s)]
     /\ sdReplies' = IF limit.ok /\ ~full
                     THEN sdReplies \cup {[to |-> sender, location |-> via,
                                           unicast |-> unicast, id |-> Len(sdAsked)]}
                     ELSE sdReplies
     /\ sdAsked' = Append(sdAsked, [who |-> sender, at |-> sdClock, n |-> n,
                                    ok |-> limit.ok, full |-> full])

\* A search sent to the group is answered for the searcher's own subnet.
SdSearch(sender, packet) ==
  /\ schedule_msearch_reply(sender, parse_msearch(packet, FALSE),
                            reply_interface_for_sender(sender), FALSE)
  /\ UNCHANGED <<netVars, sdClock, peerVars>>

\* One sent to an address of this host is answered from that address.
SdUnicastSearch(sender, packet, ingress) ==
  /\ sdSetup.live /\ unicast_msearch_sender_is_on_link(sender, ingress)
  /\ schedule_msearch_reply(sender, parse_msearch(packet, TRUE), ingress, TRUE)
  /\ UNCHANGED <<netVars, sdClock, peerVars>>

\* The delay is over: the replies are sent and the worker is free.
SdReply(r) ==
  /\ sdReplies' = sdReplies \ {r}
  /\ UNCHANGED <<netVars, sdClock, sdSenders, sdAsked, peerVars>>

-----------------------------------------------------------------------------
(* Profiles.                                                               *)

is_generic(p) == p = "generic"

\* Mutant: the profile seen last is kept.
should_overwrite_always(old, new) == TRUE

should_overwrite(old, new) ==
  /\ ~(old = "samsungB" /\ new = "samsungA")
  /\ ~(is_generic(new) /\ ~is_generic(old))

Expired(e) == SdAge(e.age) > CLIENT_CACHE_TTL
SlotOf(slots, ip) == {i \in DOMAIN slots : slots[i] # SdNone /\ slots[i][1].addr = ip}

\* Mutant: an old entry is kept alive for whoever has the address.
search_ignores_mac(slots, ip, mac) ==
  IF SlotOf(slots, ip) = {} THEN slots
  ELSE LET i == Least(SlotOf(slots, ip)) e == slots[i][1]
       IN IF ~Expired(e) THEN slots ELSE [slots EXCEPT ![i] = <<[e EXCEPT !.age = sdClock]>>]

(* ClientCache::search as what it leaves of the slots: an entry an hour    *)
(* old lives on only for the hardware address it was made for.             *)
search(slots, ip, mac) ==
  IF SlotOf(slots, ip) = {} THEN slots
  ELSE LET i == Least(SlotOf(slots, ip)) e == slots[i][1]
       IN IF ~Expired(e) THEN slots
          ELSE IF mac # SdNone /\ mac = e.mac THEN [slots EXCEPT ![i] = <<[e EXCEPT !.age = sdClock]>>]
          ELSE [slots EXCEPT ![i] = SdNone]

\* The profile cached for an address after a search; SdNone when there is none.
Cached(slots, ip) ==
  IF SlotOf(slots, ip) = {} THEN SdNone ELSE <<slots[Least(SlotOf(slots, ip))][1].profile>>

\* ClientCache::add: an entry is updated, or takes a slot that is free or old.
add(slots, ip, profile, mac) ==
  LET old == SlotOf(slots, ip)
      swept == [i \in DOMAIN slots |->
                  IF slots[i] # SdNone /\ Expired(slots[i][1]) THEN SdNone ELSE slots[i]]
      free == {i \in DOMAIN slots : swept[i] = SdNone}
  IN IF old # {}
     THEN LET i == Least(old) e == slots[i][1]
          IN IF should_overwrite(e.profile, profile)
             THEN [slots EXCEPT ![i] = <<[e EXCEPT !.profile = profile, !.age = sdClock,
                                            !.mac = IF mac = SdNone THEN @ ELSE mac]>>]
             ELSE slots
     ELSE IF free = {} THEN swept
     ELSE [swept EXCEPT ![Least(free)] =
             <<[addr |-> ip, mac |-> mac, profile |-> profile, age |-> sdClock]>>]

(* ClientCache::remember: a generic request does not displace what is      *)
(* known; otherwise it is added and looked up.                             *)
remember(slots, ip, profile, mac) ==
  LET found == search(slots, ip, mac)
  IN IF is_generic(profile) /\ Cached(found, ip) \notin {SdNone, <<"generic">>} THEN found
     ELSE search(add(IF is_generic(profile) THEN found ELSE slots, ip, profile, mac), ip, mac)

ServedAs(slots, ip, otherwise) == IF Cached(slots, ip) = SdNone THEN otherwise ELSE Cached(slots, ip)[1]

(* identify_peer: what the request names, else what is cached for its      *)
(* address, else no profile.                                               *)
SdIdentify(ip, profile) ==
  LET slots == IF profile = "none" THEN search(sdSlots, ip, sdMac[ip])
               ELSE remember(sdSlots, ip, profile, sdMac[ip])
  IN /\ sdSlots' = slots
     /\ UNCHANGED <<netVars, sdClock, searchVars, sdMac, sdRecent, sdWindow, sdFetches>>

\* Mutant: a description is fetched however often it was announced.
fetch_allowed_repeats(ip, url) ==
  Cardinality({t \in DOMAIN sdWindow[ip] : SdAge(sdWindow[ip][t]) < SENDER_WINDOW}) < MAX_PER_SENDER

\* RendererFetchLimiter::allow: once per description, and few of one sender.
fetch_allowed(ip, url) ==
  /\ sdRecent[ip][url] # SdNone => SdAge(sdRecent[ip][url][1]) >= KEY_TTL
  /\ Cardinality({t \in DOMAIN sdWindow[ip] : SdAge(sdWindow[ip][t]) < SENDER_WINDOW}) < MAX_PER_SENDER

(* A renderer announces its description (parse_inbound_notify accepts it   *)
(* and the address is its own): it is fetched when a worker is free.  The  *)
(* limiter has counted it either way.                                      *)
SdNotify(ip, url) ==
  /\ fetch_allowed(ip, url)
  /\ sdRecent' = [sdRecent EXCEPT ![ip][url] = <<sdClock>>]
  /\ sdWindow' = [sdWindow EXCEPT ![ip] =
       Append(SelectSeq(@, LAMBDA t : SdAge(t) < SENDER_WINDOW), sdClock)]
  /\ sdFetches' = IF Cardinality(sdFetches) = RendererWorkers THEN sdFetches
                  ELSE sdFetches \cup {<<ip, url>>}
  /\ UNCHANGED <<netVars, sdClock, searchVars, sdSlots, sdMac>>

\* sniff_renderer_location: the description names a profile, or nothing is learnt.
SdFetched(f, profile) ==
  /\ sdFetches' = sdFetches \ {f}
  /\ sdSlots' = IF profile = "none" THEN sdSlots ELSE remember(sdSlots, f[1], profile, SdNone)
  /\ UNCHANGED <<netVars, sdClock, searchVars, sdMac, sdRecent, sdWindow>>

\* The network changes: another device has the address, or ARP forgot it.
SdArp(ip, mac) ==
  /\ mac # sdMac[ip]
  /\ sdMac' = [sdMac EXCEPT ![ip] = mac]
  /\ UNCHANGED <<netVars, sdClock, searchVars, sdSlots, sdRecent, sdWindow, sdFetches>>

SdTick ==
  /\ sdClock < SdTicks
  /\ sdClock' = sdClock + 1
  /\ UNCHANGED <<netVars, searchVars, peerVars>>

-----------------------------------------------------------------------------
SdUrls == {"description"}

SdInit ==
  /\ sdSetup \in SdSetups /\ sdClock = 0
  /\ sdPrimary = select_advertise_ip(sdSetup)
  /\ sdAnnounced = IF sdPrimary = -1 THEN {} ELSE select_ssdp_interfaces(sdSetup, sdPrimary)
  /\ sdSenders = [s \in SdSearchers |-> SdNone] /\ sdReplies = {} /\ sdAsked = <<>>
  /\ sdSlots = [i \in 1 .. CLIENT_CACHE_SLOTS |-> SdNone]
  /\ sdMac = [p \in SdPeers |-> SdNone]
  /\ sdRecent = [p \in SdPeers |-> [u \in SdUrls |-> SdNone]]
  /\ sdWindow = [p \in SdPeers |-> <<>>]
  /\ sdFetches = {}

\* A host without an address to announce does not start.
SearchStep ==
  /\ sdPrimary # -1
  /\ \/ \E s \in SdSearchers, p \in SdPackets :
          \/ SdSearch(s, p)
          \/ \E i \in sdAnnounced : SdUnicastSearch(s, p, i[1])
     \/ \E r \in sdReplies : SdReply(r)

PeerStep ==
  \/ \E ip \in SdPeers, p \in SdProfiles \cup {"none"} : SdIdentify(ip, p)
  \/ \E ip \in SdPeers, u \in SdUrls : SdNotify(ip, u)
  \/ \E f \in sdFetches, p \in SdProfiles \cup {"none"} : SdFetched(f, p)
  \/ \E ip \in SdPeers, m \in {SdNone} \cup {<<d>> : d \in SdMacs} : SdArp(ip, m)

SdNext == SdTick \/ SearchStep \/ PeerStep

-----------------------------------------------------------------------------
(* Properties.                                                             *)

(* The addresses announced are this host's: the primary is one of them,    *)
(* and on the network none is the loopback or the unspecified one.  A host *)
(* with several addresses and nothing to choose by is not guessed at.      *)
AddressesSound ==
  LET h == sdSetup mine == {i.addr : i \in h.interfaces}
      lan == {a \in mine : usable_lan_ipv4(a)}
  IN sdPrimary # -1 =>
       /\ sdPrimary \in {i[1] : i \in sdAnnounced}
       /\ h.live => \A i \in sdAnnounced : i[1] \in lan
       /\ h.advertise = SdNone /\ h.listen = Unspecified /\ h.wanted = {} /\ h.route = "none"
            => Cardinality(lan) <= 1

(* A searcher is given an address it can reach: when an announced address  *)
(* is on its subnet, the reply comes from one, and a unicast search is     *)
(* answered on that subnet only.                                           *)
RepliesReachable ==
  \A r \in sdReplies :
    LET near == {i \in sdAnnounced : SameNet(i[1], r.to, i[2])} IN
    r.unicast \/ near # {} => r.location \in {i[1] : i \in near}

(* No sender is sent more than two windows' worth in the length of one,    *)
(* and one that asks for no more than a window's worth in two of them is   *)
(* always answered while a worker is free.                                 *)
Spent(who, from, to) ==
  LET A == {i \in DOMAIN sdAsked : sdAsked[i].who = who /\ sdAsked[i].ok
              /\ sdAsked[i].at >= from /\ sdAsked[i].at < to}
      sum[i \in 0 .. Len(sdAsked)] ==
        IF i = 0 THEN 0 ELSE sum[i - 1] + (IF i \in A THEN sdAsked[i].n ELSE 0)
  IN sum[Len(sdAsked)]

BudgetFair ==
  \A i \in DOMAIN sdAsked : LET a == sdAsked[i] IN
    /\ Spent(a.who, a.at, a.at + WINDOW) <= 2 * MAX_DATAGRAMS
    /\ (~a.ok => Spent(a.who, a.at - WINDOW, a.at + 1) + a.n > MAX_DATAGRAMS)

\* Every value a packet gives of a header agrees with what it was taken to say.
PacketsTakenAsMeant ==
  \A p \in SdPackets, u \in BOOLEAN :
    LET st == parse_msearch(p, u) IN
    st # "rejected" => \A i \in DOMAIN p :
      /\ p[i][1] = "ST" => p[i][2] = st
      /\ p[i][1] = "MAN" => p[i][2] = "discover"

SearchesAnswered == AddressesSound /\ RepliesReachable /\ BudgetFair /\ PacketsTakenAsMeant

(* A client known by its own name stays known: what is cached of it is not *)
(* displaced by a generic request while it is not old, and a request that  *)
(* names a profile is served by it, or as the newer television it is known *)
(* to be.  An address has one entry.                                       *)
IdentityKept ==
  [][/\ \A ip \in SdPeers : Cardinality(SlotOf(sdSlots', ip)) <= 1
     /\ \A i \in DOMAIN sdSlots :
          sdSlots[i] # SdNone /\ ~Expired(sdSlots[i][1]) /\ ~is_generic(sdSlots[i][1].profile)
            => /\ sdSlots'[i] # SdNone /\ sdSlots'[i][1].addr = sdSlots[i][1].addr
               /\ ~is_generic(sdSlots'[i][1].profile)
               /\ sdSlots[i][1].profile = "samsungB" => sdSlots'[i][1].profile # "samsungA"
     /\ \A ip \in SdPeers, p \in SdProfiles \ {"generic"} : SdIdentify(ip, p) =>
          \/ ServedAs(sdSlots', ip, p) = p
          \/ p = "samsungA" /\ Cached(sdSlots, ip) = <<"samsungB">>]_sdVars

\* What an hour-old entry says is taken only for the device it was made for.
IdentityFresh ==
  [][\A ip \in SdPeers : SdIdentify(ip, "none") /\ Cached(sdSlots', ip) # SdNone =>
       LET e == sdSlots[Least(SlotOf(sdSlots, ip))][1] IN
       ~Expired(e) \/ (e.mac # SdNone /\ e.mac = sdMac[ip])]_sdVars

\* A sender's descriptions are fetched rarely: few in a window, each once in
\* the time it is remembered.
FetchesBounded ==
  [][\A ip \in SdPeers, u \in SdUrls : SdNotify(ip, u) =>
       /\ Cardinality({t \in DOMAIN sdWindow'[ip] : sdClock - sdWindow'[ip][t] < SENDER_WINDOW})
            <= MAX_PER_SENDER
       /\ sdRecent[ip][u] # SdNone => sdClock - sdRecent[ip][u][1] >= KEY_TTL]_sdVars

ClientsKnown == IdentityKept /\ IdentityFresh /\ FetchesBounded
=============================================================================
