------------------------------ MODULE Discovery ------------------------------
(***************************************************************************)
(* How the Share tab finds other computers: run_discovery of               *)
(* engine/src/share.rs on its thread, and the part of                      *)
(* app/src/ui/share_tab.rs that switches it on and off and keeps the list. *)
(* The other computers run the same code; of them the model has the        *)
(* announcements.  The network loses, delays, repeats and reorders.  A     *)
(* computer is its address here; the name it shows is left out.            *)
(*                                                                         *)
(* Time passes in ticks of the announcement's period, two seconds.         *)
(***************************************************************************)
EXTENDS Integers, Sequences, FiniteSets, SequencesExt

CONSTANTS
  Peers,       \* the addresses of the other computers
  Self,        \* the address of this one
  Timeout,     \* PEER_TIMEOUT, in ticks
  MaxSwitches, \* bound: how often the user turns Discoverable on or off
  MaxMoves,    \* bound: how often other computers come and go
  MaxEvents    \* bound: events the window may be behind when time goes on

ASSUME PeersAssumption == IsFiniteSet(Peers) /\ Self \notin Peers
ASSUME BoundsAssumption ==
  /\ Timeout \in Nat \ {0} /\ MaxSwitches \in Nat /\ MaxMoves \in Nat /\ MaxEvents \in Nat

Addrs == Peers \union {Self}

VARIABLES
  up,            \* the other computers: who is discoverable
  net,           \* whose announcements are under way
  discoverable,  \* the tab's switch
  peers,         \* the tab's list, a sequence of addresses
  pc,            \* run_discovery: "off", "start", "unbound" or "loop"
  lastSeen,      \* its table: from addresses to the ticks since they were heard
  due,           \* two seconds have passed since the last announcement
  events,        \* the channel to the tab
  switches, moves    \* what the bounds count

world  == <<up, moves>>
thread == <<pc, lastSeen, due>>
vars   == <<world, net, discoverable, peers, thread, events, switches>>

Known == DOMAIN lastSeen

Init ==
  /\ up \in [Peers -> BOOLEAN] /\ net = {} /\ discoverable = FALSE /\ peers = <<>>
  /\ pc = "off" /\ lastSeen = << >> /\ due = TRUE /\ events = <<>>
  /\ switches = 0 /\ moves = 0

-----------------------------------------------------------------------------
(* The other computers, the network, and time. *)

PeerMoves(p) ==
  /\ moves < MaxMoves /\ moves' = moves + 1
  /\ up' = [up EXCEPT ![p] = ~@]
  /\ UNCHANGED <<net, discoverable, peers, thread, events, switches>>

PeerAnnounces(p) ==
  /\ up[p]
  /\ net' = net \union {p}
  /\ UNCHANGED <<world, discoverable, peers, thread, events, switches>>

\* A packet is lost, or the last of its repetitions has arrived.
Lose(a) ==
  /\ a \in net /\ net' = net \ {a}
  /\ UNCHANGED <<world, discoverable, peers, thread, events, switches>>

Tick ==
  /\ pc = "loop" /\ Len(events) <= MaxEvents
  /\ due' = TRUE
  /\ lastSeen' = [a \in Known |-> IF lastSeen[a] > Timeout THEN lastSeen[a] ELSE lastSeen[a] + 1]
  /\ UNCHANGED <<world, net, discoverable, peers, pc, events, switches>>

-----------------------------------------------------------------------------
(* run_discovery.  A round of its loop is one step: of what the round does    *)
(* others see an announcement and at most a few events, in their order.  A    *)
(* thread that was switched off ends within a round; its table and its        *)
(* channel are nobody's by then, so it is "off" at once here.                 *)

\* The socket cannot be bound: the thread returns without a word.
Bind ==
  /\ pc = "start" /\ pc' \in {"loop", "unbound"}
  /\ UNCHANGED <<world, net, discoverable, peers, lastSeen, due, events, switches>>

\* Mutation: the age of an entry is never compared.
StaleNever(table) == {}

Stale(table) == {a \in DOMAIN table : table[a] > Timeout}

\* The round: announce when it is time, then what was received, then the peers not heard
\* for too long leave the table, in the order of the HashMap.
Round(table, found) ==
  /\ pc = "loop"
  /\ net' = IF due THEN net \union {Self} ELSE net
  /\ due' = FALSE
  /\ \E order \in SetToSeqs(Stale(table)) :
       events' = events \o found \o [i \in DOMAIN order |-> [kind |-> "lost", addr |-> order[i]]]
  /\ lastSeen' = [a \in DOMAIN table \ Stale(table) |-> table[a]]
  /\ UNCHANGED <<world, discoverable, peers, pc, switches>>

\* The read times out after half a second.
NothingComes == Round(lastSeen, <<>>)

\* Mutation: the session_id is not compared.
OursUnknown(a) == FALSE

\* parse_announcement knows our own packets by their session_id.
Ours(a) == a = Self

Seen(a) == [b \in Known \union {a} |-> IF b = a THEN 0 ELSE lastSeen[b]]

\* One packet; it may arrive once more.
Receive(a) ==
  /\ a \in net
  /\ IF Ours(a)
     THEN Round(lastSeen, <<>>)
     ELSE Round(Seen(a), IF a \in Known THEN <<>> ELSE <<[kind |-> "found", addr |-> a]>>)

-----------------------------------------------------------------------------
(* The tab. *)

SwitchOn ==
  /\ ~discoverable /\ switches < MaxSwitches /\ switches' = switches + 1
  /\ discoverable' = TRUE /\ peers' = <<>>
  /\ pc' = "start" /\ lastSeen' = << >> /\ due' = TRUE /\ events' = <<>>
  /\ UNCHANGED <<world, net>>

SwitchOff ==
  /\ discoverable /\ switches < MaxSwitches /\ switches' = switches + 1
  /\ discoverable' = FALSE /\ peers' = <<>>
  /\ pc' = "off" /\ lastSeen' = << >> /\ events' = <<>>
  /\ UNCHANGED <<world, net, due>>

\* What one event does to the list.
After(ps, e) ==
  CASE e.kind = "lost" -> SelectSeq(ps, LAMBDA a : a # e.addr)
    [] e.kind = "found" /\ e.addr \in ToSet(ps) -> ps
    [] OTHER -> Append(ps, e.addr)

\* ShareTab::poll takes every event that is there.
Poll ==
  /\ discoverable /\ events # <<>>
  /\ peers' = FoldLeft(After, peers, events)
  /\ events' = <<>>
  /\ UNCHANGED <<world, net, discoverable, thread, switches>>

-----------------------------------------------------------------------------
Loop == Bind \/ NothingComes \/ \E a \in Addrs : Receive(a)

Next ==
  \/ \E p \in Peers : PeerMoves(p) \/ PeerAnnounces(p)
  \/ \E a \in Addrs : Lose(a)
  \/ Tick \/ Loop
  \/ SwitchOn \/ SwitchOff \/ Poll

Spec == Init /\ [][Next]_vars

\* The thread and the window go on, time passes, who is discoverable announces itself,
\* packets do not stay on the way, and of a peer's announcements one now and then
\* is received; the window's frames are much shorter than
\* the time a peer is remembered.
Fairness ==
  /\ WF_vars(Loop) /\ WF_vars(Poll) /\ WF_vars(Tick)
  /\ \A p \in Peers : /\ WF_vars(PeerAnnounces(p)) /\ WF_vars(Lose(p)) /\ SF_vars(Receive(p))
                      /\ SF_vars(p \in Known /\ Poll)

FairSpec == Spec /\ Fairness

-----------------------------------------------------------------------------
(* Properties. *)

Event == [kind : {"found", "lost"}, addr : Addrs]

\* Every variable has values of its kind; nothing is known while the thread is off.
TypeOK ==
  /\ up \in [Peers -> BOOLEAN] /\ net \subseteq Addrs
  /\ discoverable \in BOOLEAN /\ due \in BOOLEAN
  /\ peers \in Seq(Addrs) /\ events \in Seq(Event)
  /\ pc \in {"off", "start", "unbound", "loop"} /\ (discoverable <=> pc # "off")
  /\ Known \subseteq Addrs /\ \A a \in Known : lastSeen[a] \in 0..(Timeout + 1)
  /\ switches \in 0..MaxSwitches /\ moves \in 0..MaxMoves

About(a) == {i \in DOMAIN events : events[i].addr = a}
LastWord(a) == events[CHOOSE i \in About(a) : \A j \in About(a) : j <= i].kind

\* The list and the thread's table cannot drift apart, over any number of losses and
\* returns and of switches: with the events on their way, the list has exactly the
\* addresses of the table, each once, and never this computer, whose own broadcasts
\* come back to it (run_discovery's last_seen, ShareTab::poll, parse_announcement).
ListCatchesUp ==
  /\ Self \notin Known
  /\ \A a \in Addrs :
       a \in Known <=> IF About(a) = {} THEN a \in ToSet(peers) ELSE LastWord(a) = "found"
  /\ \A i, j \in DOMAIN peers : peers[i] = peers[j] => i = j

\* The list is never wrong for good, however much is lost: a peer that stays discoverable
\* does not stay unlisted, and one that is gone does not stay listed, unless Discoverable
\* is off or the socket could not be bound (run_discovery, ShareTab::poll).
ListFollows ==
  \A p \in Peers : []<>(pc \in {"off", "unbound"} \/ (up[p] <=> p \in ToSet(peers)))
=============================================================================
