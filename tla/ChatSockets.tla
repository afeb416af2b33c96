----------------------------- MODULE ChatSockets -----------------------------
(***************************************************************************)
(* The sockets of one chat room (ChatConsumer): how a removed member's     *)
(* socket is closed, and the presence counters that the sockets share in   *)
(* the cache.  Of the room's membership only who is a member matters here. *)
(* A socket of a process that dies is gone without its disconnect handler. *)
(***************************************************************************)
EXTENDS Integers, FiniteSets

CONSTANTS
  Clients,      \* the users who open sockets
  Sockets,
  UserOf,       \* UserOf[s]: the user who opened socket s
  MaxFaults     \* bound: lost events, broken sockets and failed frames

ASSUME SocketAssumption ==
  /\ IsFiniteSet(Sockets) /\ UserOf \in [Sockets -> Clients] /\ MaxFaults \in Nat

VARIABLES
  members,   \* the room's participants
  publish,   \* users whose removal is committed and not published yet
  sock,      \* sock[s]: where the consumer of s is
  told,      \* the sockets that have a membership_revoked event to handle
  presence,  \* presence[u]: the cache key chat:presence:<room>:<u>
  faults

socketVars == <<members, publish, sock, told, presence, faults>>

(* "checked": membership is checked, the socket is not in its group;       *)
(* "joined": in the group and accepted; "adding": cache.add found a key;   *)
(* "leaving": disconnect starts; "last", "others": the count it read is at *)
(* most one, or more.                                                      *)
SocketState == {"closed", "checked", "joined", "adding", "open",
                "leaving", "last", "others"}
NoKey == [there |-> FALSE, count |-> 0]
Key(n) == [there |-> TRUE, count |-> n]

SocketTypeOK ==
  /\ members \subseteq Clients /\ publish \subseteq Clients
  /\ sock \in [Sockets -> SocketState]
  /\ told \subseteq Sockets
  /\ presence \in [Clients -> [there: BOOLEAN, count: Int]]
  /\ faults \in Nat

SocketInit ==
  /\ members = Clients
  /\ publish = {}
  /\ sock = [s \in Sockets |-> "closed"]
  /\ told = {}
  /\ presence = [u \in Clients |-> NoKey]
  /\ faults = 0

InGroup(s) == sock[s] \in {"joined", "adding", "open"}
Goes(s, step) == sock' = [sock EXCEPT ![s] = step]
Keeps(u, key) == presence' = [presence EXCEPT ![u] = key]
Fault == faults < MaxFaults /\ faults' = faults + 1

----------------------------------------------------------------------------
(* The room: ChatService removes or adds a member; the event is sent by    *)
(* the transaction's on_commit hook.                                       *)

Remove(u) ==
  /\ u \in members
  /\ members' = members \ {u}
  /\ publish' = publish \cup {u}
  /\ UNCHANGED <<sock, told, presence, faults>>

Admit(u) ==
  /\ u \notin members
  /\ members' = members \cup {u}
  /\ UNCHANGED <<publish, sock, told, presence, faults>>

(* Every consumer of the group gets the event; only the user's own act.    *)
PublishRevoked(u) ==
  /\ u \in publish
  /\ publish' = publish \ {u}
  /\ told' = told \cup {s \in Sockets : InGroup(s) /\ UserOf[s] = u}
  /\ UNCHANGED <<members, sock, presence, faults>>

(* The process dies before the hook, or the channel is over its capacity.  *)
EventIsLost(u) ==
  /\ u \in publish
  /\ Fault
  /\ publish' = publish \ {u}
  /\ UNCHANGED <<members, sock, told, presence>>

----------------------------------------------------------------------------
(* connect *)

Connect(s) ==
  /\ sock[s] = "closed"
  /\ UserOf[s] \in members
  /\ Goes(s, "checked")
  /\ UNCHANGED <<members, publish, told, presence, faults>>

(* The handler closes the socket, whose disconnect handler runs then.      *)
ConnectRefused(s) ==
  /\ sock[s] = "closed"
  /\ UserOf[s] \notin members
  /\ Goes(s, "leaving")
  /\ UNCHANGED <<members, publish, told, presence, faults>>

JoinGroup(s) ==
  /\ sock[s] = "checked"
  /\ Goes(s, "joined")
  /\ UNCHANGED <<members, publish, told, presence, faults>>

(* set_presence(True): cache.add, or incr and touch. *)
PresenceAdd(s) ==
  /\ sock[s] = "joined"
  /\ IF presence[UserOf[s]].there
     THEN Goes(s, "adding") /\ UNCHANGED presence
     ELSE Goes(s, "open") /\ Keeps(UserOf[s], Key(1))
  /\ UNCHANGED <<members, publish, told, faults>>

(* incr raises when the key has expired meanwhile. *)
PresenceIncr(s) ==
  LET u == UserOf[s]
  IN /\ sock[s] = "adding"
     /\ Goes(s, "open")
     /\ Keeps(u, IF presence[u].there THEN Key(presence[u].count + 1) ELSE NoKey)
     /\ UNCHANGED <<members, publish, told, faults>>

----------------------------------------------------------------------------
(* receive *)

(* Fault: a frame is handled without asking who is a member now. *)
FrameTrusted(s) ==
  /\ sock[s] = "open"
  /\ UNCHANGED socketVars

(* Every frame asks again; a member's ping only refreshes the key.         *)
Frame(s) ==
  /\ sock[s] = "open"
  /\ UserOf[s] \notin members
  /\ Goes(s, "leaving")
  /\ told' = told \ {s}
  /\ UNCHANGED <<members, publish, presence, faults>>

MembershipRevoked(s) ==
  /\ s \in told /\ sock[s] = "open"
  /\ Goes(s, "leaving")
  /\ told' = told \ {s}
  /\ UNCHANGED <<members, publish, presence, faults>>

----------------------------------------------------------------------------
(* disconnect *)

Hang(s) ==
  /\ sock[s] = "open"
  /\ Goes(s, "leaving")
  /\ told' = told \ {s}
  /\ UNCHANGED <<members, publish, presence, faults>>

(* set_presence(False): get; then delete, or decr and touch. *)
PresenceRead(s) ==
  /\ sock[s] = "leaving"
  /\ Goes(s, IF presence[UserOf[s]].count <= 1 THEN "last" ELSE "others")
  /\ UNCHANGED <<members, publish, told, presence, faults>>

PresenceDelete(s) ==
  /\ sock[s] = "last"
  /\ Goes(s, "closed")
  /\ Keeps(UserOf[s], NoKey)
  /\ UNCHANGED <<members, publish, told, faults>>

(* decr raises without the key, and does not stop at zero. *)
PresenceDecr(s) ==
  LET u == UserOf[s]
  IN /\ sock[s] = "others"
     /\ Goes(s, "closed")
     /\ Keeps(u, IF presence[u].there THEN Key(presence[u].count - 1) ELSE NoKey)
     /\ UNCHANGED <<members, publish, told, faults>>

ProcessDies(s) ==
  /\ sock[s] # "closed"
  /\ Fault
  /\ Goes(s, "closed")
  /\ told' = told \ {s}
  /\ UNCHANGED <<members, publish, presence>>

(* Fault: the time to live is set when the count reaches zero only. *)
KeyAtZeroExpires(u) ==
  /\ presence[u].there /\ presence[u].count <= 0
  /\ Keeps(u, NoKey)
  /\ UNCHANGED <<members, publish, sock, told, faults>>

(* Two minutes without a ping: an open socket's client may be silent, too. *)
KeyExpires(u) ==
  /\ presence[u].there
  /\ Keeps(u, NoKey)
  /\ UNCHANGED <<members, publish, sock, told, faults>>

----------------------------------------------------------------------------
Handler(s) ==
  \/ JoinGroup(s) \/ PresenceAdd(s) \/ PresenceIncr(s) \/ MembershipRevoked(s)
  \/ PresenceRead(s) \/ PresenceDelete(s) \/ PresenceDecr(s)

SocketNext ==
  \/ \E u \in Clients :
       Remove(u) \/ Admit(u) \/ PublishRevoked(u) \/ EventIsLost(u) \/ KeyExpires(u)
  \/ \E s \in Sockets :
       \/ Connect(s) \/ ConnectRefused(s) \/ Handler(s)
       \/ Frame(s) \/ Hang(s) \/ ProcessDies(s)

SocketSpec == SocketInit /\ [][SocketNext]_socketVars
----------------------------------------------------------------------------
Gone(u) == presence[u].there = FALSE
AtWork(u) == \E s \in Sockets : UserOf[s] = u /\ sock[s] # "closed"

(* A socket whose user is removed is closed in the end, or its user is a   *)
(* member again: although the revocation may be published before the       *)
(* socket joined its group, be lost, or die with the process that was to   *)
(* publish it.  Frames of the client (its pings) do the rest.              *)
EvictedEventually ==
  \A s \in Sockets :
    (UserOf[s] \notin members) ~> (UserOf[s] \in members \/ ~InGroup(s))

(* Who has no socket left is shown offline in the end, although two        *)
(* sockets that close together may both leave the key behind, and a        *)
(* process that dies does not count its sockets down.                      *)
OfflineEventually ==
  \A u \in Clients : ~AtWork(u) ~> (Gone(u) \/ AtWork(u))

(* What sockets leave behind when they are cut off, or cut off themselves, *)
(* is made good (ChatConsumer, OnlineManager).                             *)
SocketsSettle == EvictedEventually /\ OfflineEventually
=============================================================================
