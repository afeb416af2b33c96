------------------------ MODULE NotificationRouting -------------------------
(***************************************************************************)
(* To whom a push notification goes (apps/notification): the preferences   *)
(* and quiet hours that let it through, the registrations of its user's    *)
(* devices, and the provider that sends to them.  A device's registration  *)
(* moves to whoever signs in on it; preferences and registrations are read *)
(* by one statement and used by a later one.  How a notification that      *)
(* fails is retried is NotificationQueue's.                                *)
(***************************************************************************)
EXTENDS Integers

CONSTANTS
  Readers,        \* users
  Devices,        \* registration ids, one per device
  Pushes,         \* calls of send_notification on the push channel
  AddresseeOf,    \* AddresseeOf[n]: the user push n is for
  Adjustments,    \* requests that write preferences
  WriterOf,       \* WriterOf[e]: the user who makes request e
  Removals,       \* requests that remove a device
  Topics,         \* orders, messages, marketing, system
  Clock,          \* the hours of a day are 0..Clock - 1
  Habits,         \* the quiet hours users choose
  Zones           \* the time zones they name, in hours after UTC

ASSUME RoutingAssumption ==
  /\ AddresseeOf \in [Pushes -> Readers]
  /\ WriterOf \in [Adjustments -> Readers]
  /\ Clock \in Nat \ {0}
  /\ Habits \subseteq [from: 0..(Clock - 1), to: 0..(Clock - 1)]
  /\ 0 \in Zones /\ Zones \subseteq 0..(Clock - 1)

VARIABLES
  preference,   \* preference[u]: NotificationPreference, or NoPreference
  device,       \* device[d]: DeviceInstallation, or NoDevice
  push,         \* push[n]: how far send_notification is
  adjustment,   \* the requests that have read the preferences they will save
  removal,      \* removal[x]: the installation a request read, to deactivate
  hour,         \* the time of day, in UTC: what timezone.now() says
  carrier,      \* carrier[d]: who last registered d and kept it (history)
  window,       \* window[n]: what was so at some time since n (history)
  shown         \* the pushes devices displayed

routingVars == <<preference, device, push, adjustment, removal, hour, carrier,
                 window, shown>>

HoursOfDay == 0..(Clock - 1)
Always == [from |-> Clock, to |-> Clock]   \* either end of the hours is null
QuietHours == Habits \cup {Always}
PreferenceRow ==
  [push: BOOLEAN, muted: SUBSET Topics, quiet: QuietHours, zone: Zones]
Default == [push |-> TRUE, muted |-> {}, quiet |-> Always, zone |-> 0]
NoPreference == [Default EXCEPT !.quiet = [from |-> -1, to |-> -1]]
NoReader == "nobody"
DeviceRow == [of: Readers, active: BOOLEAN]
NoDevice == [of |-> NoReader, active |-> FALSE]

(* "creating": its user had no preferences; "accepted": the notification   *)
(* is to be sent; "addressed": the provider read the registrations; "over":*)
(* sent, or given up.                                                      *)
PushStep == {"none", "creating", "accepted", "addressed", "over"}
PushRow == [at: PushStep, topic: Topics \cup {"any"}, forced: BOOLEAN,
            tokens: SUBSET Devices]
NoPush == [at |-> "none", topic |-> "any", forced |-> FALSE, tokens |-> {}]
NoRemoval == [of |-> NoReader, on |-> NoReader]

RoutingInit ==
  /\ preference = [u \in Readers |-> NoPreference]
  /\ device = [d \in Devices |-> NoDevice]
  /\ push = [n \in Pushes |-> NoPush]
  /\ adjustment = {}
  /\ removal = [x \in Removals |-> NoRemoval]
  /\ hour = 0
  /\ carrier = [d \in Devices |-> NoReader]
  /\ window = [n \in Pushes |-> [devices |-> {}, open |-> FALSE, own |-> FALSE]]
  /\ shown = {}

----------------------------------------------------------------------------
(* _should_send_notification *)

(* Fault: quiet hours past midnight are never quiet. *)
IsQuietTheSameDay(q, now) == q # Always /\ q.from <= now /\ now <= q.to

(* _is_quiet_hours: the hour compared is the server's, whatever zone the   *)
(* preferences name.                                                       *)
IsQuiet(q, now) ==
  /\ q # Always
  /\ IF q.from <= q.to THEN q.from <= now /\ now <= q.to
                       ELSE now >= q.from \/ now <= q.to

ShouldSend(row, topic) ==
  row.push /\ topic \notin row.muted /\ ~IsQuiet(row.quiet, hour)

Decide(n, row) ==
  push' = [push EXCEPT ![n].at =
             IF ShouldSend(row, push[n].topic) THEN "accepted" ELSE "over"]

Request(n, topic, forced) ==
  /\ push[n] = NoPush
  /\ LET row == preference[AddresseeOf[n]]
         step == IF forced THEN "accepted"
                 ELSE IF row = NoPreference THEN "creating"
                 ELSE IF ShouldSend(row, topic) THEN "accepted" ELSE "over"
     IN push' = [push EXCEPT ![n] = [at |-> step, topic |-> topic,
                                     forced |-> forced, tokens |-> {}]]
  /\ UNCHANGED <<preference, device, adjustment, removal, hour, carrier, shown>>

(* The user had no preferences: a row is created, which fails if there is  *)
(* one by now, and the notification is dropped with it.                    *)
CreatePreference(n) ==
  LET u == AddresseeOf[n]
  IN /\ push[n].at = "creating"
     /\ \/ /\ preference[u] = NoPreference
           /\ preference' = [preference EXCEPT ![u] = Default]
           /\ Decide(n, Default)
        \/ /\ preference[u] # NoPreference
           /\ push' = [push EXCEPT ![n].at = "over"]
           /\ UNCHANGED preference
     /\ UNCHANGED <<device, adjustment, removal, hour, carrier, shown>>

----------------------------------------------------------------------------
(* PushNotificationProvider.send *)

(* Fault: a registration that was removed is sent to as well. *)
AddressedOf(u) == {d \in Devices : device[d].of = u}

RegistrationsOf(u) == {d \in Devices : device[d].of = u /\ device[d].active}

Address(n) ==
  LET tokens == RegistrationsOf(AddresseeOf[n])
  IN /\ push[n].at = "accepted"
     /\ push' = [push EXCEPT ![n].at = IF tokens = {} THEN "over" ELSE "addressed",
                             ![n].tokens = tokens]
     /\ UNCHANGED <<preference, device, adjustment, removal, hour, carrier, shown>>

(* The service displays it on some of the devices and no longer knows      *)
(* others, whose registrations are deactivated.  When it reached none of   *)
(* either, or raised, the queue tries again from the registrations on, and *)
(* without asking for the preferences.                                     *)
Multicast(n, displayed, unknown) ==
  /\ push[n].at = "addressed"
  /\ displayed \cup unknown \subseteq push[n].tokens
  /\ displayed \cap unknown = {}
  /\ shown' = shown \cup {[of |-> n, on |-> d] : d \in displayed}
  /\ device' = [d \in Devices |->
       IF d \in unknown THEN [device[d] EXCEPT !.active = FALSE] ELSE device[d]]
  /\ push' = [push EXCEPT
       ![n].at = IF displayed \cup unknown = {} THEN "accepted" ELSE "over",
       ![n].tokens = {}]
  /\ UNCHANGED <<preference, adjustment, removal, hour, carrier>>

----------------------------------------------------------------------------
(* DeviceInstallationViewSet *)

(* Fault: a device that is known stays with the user it is known for. *)
RegisterOnce(u, d) ==
  /\ device' = [device EXCEPT
       ![d] = IF @ = NoDevice THEN [of |-> u, active |-> TRUE] ELSE @]
  /\ carrier' = [carrier EXCEPT ![d] = u]
  /\ UNCHANGED <<preference, push, adjustment, removal, hour, shown>>

(* DeviceInstallationSerializer.create: update_or_create, by registration. *)
Register(u, d) ==
  /\ device' = [device EXCEPT ![d] = [of |-> u, active |-> TRUE]]
  /\ carrier' = [carrier EXCEPT ![d] = u]
  /\ UNCHANGED <<preference, push, adjustment, removal, hour, shown>>

(* The installation is looked up among its user's own, and deactivated by  *)
(* its key: by then it may be another user's.                              *)
BeginRemoval(x, d) ==
  /\ removal[x] = NoRemoval
  /\ device[d] # NoDevice
  /\ removal' = [removal EXCEPT ![x] = [of |-> device[d].of, on |-> d]]
  /\ UNCHANGED <<preference, device, push, adjustment, hour, carrier, shown>>

(* perform_destroy *)
EndRemoval(x) ==
  LET d == removal[x].on
  IN /\ removal[x] # NoRemoval
     /\ device' = [device EXCEPT ![d].active = FALSE]
     /\ carrier' = [carrier EXCEPT ![d] = IF @ = removal[x].of THEN NoReader ELSE @]
     /\ removal' = [removal EXCEPT ![x] = NoRemoval]
     /\ UNCHANGED <<preference, push, adjustment, hour, shown>>

----------------------------------------------------------------------------
(* NotificationPreferenceViewSet, and the admin's form *)

(* get_object: get_or_create. *)
BeginAdjustment(e) ==
  LET u == WriterOf[e]
      row == IF preference[u] = NoPreference THEN Default ELSE preference[u]
  IN /\ e \notin adjustment
     /\ preference' = [preference EXCEPT ![u] = row]
     /\ adjustment' = adjustment \cup {e}
     /\ UNCHANGED <<device, push, removal, hour, carrier, shown>>

(* The fields that are given, and the others as they were read: the whole  *)
(* row is saved.  Any of them may be given, so any row.                    *)
EndAdjustment(e) ==
  /\ e \in adjustment
  /\ \E row \in PreferenceRow :
       preference' = [preference EXCEPT ![WriterOf[e]] = row]
  /\ adjustment' = adjustment \ {e}
  /\ UNCHANGED <<device, push, removal, hour, carrier, shown>>

DeletePreference(u) ==
  /\ preference[u] # NoPreference
  /\ preference' = [preference EXCEPT ![u] = NoPreference]
  /\ UNCHANGED <<device, push, adjustment, removal, hour, carrier, shown>>

Tick ==
  /\ hour' = (hour + 1) % Clock
  /\ UNCHANGED <<preference, device, push, adjustment, removal, carrier, shown>>

----------------------------------------------------------------------------
(* From one hour to another going forward, past midnight if need be. *)
Between(h, from, to) == (h - from) % Clock <= (to - from) % Clock

Asked(row) == IF row = NoPreference THEN Default ELSE row
OwnHour(row, h) == (h + row.zone) % Clock

(* Nothing of a topic muted, and nothing while it is quiet at hour h.      *)
Wanted(row, topic, h) ==
  /\ row.push /\ topic \notin row.muted
  /\ row.quiet # Always => ~Between(h, row.quiet.from, row.quiet.to)

(* What a user let through, with his quiet hours taken as UTC; and what he *)
(* let through by his own clock, if he lives by another than UTC's.        *)
LetsThrough(row, topic, h) == Wanted(Asked(row), topic, h)
Abroad(row) == Asked(row).zone # 0
Welcome(row, topic, h) == Wanted(Asked(row), topic, OwnHour(Asked(row), h))

(* The devices n's user has carried, and whether they let n through, at    *)
(* some time since n was asked for.                                        *)
Watch ==
  window' = [n \in Pushes |->
    IF push'[n].at = "none" THEN window[n]
    ELSE LET u == AddresseeOf[n]
             topic == push'[n].topic
         IN [devices |-> window[n].devices \cup {d \in Devices : carrier'[d] = u},
             open |-> \/ window[n].open \/ push'[n].forced
                      \/ LetsThrough(preference[u], topic, hour)
                      \/ LetsThrough(preference'[u], topic, hour'),
             own |-> \/ window[n].own \/ push'[n].forced
                     \/ Abroad(preference[u]) \/ Welcome(preference[u], topic, hour)
                     \/ Abroad(preference'[u]) \/ Welcome(preference'[u], topic, hour')]]

RoutingNext ==
  /\ \/ \E n \in Pushes :
          \/ \E topic \in Topics, forced \in BOOLEAN : Request(n, topic, forced)
          \/ CreatePreference(n) \/ Address(n)
          \/ \E displayed, unknown \in SUBSET Devices :
               Multicast(n, displayed, unknown)
     \/ \E u \in Readers :
          \/ \E d \in Devices : Register(u, d)
          \/ DeletePreference(u)
     \/ \E x \in Removals : \/ \E d \in Devices : BeginRemoval(x, d)
                            \/ EndRemoval(x)
     \/ \E e \in Adjustments : BeginAdjustment(e) \/ EndAdjustment(e)
     \/ Tick
  /\ Watch

RoutingSpec == RoutingInit /\ [][RoutingNext]_routingVars

----------------------------------------------------------------------------
RoutingTypeOK ==
  /\ preference \in [Readers -> PreferenceRow \cup {NoPreference}]
  /\ device \in [Devices -> DeviceRow \cup {NoDevice}]
  /\ push \in [Pushes -> PushRow]
  /\ adjustment \subseteq Adjustments
  /\ hour \in HoursOfDay
  /\ carrier \in [Devices -> Readers \cup {NoReader}]
  /\ \A s \in shown : s.of \in Pushes /\ s.on \in Devices

(* A device displays a notification only to somebody who carried it since  *)
(* the notification was asked for, and who let it through at some time     *)
(* since then: through preferences that are read before they are used, a   *)
(* device that changes hands while the provider has its registration, and  *)
(* quiet hours that go past midnight.  The quiet hours are those of UTC:   *)
(* only somebody who named another zone is disturbed in his own, since     *)
(* _is_quiet_hours does not read the zone.                                 *)
ShownToItsUser ==
  \A s \in shown :
    s.on \in window[s.of].devices /\ window[s.of].open /\ window[s.of].own
=============================================================================
