-------------------------- MODULE NetworkingProofs --------------------------
(***************************************************************************)
(* Proofs about NetworkingMeetings, for every set of profiles, meetings,   *)
(* tables and stands and every configuration.                              *)
(*                                                                         *)
(* A step writes the meetings in one of three ways: an allocation of some  *)
(* rows (reserveAll), a transition, or an update that keeps every claim.   *)
(* Each way is shown once to keep the reservations right; the actions only *)
(* have to show what they allocate.                                        *)
(***************************************************************************)
EXTENDS NetworkingMeetings, TLAPS

Snapshots == [before : Statuses \union {"WITHDRAWN"}, meetings : SUBSET Meetings]

Shape ==
  /\ now \in Int
  /\ config \in Configs
  /\ undo \in [Profiles -> {None} \union Snapshots]
  /\ access \in [Profiles -> Statuses \union {"WITHDRAWN"}]
  /\ tables \in [Tables -> {"active", "inactive", "removed"}]
  /\ meet \in [Meetings -> {None} \union MeetingRows]
  /\ agreed = [m \in Meetings |-> agreed[m]]

(* The reservations of meeting m *)
ClaimsOf(m) == Claims(m, meet[m], meet[m].table)

Booked == ReservationsFollowStatus /\ NoDoubleBooking

(* What BookingsStayValid and BlockedNeverMeet say of one meeting *)
Possible(m) ==
  Upcoming(m) =>
    /\ meet[m].table # None => tables[meet[m].table] = "active"
    /\ \A p \in Pair(m) : Eligible(p)
    /\ \A p, q \in Pair(m) : ~Blocked(p, q)
    /\ meet[m].status \in accepted =>
         meet[m].start \in networkingSlots(config) /\ meet[m].duration = config.slotDuration

(* Who said what of a row with this status and proposal: an open proposal  *)
(* is its proposer's; both participants chose the time of an accepted      *)
(* meeting; a request that can still be answered and has no other proposal *)
(* is at its requester's time.                                             *)
AgreedRow(row, status, prop, propBy, says, time) ==
  /\ prop # None => propBy \in {row.requester, row.recipient} /\ <<propBy, prop>> \in says
  /\ prop = None => propBy = None
  /\ status \in accepted => <<row.requester, row.start>> \in says /\ <<row.recipient, row.start>> \in says
  /\ status = "PENDING" /\ prop = None /\ row.expires > time => <<row.requester, row.start>> \in says

(* So of an open meeting, and of the one a restore would bring back *)
Agreed(m) ==
  /\ Is(m, open) =>
       AgreedRow(meet[m], meet[m].status, meet[m].prop, meet[m].propBy, agreed[m], now)
  /\ Is(m, {"CANCELLED"}) /\ meet[m].cancelled # None =>
       AgreedRow(meet[m], meet[m].cancelled.status, meet[m].cancelled.prop,
                 meet[m].cancelled.propBy, agreed[m], now)

NoSelfBlock == \A p \in Profiles : <<p, p>> \notin blocks

(* The inductive invariant *)
Inv ==
  /\ Shape /\ Booked /\ NoSelfBlock
  /\ \A m \in Meetings : Possible(m) /\ Agreed(m)

(* Two rows do not claim one resource at one time *)
Apart(m, row, table, k, other, place) ==
  \A c \in Claims(m, row, table), e \in Claims(k, other, place) : <<c.key, c.q>> # <<e.key, e.q>>

-----------------------------------------------------------------------------
(* Rows *)

LEMMA ConstantFacts ==
  /\ None \notin MeetingRows /\ None \notin Int /\ None \notin Profiles /\ None \notin Tables
  /\ LastQuantum \in Nat
  /\ \A c \in Configs : c.slotDuration \in Int
BY NetworkingConstants

LEMMA RowOf ==
  ASSUME Shape, NEW m \in Meetings, Exists(m)
  PROVE  meet[m] \in MeetingRows
BY DEF Shape, Exists

(* What a claim of a row looks like *)
LEMMA ClaimParts ==
  ASSUME NEW m, NEW row, NEW t, NEW h
  PROVE  h \in Claims(m, row, t) <=>
           /\ h = [key |-> h.key, q |-> h.q, meeting |-> m]
           /\ h.q \in resourceQuanta(row.start, row.duration)
           /\ \/ row.status = "PENDING" /\ h.key = HoldKey(row.requester)
              \/ row.status # "PENDING" /\ \E p \in {row.requester, row.recipient} : h.key = ProfileKey(p)
              \/ t # None /\ h.key = networkingInventoryResource(t, {row.requester, row.recipient})
BY DEF Claims

LEMMA ClaimMeeting ==
  ASSUME NEW m, NEW row, NEW t, NEW h \in Claims(m, row, t)
  PROVE  h.meeting = m /\ h = [key |-> h.key, q |-> h.q, meeting |-> m]
BY DEF Claims

(* Membership in the reservations, row by row *)
LEMMA HeldParts ==
  ASSUME NEW h
  PROVE  ReservationsFollowStatus =>
           (h \in held <=> \E m \in Meetings : Is(m, holding) /\ h \in ClaimsOf(m))
BY DEF ReservationsFollowStatus, ClaimsOf

(* Claims depend on the pair, the quanta, the table and whether the row is *)
(* a request.                                                              *)
LEMMA SameClaims ==
  ASSUME NEW m, NEW row, NEW old, NEW t,
         row.requester = old.requester, row.recipient = old.recipient,
         row.start = old.start, row.duration = old.duration,
         row.status = "PENDING" <=> old.status = "PENDING"
  PROVE  Claims(m, row, t) = Claims(m, old, t)
BY DEF Claims

-----------------------------------------------------------------------------
(* The three ways to write *)

(* An update that keeps the claims of every meeting *)
LEMMA FrameBooked ==
  ASSUME Booked, held' = held,
         \A m \in Meetings : /\ Is(m, holding)' <=> Is(m, holding)
                             /\ Is(m, holding) => ClaimsOf(m)' = ClaimsOf(m)
  PROVE  Booked'
<1>1. ReservationsFollowStatus'
  BY DEF Booked, ReservationsFollowStatus, ClaimsOf
<1>2. NoDoubleBooking'
  BY DEF Booked, NoDoubleBooking
<1>3. QED
  BY <1>1, <1>2 DEF Booked

(* A transition to a released status drops the reservations of its         *)
(* meetings; the other two keep those of a confirmed meeting.              *)
LEMMA TransitionBooked ==
  ASSUME Shape, Booked, NEW ms \in SUBSET Meetings, NEW to \in released \union {"COMPLETED", "NO_SHOW"},
         transition(ms, to),
         \A m \in ms : Is(m, IF to \in released THEN open ELSE {"CONFIRMED"})
  PROVE  Booked' /\ meet' \in [Meetings -> {None} \union MeetingRows]
<1>1. ASSUME NEW m \in Meetings
      PROVE  IF m \in ms THEN /\ meet'[m] \in MeetingRows /\ meet'[m].status = to
                              /\ meet[m] \in MeetingRows /\ meet[m].status \in open
                              /\ meet'[m].table = meet[m].table
                              /\ \A t : to \notin released => Claims(m, meet'[m], t) = Claims(m, meet[m], t)
             ELSE meet'[m] = meet[m]
  <2>1. CASE m \in ms
    <3>1. Exists(m) /\ meet[m].status \in open
      BY <2>1 DEF Is, open
    <3>2. meet[m] \in MeetingRows
      BY <3>1, RowOf
    <3>3. meet'[m] \in MeetingRows /\ meet'[m].status = to
      BY <2>1, <3>1, <3>2, ConstantFacts DEF transition, MeetingRows, released, holding, open
    <3>4. /\ meet'[m].table = meet[m].table /\ meet'[m].requester = meet[m].requester
          /\ meet'[m].recipient = meet[m].recipient /\ meet'[m].start = meet[m].start
          /\ meet'[m].duration = meet[m].duration
      BY <2>1, <3>2 DEF transition, MeetingRows
    <3>5. to \notin released => meet[m].status = "CONFIRMED" /\ meet'[m].status # "PENDING"
      BY <2>1, <3>3 DEF Is, released
    <3>6. QED
      BY <2>1, <3>1, <3>2, <3>3, <3>4, <3>5, SameClaims
  <2>2. CASE m \notin ms
    BY <2>2 DEF transition
  <2>3. QED
    BY <2>1, <2>2
<1>2. meet' \in [Meetings -> {None} \union MeetingRows]
  <2>1. meet' = [m \in Meetings |-> meet'[m]]
    BY DEF transition
  <2>2. QED
    BY <1>1, <2>1 DEF Shape
<1>3. CASE to \notin released
  <2>1. held' = held
    BY <1>3 DEF transition
  <2>2. ASSUME NEW m \in Meetings
        PROVE  /\ Is(m, holding)' <=> Is(m, holding)
               /\ Is(m, holding) => ClaimsOf(m)' = ClaimsOf(m)
    BY <1>1, <1>3, ConstantFacts DEF Is, Exists, holding, open, ClaimsOf
  <2>3. QED
    BY <1>2, <2>1, <2>2, FrameBooked
<1>4. CASE to \in released
  <2>1. held' = {h \in held : h.meeting \notin ms}
    BY <1>4 DEF transition
  <2>2. ASSUME NEW m \in Meetings
        PROVE  /\ Is(m, holding)' <=> Is(m, holding) /\ m \notin ms
               /\ m \notin ms => ClaimsOf(m)' = ClaimsOf(m)
    BY <1>1, <1>4 DEF Is, Exists, holding, open, released, ClaimsOf
  <2>3. ASSUME NEW h
        PROVE  h \in held' <=> \E m \in Meetings : Is(m, holding)' /\ h \in ClaimsOf(m)'
    <3>1. h \in held <=> \E m \in Meetings : Is(m, holding) /\ h \in ClaimsOf(m)
      BY HeldParts DEF Booked
    <3>2. \A m \in Meetings : h \in ClaimsOf(m) => h.meeting = m
      BY ClaimMeeting DEF ClaimsOf
    <3>3. QED
      BY <2>1, <2>2, <3>1, <3>2
  <2>4. ReservationsFollowStatus'
    BY <2>3 DEF ReservationsFollowStatus, ClaimsOf
  <2>5. NoDoubleBooking'
    BY <2>1 DEF Booked, NoDoubleBooking
  <2>6. QED
    BY <1>2, <2>4, <2>5 DEF Booked
<1>5. QED
  BY <1>3, <1>4

(* What an allocation may be given is free, and a table of it in use *)
LEMMA AllocationFree ==
  ASSUME NEW m, NEW row, NEW forced, NEW place \in Allocations(m, row, forced)
  PROVE  /\ place \in Tables \union {None}
         /\ place # None => tables[place] = "active"
         /\ row.status = "PENDING" => row.expires > now
         /\ \A c \in Claims(m, row, place) :
              /\ c.q \in resourceQuanta(row.start, row.duration)
              /\ ~taken(c.key, resourceQuanta(row.start, row.duration), m)
<1> DEFINE qs == resourceQuanta(row.start, row.duration)
           pair == {row.requester, row.recipient}
           resource == networkingInventoryResource(place, pair)
<1>1. /\ row.status = "PENDING" => row.expires > now /\ ~taken(HoldKey(row.requester), qs, m)
      /\ \A p \in pair : ~taken(ProfileKey(p), qs, m)
      /\ place \in Candidates(m, row, qs, forced) \/ place = None
  <2> HIDE DEF qs
  <2> QED BY DEF Allocations, qs
<1>2. place # None => place \in Tables /\ tables[place] = "active" /\ ~taken(resource, qs, m)
  <2> SUFFICES ASSUME place \in Candidates(m, row, qs, forced)
               PROVE  place \in Tables /\ tables[place] = "active" /\ ~taken(resource, qs, m)
    BY <1>1
  <2> HIDE DEF qs
  <2> QED BY DEF Candidates
<1>3. ASSUME NEW c \in Claims(m, row, place)
      PROVE  c.q \in qs /\ ~taken(c.key, qs, m)
  <2> HIDE DEF qs
  <2>1. c.q \in qs /\ \/ row.status = "PENDING" /\ c.key = HoldKey(row.requester)
                      \/ row.status # "PENDING" /\ \E p \in pair : c.key = ProfileKey(p)
                      \/ place # None /\ c.key = resource
    BY <1>3, ClaimParts DEF qs
  <2>2. QED
    BY <1>1, <1>2, <2>1
<1>4. QED
  BY <1>1, <1>2, <1>3

(* What an allocation writes: the rows it was given, and nothing else but  *)
(* the expiry of requests in their way.                                    *)
Expired(m) == Is(m, {"PENDING"}) /\ meet'[m] = [meet[m] EXCEPT !.status = "EXPIRED"]

LEMMA ReserveEffect ==
  ASSUME NEW ms \in SUBSET Meetings, NEW rows, NEW place, DOMAIN rows = ms, reserveAll(rows, place)
  PROVE  /\ meet' = [m \in Meetings |-> meet'[m]]
         /\ \A m \in ms : meet'[m] = Allocated(rows[m], place[m])
         /\ \A m \in Meetings \ ms : meet'[m] = meet[m] \/ Expired(m)
<1>1. \A m \in ms : meet'[m] = Allocated(rows[m], place[m])
  BY DEF reserveAll
<1>2. \A m \in Meetings \ ms : meet'[m] = meet[m] \/ Expired(m)
  BY DEF reserveAll, Expired, Lapsed, Overdue
<1>3. meet' = [m \in Meetings |-> meet'[m]]
  BY DEF reserveAll
<1>4. QED
  BY <1>1, <1>2, <1>3

LEMMA ReserveBooked ==
  ASSUME Shape, Booked, NEW ms \in SUBSET Meetings, NEW rows, NEW place,
         DOMAIN rows = ms, reserveAll(rows, place),
         \A m \in ms : /\ rows[m] \in MeetingRows /\ rows[m].status \in open
                       /\ \E forced : place[m] \in Allocations(m, rows[m], forced),
         \A m, k \in ms : m # k => Apart(m, rows[m], place[m], k, rows[k], place[k])
  PROVE  Booked' /\ meet' \in [Meetings -> {None} \union MeetingRows]
<1> DEFINE lapsed == UNION {Lapsed(resourceQuanta(rows[m].start, rows[m].duration)) : m \in ms}
           New(m) == Claims(m, rows[m], place[m])
<1>1. ASSUME NEW m \in ms
      PROVE  /\ meet'[m] \in MeetingRows /\ Is(m, holding)' /\ ClaimsOf(m)' = New(m)
  <2>1. place[m] \in Tables \union {None} /\ rows[m] \in MeetingRows /\ rows[m].status \in open
    BY AllocationFree
  <2>2. meet'[m] = Allocated(rows[m], place[m])
    BY ReserveEffect
  <2>3. meet'[m] \in MeetingRows /\ meet'[m].status \in open /\ meet'[m].table = place[m]
    BY <2>1, <2>2 DEF Allocated, MeetingRows, open, holding
  <2>4. /\ meet'[m].requester = rows[m].requester /\ meet'[m].recipient = rows[m].recipient
        /\ meet'[m].start = rows[m].start /\ meet'[m].duration = rows[m].duration
        /\ (meet'[m].status = "PENDING") <=> (rows[m].status = "PENDING")
    BY <2>1, <2>2 DEF Allocated, MeetingRows
  <2>5. Is(m, holding)'
    BY <2>3, ConstantFacts DEF Is, Exists, holding
  <2>6. QED
    BY <2>3, <2>4, <2>5, SameClaims DEF ClaimsOf
<1>2. ASSUME NEW m \in Meetings \ ms
      PROVE  /\ meet'[m] \in {None} \union MeetingRows
             /\ Is(m, holding)' <=> Is(m, holding) /\ m \notin lapsed
             /\ m \notin lapsed => meet'[m] = meet[m]
  <2>1. CASE m \in lapsed
    <3>1. Exists(m) /\ meet'[m] = [meet[m] EXCEPT !.status = "EXPIRED"]
      BY <1>2, <2>1 DEF reserveAll, Lapsed, Overdue, Is
    <3>2. meet[m] \in MeetingRows
      BY <1>2, <3>1, RowOf
    <3>3. meet'[m] \in MeetingRows /\ meet'[m].status = "EXPIRED"
      BY <3>1, <3>2 DEF MeetingRows, released
    <3>4. QED
      BY <2>1, <3>3 DEF Is, holding, open
  <2>2. CASE m \notin lapsed
    <3>1. meet'[m] = meet[m]
      BY <1>2, <2>2 DEF reserveAll
    <3>2. QED
      BY <1>2, <2>2, <3>1 DEF Shape, Is, Exists
  <2>3. QED
    BY <2>1, <2>2
<1>3. meet' \in [Meetings -> {None} \union MeetingRows]
  BY <1>1, <1>2, ReserveEffect
<1>4. held' = {h \in held : h.meeting \notin lapsed \union ms} \union UNION {New(m) : m \in ms}
  BY DEF reserveAll
<1>5. ASSUME NEW h
      PROVE  h \in held' <=> \E m \in Meetings : Is(m, holding)' /\ h \in ClaimsOf(m)'
  <2>1. h \in held <=> \E m \in Meetings : Is(m, holding) /\ h \in ClaimsOf(m)
    BY HeldParts DEF Booked
  <2>2. \A m \in Meetings : h \in ClaimsOf(m) => h.meeting = m
    BY ClaimMeeting DEF ClaimsOf
  <2>3. \A m \in Meetings \ ms : m \notin lapsed => ClaimsOf(m)' = ClaimsOf(m)
    BY <1>2 DEF ClaimsOf
  <2> HIDE DEF lapsed, New
  <2>4. QED
    BY <1>1, <1>2, <1>4, <2>1, <2>2, <2>3
<1>6. ReservationsFollowStatus'
  BY <1>5 DEF ReservationsFollowStatus, ClaimsOf
<1>7. ASSUME NEW m \in ms, NEW c \in New(m), NEW h \in held', h.key = c.key, h.q = c.q
      PROVE  h = c
  <2>1. /\ c = [key |-> c.key, q |-> c.q, meeting |-> m]
        /\ c.q \in resourceQuanta(rows[m].start, rows[m].duration)
        /\ ~taken(c.key, resourceQuanta(rows[m].start, rows[m].duration), m)
    <3>1. PICK forced : place[m] \in Allocations(m, rows[m], forced)
      OBVIOUS
    <3>2. QED
      BY <1>7, <3>1, ClaimMeeting, AllocationFree
  <2>2. CASE h \in held /\ h.meeting \notin lapsed \union ms
    <3>1. Lapsed(resourceQuanta(rows[m].start, rows[m].duration)) \subseteq lapsed
      OBVIOUS
    <3> HIDE DEF lapsed
    <3>2. QED
      BY <1>7, <2>1, <2>2, <3>1 DEF taken
  <2>3. ASSUME NEW k \in ms, h \in New(k)
        PROVE  h = c
    <3>1. CASE k = m
      <4>1. h = [key |-> h.key, q |-> h.q, meeting |-> m]
        BY <2>3, <3>1, ClaimMeeting
      <4>2. QED
        BY <1>7, <2>1, <4>1
    <3>2. CASE k # m
      BY <1>7, <2>3, <3>2 DEF Apart
    <3>3. QED
      BY <3>1, <3>2
  <2>4. QED
    BY <1>4, <1>7, <2>2, <2>3
<1>8. NoDoubleBooking'
  <2> SUFFICES ASSUME NEW h \in held', NEW k \in held', h.key = k.key, h.q = k.q
               PROVE  h = k
    BY DEF NoDoubleBooking
  <2> HIDE DEF lapsed, New
  <2>1. CASE h \in held /\ k \in held
    BY <2>1 DEF Booked, NoDoubleBooking
  <2>2. CASE h \notin held \/ k \notin held
    BY <1>4, <1>7, <2>2
  <2>3. QED
    BY <2>1, <2>2
<1>9. QED
  BY <1>3, <1>6, <1>8 DEF Booked

-----------------------------------------------------------------------------
(* One meeting through a step *)

(* A meeting the step does not write stays possible *)
LEMMA KeptPossible ==
  ASSUME Shape, NEW m \in Meetings, Possible(m), meet'[m] = meet[m],
         now' \in Int, now' >= now, tables' = tables, config' = config, blocks' = blocks,
         \A p \in Profiles : Eligible(p) => Eligible(p)'
  PROVE  Possible(m)'
<1> SUFFICES ASSUME Upcoming(m)'
             PROVE  /\ (meet[m].table # None => tables[meet[m].table] = "active")
                    /\ \A p \in Pair(m) : Eligible(p)'
                    /\ \A p, q \in Pair(m) : ~Blocked(p, q)
                    /\ meet[m].status \in accepted =>
                         meet[m].start \in networkingSlots(config) /\ meet[m].duration = config.slotDuration
  BY DEF Possible, Pair, Blocked, networkingSlots
<1>1. Exists(m) /\ meet[m].status \in open
  BY DEF Upcoming, Is, Exists
<1>2. meet[m] \in MeetingRows
  BY <1>1, RowOf
<1>3. EndsAt(m) \in Int /\ EndsAt(m)' = EndsAt(m) /\ EndsAt(m)' > now'
  BY <1>2 DEF EndsAt, MeetingRows, Upcoming
<1>4. EndsAt(m) > now
  BY <1>3 DEF Shape
<1>5. Upcoming(m)
  BY <1>1, <1>4 DEF Upcoming, Is
<1>6. Pair(m) \subseteq Profiles
  BY <1>2 DEF Pair, MeetingRows
<1>7. QED
  BY <1>5, <1>6 DEF Possible

LEMMA KeptAgreed ==
  ASSUME Shape, NEW m \in Meetings, Agreed(m), meet'[m] = meet[m],
         now' \in Int, now' >= now, agreed[m] \subseteq agreed'[m]
  PROVE  Agreed(m)'
<1>1. ASSUME NEW status, NEW prop, NEW propBy, Exists(m),
             AgreedRow(meet[m], status, prop, propBy, agreed[m], now)
      PROVE  AgreedRow(meet[m], status, prop, propBy, agreed'[m], now')
  <2>1. meet[m].expires \in Int /\ now \in Int
    BY <1>1, RowOf DEF MeetingRows, Shape
  <2>2. meet[m].expires > now' => meet[m].expires > now
    BY <2>1
  <2>3. QED
    BY <1>1, <2>2 DEF AgreedRow
<1>2. QED
  BY <1>1 DEF Agreed, Is, Exists

(* A meeting that is not open any more *)
LEMMA ClosedPossible ==
  ASSUME NEW m, meet'[m] = None \/ meet'[m].status \notin open
  PROVE  Possible(m)'
BY DEF Possible, Upcoming, Is, Exists

LEMMA ClosedAgreed ==
  ASSUME NEW m, meet'[m] = None \/ meet'[m].status \notin open \union {"CANCELLED"}
  PROVE  Agreed(m)'
BY DEF Agreed, Is, Exists

LEMMA ExpiredCloses ==
  ASSUME Shape, NEW m \in Meetings, Expired(m)
  PROVE  Possible(m)' /\ Agreed(m)'
<1>1. meet[m] \in MeetingRows
  BY RowOf DEF Expired, Is
<1>2. meet'[m].status = "EXPIRED"
  BY <1>1 DEF Expired, MeetingRows
<1>3. QED
  BY <1>2, ClosedPossible, ClosedAgreed DEF open

LEMMA TransitionCloses ==
  ASSUME Shape, NEW ms \in SUBSET Meetings, NEW to \in released \union {"COMPLETED", "NO_SHOW"},
         transition(ms, to), now' = now, agreed' = agreed,
         \A m \in ms : Is(m, open) /\ Agreed(m)
  PROVE  /\ \A m \in ms : Possible(m)' /\ Agreed(m)'
         /\ \A m \in Meetings \ ms : meet'[m] = meet[m]
<1>1. ASSUME NEW m \in ms
      PROVE  Possible(m)' /\ Agreed(m)'
  <2>1. meet[m] \in MeetingRows
    BY RowOf DEF Is
  <2>2. meet'[m].status = to
    BY <2>1 DEF transition, MeetingRows
  <2>3. Possible(m)'
    BY <2>2, ClosedPossible DEF released, open
  <2>4. CASE to # "CANCELLED"
    BY <2>2, <2>3, <2>4, ClosedAgreed DEF released, open
  <2>5. CASE to = "CANCELLED"
    <3>1. /\ meet'[m].requester = meet[m].requester /\ meet'[m].recipient = meet[m].recipient
          /\ meet'[m].start = meet[m].start /\ meet'[m].expires = meet[m].expires
          /\ meet'[m].cancelled = [status |-> meet[m].status, prop |-> meet[m].prop,
                                   propBy |-> meet[m].propBy]
      BY <2>1, <2>5 DEF transition, MeetingRows
    <3>2. AgreedRow(meet[m], meet[m].status, meet[m].prop, meet[m].propBy, agreed[m], now)
      BY DEF Agreed
    <3>3. AgreedRow(meet'[m], meet'[m].cancelled.status, meet'[m].cancelled.prop,
                    meet'[m].cancelled.propBy, agreed'[m], now')
      BY <3>1, <3>2 DEF AgreedRow
    <3>4. ~Is(m, open)'
      BY <2>2, <2>5 DEF Is, open
    <3>5. QED
      BY <2>3, <3>3, <3>4 DEF Agreed
  <2>6. QED
    BY <2>4, <2>5
<1>2. QED
  BY <1>1 DEF transition

(* A row an allocation writes *)
LEMMA AllocatedPossible ==
  ASSUME Shape, NEW m \in Meetings, NEW row \in MeetingRows, row.status \in open, NEW forced,
         NEW place \in Allocations(m, row, forced), meet'[m] = Allocated(row, place),
         tables' = tables, config' = config, now' = now,
         row.start + row.duration > now =>
           /\ \A p \in {row.requester, row.recipient} : Eligible(p)'
           /\ \A p, q \in {row.requester, row.recipient} : ~Blocked(p, q)'
           /\ row.status \in accepted =>
                row.start \in networkingSlots(config) /\ row.duration = config.slotDuration
  PROVE  Possible(m)'
<1>1. place # None => tables[place] = "active"
  BY AllocationFree
<1>2. /\ meet'[m].table = place /\ meet'[m].start = row.start /\ meet'[m].duration = row.duration
      /\ meet'[m].requester = row.requester /\ meet'[m].recipient = row.recipient
      /\ meet'[m].status \in accepted => row.status \in accepted
  BY DEF Allocated, MeetingRows, accepted, open
<1>3. networkingSlots(config)' = networkingSlots(config)
  BY DEF networkingSlots
<1>4. QED
  BY <1>1, <1>2, <1>3 DEF Possible, Upcoming, EndsAt, Pair

LEMMA AllocatedAgreed ==
  ASSUME NEW m \in Meetings, NEW row \in MeetingRows, row.status \in open, NEW place,
         meet'[m] = Allocated(row, place), now' = now,
         AgreedRow(row, row.status, row.prop, row.propBy, agreed'[m], now)
  PROVE  Agreed(m)'
<1>1. /\ meet'[m].prop = row.prop /\ meet'[m].propBy = row.propBy
      /\ meet'[m].start = row.start /\ meet'[m].expires = row.expires
      /\ meet'[m].requester = row.requester /\ meet'[m].recipient = row.recipient
      /\ meet'[m].status \in accepted => row.status \in accepted
      /\ meet'[m].status = "PENDING" => row.status = "PENDING"
      /\ meet'[m].status \in open
  BY DEF Allocated, MeetingRows, accepted, open
<1>2. AgreedRow(meet'[m], meet'[m].status, meet'[m].prop, meet'[m].propBy, agreed'[m], now')
  BY <1>1 DEF AgreedRow
<1>3. meet'[m].status # "CANCELLED"
  BY <1>1 DEF open
<1>4. QED
  BY <1>2, <1>3 DEF Agreed, Is

-----------------------------------------------------------------------------
(* One allocation in a step that leaves the surroundings alone *)
LEMMA ReserveOne ==
  ASSUME Inv, NEW m \in Meetings, NEW row \in MeetingRows, row.status \in open, NEW forced,
         reserve(m, row, forced),
         tables' = tables, config' = config, now' = now, access' = access, blocks' = blocks,
         \A k \in Meetings \ {m} : agreed'[k] = agreed[k],
         row.start + row.duration > now =>
           /\ \A p \in {row.requester, row.recipient} : Eligible(p)
           /\ \A p, q \in {row.requester, row.recipient} : ~Blocked(p, q)
           /\ row.status \in accepted =>
                row.start \in networkingSlots(config) /\ row.duration = config.slotDuration,
         AgreedRow(row, row.status, row.prop, row.propBy, agreed'[m], now)
  PROVE  /\ Booked' /\ meet' \in [Meetings -> {None} \union MeetingRows]
         /\ \A k \in Meetings : Possible(k)' /\ Agreed(k)'
<1> DEFINE rows == [k \in {m} |-> row]
<1>1. PICK t \in Allocations(m, row, forced) : reserveAll(rows, [k \in {m} |-> t])
  BY DEF reserve
<1> DEFINE place == [k \in {m} |-> t]
<1>2. /\ DOMAIN rows = {m} /\ rows[m] = row /\ place[m] = t /\ reserveAll(rows, place)
      /\ {m} \in SUBSET Meetings
  BY <1>1
<1> HIDE DEF rows, place
<1>3. Booked' /\ meet' \in [Meetings -> {None} \union MeetingRows]
  BY <1>1, <1>2, ReserveBooked DEF Inv
<1>4. meet'[m] = Allocated(row, t) /\ \A k \in Meetings \ {m} : meet'[k] = meet[k] \/ Expired(k)
  BY <1>2, ReserveEffect
<1>5. Possible(m)'
  BY <1>1, <1>4, AllocatedPossible DEF Inv, Eligible, Blocked
<1>6. Agreed(m)'
  BY <1>4, AllocatedAgreed
<1>7. ASSUME NEW k \in Meetings \ {m}
      PROVE  Possible(k)' /\ Agreed(k)'
  <2>1. CASE Expired(k)
    BY <2>1, ExpiredCloses DEF Inv
  <2>2. CASE meet'[k] = meet[k]
    BY <2>2, KeptPossible, KeptAgreed DEF Inv, Shape, Eligible
  <2>3. QED
    BY <1>4, <2>1, <2>2
<1>8. QED
  BY <1>3, <1>5, <1>6, <1>7

(* One transition in such a step *)
LEMMA TransitionOne ==
  ASSUME Inv, NEW ms \in SUBSET Meetings, NEW to \in released \union {"COMPLETED", "NO_SHOW"},
         transition(ms, to),
         \A m \in ms : Is(m, IF to \in released THEN open ELSE {"CONFIRMED"}),
         now' = now, agreed' = agreed
  PROVE  /\ Booked' /\ meet' \in [Meetings -> {None} \union MeetingRows]
         /\ \A m \in Meetings : Agreed(m)'
         /\ \A m \in ms : Possible(m)'
         /\ \A m \in Meetings \ ms : meet'[m] = meet[m]
<1>1. \A m \in ms : Is(m, open) /\ Agreed(m)
  BY DEF Inv, Is, open
<1>2. Booked' /\ meet' \in [Meetings -> {None} \union MeetingRows]
  BY TransitionBooked DEF Inv
<1>3. /\ \A m \in ms : Possible(m)' /\ Agreed(m)'
      /\ \A m \in Meetings \ ms : meet'[m] = meet[m]
  BY <1>1, TransitionCloses DEF Inv
<1>4. \A m \in Meetings \ ms : Agreed(m)'
  BY <1>3, KeptAgreed DEF Inv, Shape
<1>5. QED
  BY <1>2, <1>3, <1>4

(* The same when nothing else that matters to a meeting changes *)
LEMMA TransitionAlone ==
  ASSUME Inv, NEW ms \in SUBSET Meetings, NEW to \in released \union {"COMPLETED", "NO_SHOW"},
         transition(ms, to),
         \A m \in ms : Is(m, IF to \in released THEN open ELSE {"CONFIRMED"}),
         MeetingStep, agreed' = agreed
  PROVE  Inv'
<1>1. now' = now /\ config' = config /\ access' = access /\ undo' = undo /\ tables' = tables /\ blocks' = blocks
  BY DEF MeetingStep
<1>2. /\ Booked' /\ meet' \in [Meetings -> {None} \union MeetingRows]
      /\ \A m \in Meetings : Agreed(m)'
      /\ \A m \in ms : Possible(m)'
      /\ \A m \in Meetings \ ms : meet'[m] = meet[m]
  BY <1>1, TransitionOne
<1>3. \A m \in Meetings \ ms : Possible(m)'
  BY <1>1, <1>2, KeptPossible DEF Inv, Shape, Eligible
<1>4. Shape' /\ NoSelfBlock'
  BY <1>1, <1>2 DEF Inv, Shape, NoSelfBlock
<1>5. QED
  BY <1>2, <1>3, <1>4 DEF Inv

(* A step that writes neither meetings nor reservations *)
LEMMA Elsewhere ==
  ASSUME Inv, meet' = meet, held' = held, agreed' = agreed, now' \in Int, now' >= now
  PROVE  Booked' /\ \A m \in Meetings : Agreed(m)'
<1>1. Booked'
  BY FrameBooked DEF Inv, Is, Exists, ClaimsOf, Claims, HoldKey, ProfileKey, networkingInventoryResource, resourceQuanta
<1>2. \A m \in Meetings : Agreed(m)'
  BY KeptAgreed DEF Inv
<1>3. QED
  BY <1>1, <1>2

-----------------------------------------------------------------------------
(* The participants' steps *)

LEMMA ExpiryType ==
  ASSUME Shape, NEW s \in Int
  PROVE  networkingProposalExpiry(s) \in Int
BY NetworkingConstants DEF Shape, networkingProposalExpiry

LEMMA CreateInv ==
  ASSUME Inv, NEW m \in Meetings, NEW p \in Profiles, NEW q \in Profiles, NEW s \in 1..LastQuantum,
         create(m, p, q, s)
  PROVE  Inv'
<1> DEFINE row == [status |-> "PENDING", requester |-> p, recipient |-> q, start |-> s,
                   duration |-> config.slotDuration, table |-> None,
                   expires |-> networkingProposalExpiry(s), prop |-> None, propBy |-> None,
                   cancelled |-> None, checked |-> {}]
<1>1. row \in MeetingRows /\ row.status \in open
  <2>1. s \in Int /\ config.slotDuration \in Int
    BY ConstantFacts DEF Inv, Shape
  <2>2. networkingProposalExpiry(s) \in Int
    BY <2>1, ExpiryType DEF Inv
  <2>3. QED
    BY <2>1, <2>2 DEF MeetingRows, open, holding
<1>2. reserve(m, row, None) /\ Eligible(p) /\ Visible(p, q) /\ MeetingStep
  BY DEF create
<1>3. agreed' = [agreed EXCEPT ![m] = {<<p, s>>}]
  BY DEF create
<1>4. /\ agreed'[m] = {<<p, s>>} /\ \A k \in Meetings \ {m} : agreed'[k] = agreed[k]
      /\ agreed' = [k \in Meetings |-> agreed'[k]]
  BY <1>3 DEF Inv, Shape
<1>5. /\ now' = now /\ config' = config /\ access' = access /\ undo' = undo /\ tables' = tables
      /\ blocks' = blocks
  BY <1>2 DEF MeetingStep
<1>6. \A x, y \in {p, q} : Eligible(x) /\ ~Blocked(x, y)
  BY <1>2 DEF Visible, Blocked, Inv, NoSelfBlock
<1>7. AgreedRow(row, row.status, row.prop, row.propBy, agreed'[m], now) /\ row.status \notin accepted
  BY <1>4 DEF AgreedRow, accepted
<1>8. row.requester = p /\ row.recipient = q
  OBVIOUS
<1> HIDE DEF row
<1>9. /\ Booked' /\ meet' \in [Meetings -> {None} \union MeetingRows]
      /\ \A k \in Meetings : Possible(k)' /\ Agreed(k)'
  BY <1>1, <1>2, <1>4, <1>5, <1>6, <1>7, <1>8, ReserveOne
<1>10. QED
  BY <1>4, <1>5, <1>9 DEF Inv, Shape, NoSelfBlock

(* What the checks of a response give *)
LEMMA Responding ==
  ASSUME Inv, NEW m \in Meetings, NEW p \in Profiles, MayRespond(m, p)
  PROVE  /\ meet[m] \in MeetingRows /\ meet[m].status \in open
         /\ p \in {meet[m].requester, meet[m].recipient}
         /\ \A x, y \in {meet[m].requester, meet[m].recipient} : Eligible(x) /\ ~Blocked(x, y)
         /\ AgreedRow(meet[m], meet[m].status, meet[m].prop, meet[m].propBy, agreed[m], now)
<1>1. meet[m] \in MeetingRows /\ meet[m].status \in open
  BY RowOf DEF MayRespond, Is, Inv
<1>2. p \in Pair(m) /\ Pair(m) = {meet[m].requester, meet[m].recipient} /\ Pair(m) \subseteq Profiles
  BY <1>1 DEF MayRespond, Pair, MeetingRows
<1>3. Eligible(p) /\ \A q \in Pair(m) \ {p} : Eligible(q) /\ ~Blocked(p, q)
  BY DEF MayRespond, Visible
<1>4. \A x, y \in Pair(m) : Eligible(x) /\ ~Blocked(x, y)
  <2>1. \A x \in Pair(m) : ~Blocked(x, x)
    BY <1>2 DEF Inv, NoSelfBlock, Blocked
  <2>2. \A x, y \in Pair(m) : x = y \/ x = p \/ y = p
    BY <1>2
  <2>3. QED
    BY <1>3, <2>1, <2>2 DEF Blocked
<1>5. QED
  BY <1>1, <1>2, <1>4 DEF Inv, Agreed, MayRespond

LEMMA AcceptInv ==
  ASSUME Inv, NEW m \in Meetings, NEW p \in Profiles, accept(m, p)
  PROVE  Inv'
<1> DEFINE s == IF meet[m].prop # None THEN meet[m].prop ELSE meet[m].start
           row == [meet[m] EXCEPT !.status = "CONFIRMED", !.start = s,
                     !.duration = config.slotDuration, !.prop = None, !.propBy = None]
<1>1. /\ MayRespond(m, p) /\ AwaitsAnswer(m, p) /\ slot(s) /\ reserve(m, row, None)
      /\ agreed' = [agreed EXCEPT ![m] = @ \union {<<p, s>>}] /\ MeetingStep
  BY DEF accept
<1>2. /\ meet[m] \in MeetingRows /\ meet[m].status \in open
      /\ p \in {meet[m].requester, meet[m].recipient}
      /\ \A x, y \in {meet[m].requester, meet[m].recipient} : Eligible(x) /\ ~Blocked(x, y)
      /\ AgreedRow(meet[m], meet[m].status, meet[m].prop, meet[m].propBy, agreed[m], now)
  BY <1>1, Responding
<1>3. s \in Int /\ config.slotDuration \in Int
  BY <1>2, ConstantFacts DEF MeetingRows, Inv, Shape
<1>4. /\ row \in MeetingRows /\ row.status = "CONFIRMED" /\ row.start = s
      /\ row.duration = config.slotDuration /\ row.prop = None /\ row.propBy = None
      /\ row.requester = meet[m].requester /\ row.recipient = meet[m].recipient
  <2> HIDE DEF s
  <2> QED BY <1>2, <1>3 DEF MeetingRows, holding, open
<1>5. /\ agreed'[m] = agreed[m] \union {<<p, s>>}
      /\ \A k \in Meetings \ {m} : agreed'[k] = agreed[k]
      /\ agreed' = [k \in Meetings |-> agreed'[k]]
  BY <1>1 DEF Inv, Shape
<1>6. /\ now' = now /\ config' = config /\ access' = access /\ undo' = undo /\ tables' = tables
      /\ blocks' = blocks
  BY <1>1 DEF MeetingStep
<1>7. <<meet[m].requester, s>> \in agreed'[m] /\ <<meet[m].recipient, s>> \in agreed'[m]
  <2>1. CASE meet[m].prop # None
    <3>1. /\ meet[m].propBy \in {meet[m].requester, meet[m].recipient}
          /\ <<meet[m].propBy, s>> \in agreed[m]
      BY <1>2, <2>1 DEF AgreedRow
    <3>2. p # meet[m].propBy
      BY <1>1, <1>2, <3>1, ConstantFacts DEF AwaitsAnswer, MeetingRows
    <3> HIDE DEF s
    <3>3. QED
      BY <1>2, <1>5, <3>1, <3>2
  <2>2. CASE meet[m].prop = None
    <3>1. /\ meet[m].propBy = None /\ meet[m].status = "PENDING" /\ meet[m].expires > now
          /\ p # meet[m].requester
      BY <1>1, <1>2, <2>2 DEF AwaitsAnswer, AgreedRow
    <3>2. <<meet[m].requester, s>> \in agreed[m]
      BY <1>2, <2>2, <3>1 DEF AgreedRow
    <3> HIDE DEF s
    <3>3. QED
      BY <1>2, <1>5, <3>1, <3>2
  <2>3. QED
    BY <2>1, <2>2
<1>8. AgreedRow(row, row.status, row.prop, row.propBy, agreed'[m], now)
  <2> HIDE DEF row, s
  <2> QED BY <1>4, <1>7 DEF AgreedRow
<1>9. s \in networkingSlots(config) /\ row.status \in open
  <2> HIDE DEF row, s
  <2> QED BY <1>1, <1>4 DEF slot, open
<1> HIDE DEF row, s
<1>10. /\ Booked' /\ meet' \in [Meetings -> {None} \union MeetingRows]
       /\ \A k \in Meetings : Possible(k)' /\ Agreed(k)'
  BY <1>1, <1>2, <1>4, <1>5, <1>6, <1>8, <1>9, ReserveOne
<1>11. QED
  BY <1>5, <1>6, <1>10 DEF Inv, Shape, NoSelfBlock

(* An update that moves no meeting: the pair, time and table of each stay, *)
(* and its status but for a completion.                                    *)
Stays(m) ==
  \/ meet'[m] = meet[m]
  \/ /\ Exists(m) /\ meet'[m] \in MeetingRows
     /\ meet'[m].requester = meet[m].requester /\ meet'[m].recipient = meet[m].recipient
     /\ meet'[m].start = meet[m].start /\ meet'[m].duration = meet[m].duration
     /\ meet'[m].table = meet[m].table
     /\ meet'[m].status = meet[m].status
          \/ (meet[m].status = "CONFIRMED" /\ meet'[m].status = "COMPLETED")

LEMMA UpdateInv ==
  ASSUME Inv, held' = held, MeetingStep, meet' = [m \in Meetings |-> meet'[m]],
         agreed' = [m \in Meetings |-> agreed'[m]],
         \A m \in Meetings : Stays(m) /\ Agreed(m)'
  PROVE  Inv'
<1>1. /\ now' = now /\ config' = config /\ access' = access /\ undo' = undo /\ tables' = tables
      /\ blocks' = blocks
  BY DEF MeetingStep
<1>2. ASSUME NEW m \in Meetings
      PROVE  /\ meet'[m] \in {None} \union MeetingRows /\ Possible(m)'
             /\ Is(m, holding)' <=> Is(m, holding)
             /\ Is(m, holding) => ClaimsOf(m)' = ClaimsOf(m)
  <2>1. CASE meet'[m] = meet[m]
    BY <1>1, <2>1, KeptPossible DEF Inv, Shape, Eligible, Is, Exists, ClaimsOf
  <2>2. CASE meet'[m] # meet[m]
    <3>1. /\ Exists(m) /\ meet'[m] \in MeetingRows
          /\ meet'[m].requester = meet[m].requester /\ meet'[m].recipient = meet[m].recipient
          /\ meet'[m].start = meet[m].start /\ meet'[m].duration = meet[m].duration
          /\ meet'[m].table = meet[m].table
          /\ meet'[m].status = meet[m].status
               \/ (meet[m].status = "CONFIRMED" /\ meet'[m].status = "COMPLETED")
      BY <2>2 DEF Stays
    <3>2. (Is(m, holding)' <=> Is(m, holding)) /\ (Is(m, open)' => Is(m, open))
      BY <3>1, ConstantFacts DEF Is, Exists, holding, open
    <3>3. ClaimsOf(m)' = ClaimsOf(m)
      BY <3>1, SameClaims DEF ClaimsOf
    <3>4. networkingSlots(config)' = networkingSlots(config)
      BY <1>1 DEF networkingSlots
    <3>5. Is(m, open)' => (meet'[m].status = meet[m].status)
      BY <3>1 DEF Is, open
    <3>6. Possible(m)
      BY DEF Inv
    <3>7. Possible(m)'
      BY <1>1, <3>1, <3>2, <3>4, <3>5, <3>6 DEF Possible, Upcoming, EndsAt, Pair, Eligible, Blocked
    <3>8. QED
      BY <3>1, <3>2, <3>3, <3>7
  <2>3. QED
    BY <2>1, <2>2
<1>3. Booked'
  BY <1>2, FrameBooked DEF Inv
<1>4. Shape' /\ NoSelfBlock'
  BY <1>1, <1>2 DEF Inv, Shape, NoSelfBlock
<1>5. QED
  BY <1>2, <1>3, <1>4 DEF Inv

LEMMA DeclineInv ==
  ASSUME Inv, NEW m \in Meetings, NEW p \in Profiles, decline(m, p)
  PROVE  Inv'
<1>1. MayRespond(m, p) /\ MeetingStep /\ agreed' = agreed
  BY DEF decline
<1>2. /\ meet[m] \in MeetingRows /\ meet[m].status \in open /\ Is(m, open)
      /\ AgreedRow(meet[m], meet[m].status, meet[m].prop, meet[m].propBy, agreed[m], now)
  BY <1>1, Responding DEF MayRespond
<1>3. /\ now' = now /\ config' = config /\ access' = access /\ undo' = undo /\ tables' = tables
      /\ blocks' = blocks
  BY <1>1 DEF MeetingStep
<1>4. /\ meet' = [k \in Meetings |-> meet'[k]]
      /\ \A k \in Meetings \ {m} : meet'[k] = meet[k]
      /\ meet'[m] = [meet[m] EXCEPT !.prop = None, !.propBy = None,
                       !.status = IF meet[m].status = "PENDING" THEN "DECLINED" ELSE meet[m].status]
  BY <1>2 DEF decline, MeetingRows, Inv, Shape
<1>5. /\ meet'[m] \in MeetingRows /\ meet'[m].prop = None /\ meet'[m].propBy = None
      /\ meet'[m].requester = meet[m].requester /\ meet'[m].recipient = meet[m].recipient
      /\ meet'[m].start = meet[m].start /\ meet'[m].duration = meet[m].duration
      /\ meet'[m].table = meet[m].table
      /\ meet'[m].status = IF meet[m].status = "PENDING" THEN "DECLINED" ELSE meet[m].status
  BY <1>2, <1>4 DEF MeetingRows, released
<1>6. \A k \in Meetings \ {m} : Agreed(k)' /\ Possible(k)'
  BY <1>1, <1>3, <1>4, KeptAgreed, KeptPossible DEF Inv, Shape, Eligible
<1>7. CASE meet[m].status # "PENDING"
  <2>1. Agreed(m)'
    <3>1. meet'[m].status = meet[m].status
      BY <1>5, <1>7
    <3>2. AgreedRow(meet'[m], meet'[m].status, meet'[m].prop, meet'[m].propBy, agreed'[m], now')
      BY <1>1, <1>2, <1>3, <1>5, <1>7, <3>1 DEF AgreedRow
    <3>3. meet'[m].status # "CANCELLED"
      BY <1>2, <3>1 DEF open
    <3>4. QED
      BY <3>2, <3>3 DEF Agreed, Is
  <2>2. Stays(m)
    BY <1>2, <1>5, <1>7 DEF Stays, Is
  <2>3. held' = held
    BY <1>7 DEF decline
  <2>4. \A k \in Meetings : Stays(k) /\ Agreed(k)'
    BY <1>4, <1>6, <2>1, <2>2 DEF Stays
  <2>5. QED
    BY <1>1, <1>4, <2>3, <2>4, UpdateInv DEF Inv, Shape
<1>8. CASE meet[m].status = "PENDING"
  <2>1. held' = {h \in held : h.meeting # m}
    BY <1>8 DEF decline
  <2>2. ASSUME NEW h
        PROVE  h \in held' <=> \E k \in Meetings : Is(k, holding)' /\ h \in ClaimsOf(k)'
    <3>1. h \in held <=> \E k \in Meetings : Is(k, holding) /\ h \in ClaimsOf(k)
      BY HeldParts DEF Booked, Inv
    <3>2. \A k \in Meetings : h \in ClaimsOf(k) => h.meeting = k
      BY ClaimMeeting DEF ClaimsOf
    <3>3. \A k \in Meetings \ {m} : (Is(k, holding)' <=> Is(k, holding)) /\ ClaimsOf(k)' = ClaimsOf(k)
      BY <1>4 DEF Is, Exists, ClaimsOf
    <3>4. ~Is(m, holding)'
      BY <1>5, <1>8 DEF Is, holding, open
    <3>5. QED
      BY <2>1, <3>1, <3>2, <3>3, <3>4
  <2>3. Booked'
    <3>1. ReservationsFollowStatus'
      BY <2>2 DEF ReservationsFollowStatus, ClaimsOf
    <3>2. NoDoubleBooking'
      BY <2>1 DEF Inv, Booked, NoDoubleBooking
    <3>3. QED
      BY <3>1, <3>2 DEF Booked
  <2>4. Possible(m)' /\ Agreed(m)'
    BY <1>5, <1>8, ClosedPossible, ClosedAgreed DEF open
  <2>5. meet' \in [Meetings -> {None} \union MeetingRows]
    BY <1>4, <1>5 DEF Inv, Shape
  <2>6. QED
    BY <1>1, <1>3, <1>6, <2>3, <2>4, <2>5 DEF Inv, Shape, NoSelfBlock
<1>9. QED
  BY <1>7, <1>8

LEMMA RescheduleInv ==
  ASSUME Inv, NEW m \in Meetings, NEW p \in Profiles, NEW s \in 1..LastQuantum, reschedule(m, p, s)
  PROVE  Inv'
<1> DEFINE proposed == [meet[m] EXCEPT !.prop = s, !.propBy = p, !.expires = networkingProposalExpiry(s)]
           row == [proposed EXCEPT !.start = s, !.duration = config.slotDuration]
<1>1. /\ MayRespond(m, p) /\ MeetingStep /\ agreed' = [agreed EXCEPT ![m] = @ \union {<<p, s>>}]
      /\ IF meet[m].status = "PENDING" THEN reserve(m, row, None)
         ELSE meet' = [meet EXCEPT ![m] = proposed] /\ held' = held
  BY DEF reschedule
<1>2. /\ meet[m] \in MeetingRows /\ meet[m].status \in open
      /\ p \in {meet[m].requester, meet[m].recipient}
      /\ \A x, y \in {meet[m].requester, meet[m].recipient} : Eligible(x) /\ ~Blocked(x, y)
      /\ AgreedRow(meet[m], meet[m].status, meet[m].prop, meet[m].propBy, agreed[m], now)
  BY <1>1, Responding
<1>3. s \in Int /\ config.slotDuration \in Int /\ networkingProposalExpiry(s) \in Int /\ s # None
  BY ConstantFacts, ExpiryType DEF Inv, Shape
<1>4. /\ proposed \in MeetingRows /\ proposed.prop = s /\ proposed.propBy = p
      /\ proposed.status = meet[m].status /\ proposed.start = meet[m].start
      /\ proposed.duration = meet[m].duration /\ proposed.table = meet[m].table
      /\ proposed.requester = meet[m].requester /\ proposed.recipient = meet[m].recipient
  BY <1>2, <1>3 DEF MeetingRows
<1>5. /\ row \in MeetingRows /\ row.prop = s /\ row.propBy = p /\ row.status = meet[m].status
      /\ row.requester = meet[m].requester /\ row.recipient = meet[m].recipient
  <2> HIDE DEF proposed
  <2> QED BY <1>3, <1>4 DEF MeetingRows
<1>6. /\ agreed'[m] = agreed[m] \union {<<p, s>>}
      /\ \A k \in Meetings \ {m} : agreed'[k] = agreed[k]
      /\ agreed' = [k \in Meetings |-> agreed'[k]]
  BY <1>1 DEF Inv, Shape
<1>7. /\ now' = now /\ config' = config /\ access' = access /\ undo' = undo /\ tables' = tables
      /\ blocks' = blocks
  BY <1>1 DEF MeetingStep
<1> HIDE DEF row, proposed
<1>8. CASE meet[m].status = "PENDING"
  <2>1. row.status \notin accepted /\ row.status \in open
    BY <1>5, <1>8 DEF accepted, open
  <2>2. AgreedRow(row, row.status, row.prop, row.propBy, agreed'[m], now)
    BY <1>2, <1>3, <1>5, <1>6, <2>1 DEF AgreedRow
  <2>3. /\ Booked' /\ meet' \in [Meetings -> {None} \union MeetingRows]
        /\ \A k \in Meetings : Possible(k)' /\ Agreed(k)'
    BY <1>1, <1>2, <1>5, <1>6, <1>7, <1>8, <2>1, <2>2, ReserveOne
  <2>4. QED
    BY <1>6, <1>7, <2>3 DEF Inv, Shape, NoSelfBlock
<1>9. CASE meet[m].status # "PENDING"
  <2>1. /\ held' = held /\ meet'[m] = proposed /\ \A k \in Meetings \ {m} : meet'[k] = meet[k]
        /\ meet' = [k \in Meetings |-> meet'[k]]
    BY <1>1, <1>9 DEF Inv, Shape
  <2>2. Stays(m)
    BY <1>1, <1>4, <2>1 DEF Stays, MayRespond, Is
  <2>3. Agreed(m)'
    <3>1. AgreedRow(meet'[m], meet'[m].status, meet'[m].prop, meet'[m].propBy, agreed'[m], now')
      BY <1>2, <1>3, <1>4, <1>6, <2>1 DEF AgreedRow
    <3>2. meet'[m].status # "CANCELLED"
      BY <1>2, <1>4, <2>1 DEF open
    <3>3. QED
      BY <3>1, <3>2 DEF Agreed, Is
  <2>4. \A k \in Meetings : Stays(k) /\ Agreed(k)'
    BY <1>6, <1>7, <2>1, <2>2, <2>3, KeptAgreed DEF Stays, Inv, Shape
  <2>5. QED
    BY <1>1, <1>6, <2>1, <2>4, UpdateInv
<1>10. QED
  BY <1>8, <1>9

LEMMA CheckinInv ==
  ASSUME Inv, NEW m \in Meetings, NEW p \in Profiles, checkin(m, p)
  PROVE  Inv'
<1>1. /\ Is(m, {"CONFIRMED", "COMPLETED"}) /\ MeetingStep /\ held' = held /\ agreed' = agreed
  BY DEF checkin
<1>2. meet[m] \in MeetingRows
  BY <1>1, RowOf DEF Is, Inv
<1>3. /\ meet' = [k \in Meetings |-> meet'[k]] /\ \A k \in Meetings \ {m} : meet'[k] = meet[k]
      /\ meet'[m] \in MeetingRows /\ meet'[m].prop = None /\ meet'[m].propBy = None
      /\ meet'[m].requester = meet[m].requester /\ meet'[m].recipient = meet[m].recipient
      /\ meet'[m].start = meet[m].start /\ meet'[m].duration = meet[m].duration
      /\ meet'[m].table = meet[m].table /\ meet'[m].status \in {meet[m].status, "COMPLETED"}
  BY <1>2 DEF checkin, MeetingRows, Inv, Shape, holding, open
<1>4. now' = now
  BY <1>1 DEF MeetingStep
<1>5. Stays(m)
  BY <1>1, <1>3 DEF Stays, Is
<1>6. Agreed(m)'
  <2>1. CASE meet'[m].status = "COMPLETED"
    BY <2>1, ClosedAgreed DEF open
  <2>2. CASE meet'[m].status = "CONFIRMED"
    <3>1. AgreedRow(meet[m], meet[m].status, meet[m].prop, meet[m].propBy, agreed[m], now)
          /\ meet[m].status = "CONFIRMED"
      BY <1>1, <1>3, <2>2 DEF Inv, Agreed, Is, open
    <3>2. AgreedRow(meet'[m], meet'[m].status, meet'[m].prop, meet'[m].propBy, agreed'[m], now')
      BY <1>1, <1>3, <2>2, <3>1 DEF AgreedRow
    <3>3. QED
      BY <2>2, <3>2 DEF Agreed, Is
  <2>3. QED
    BY <1>1, <1>3, <2>1, <2>2 DEF Is
<1>7. \A k \in Meetings : Stays(k) /\ Agreed(k)'
  BY <1>1, <1>3, <1>4, <1>5, <1>6, KeptAgreed DEF Stays, Inv, Shape
<1>8. QED
  BY <1>1, <1>3, <1>7, UpdateInv DEF Inv, Shape

LEMMA ClearInv ==
  ASSUME Inv, clearOverdueProposals
  PROVE  Inv'
<1> DEFINE overdue == {m \in Meetings : Exists(m) /\ meet[m].prop # None /\ meet[m].expires <= now}
<1>1. /\ meet' = [m \in Meetings |->
                IF m \in overdue THEN [meet[m] EXCEPT !.prop = None, !.propBy = None] ELSE meet[m]]
      /\ MeetingStep /\ held' = held /\ agreed' = agreed
  BY DEF clearOverdueProposals
<1>2. now' = now
  BY <1>1 DEF MeetingStep
<1>3. ASSUME NEW m \in Meetings
      PROVE  Stays(m) /\ Agreed(m)'
  <2>1. CASE m \notin overdue
    <3>1. meet'[m] = meet[m]
      BY <1>1, <2>1
    <3>2. Shape /\ Agreed(m) /\ now \in Int
      BY DEF Inv, Shape
    <3>3. now' \in Int /\ now' >= now
      BY <1>2, <3>2
    <3>4. agreed[m] \subseteq agreed'[m]
      BY <1>1
    <3>5. Agreed(m)'
      BY <3>1, <3>2, <3>3, <3>4, KeptAgreed
    <3>6. QED
      BY <3>1, <3>5 DEF Stays
  <2>2. CASE m \in overdue
    <3>1. Exists(m) /\ meet[m].expires <= now /\ meet[m] \in MeetingRows
      BY <2>2, RowOf DEF Inv
    <3>2. /\ meet'[m] \in MeetingRows /\ meet'[m].prop = None /\ meet'[m].propBy = None
          /\ meet'[m].requester = meet[m].requester /\ meet'[m].recipient = meet[m].recipient
          /\ meet'[m].start = meet[m].start /\ meet'[m].duration = meet[m].duration
          /\ meet'[m].table = meet[m].table /\ meet'[m].status = meet[m].status
          /\ meet'[m].expires = meet[m].expires /\ meet'[m].cancelled = meet[m].cancelled
      BY <1>1, <2>2, <3>1 DEF MeetingRows
    <3>3. Stays(m)
      BY <3>1, <3>2 DEF Stays
    <3>4. ~(meet[m].expires > now)
      BY <3>1 DEF MeetingRows, Inv, Shape
    <3>5. Agreed(m) /\ Exists(m)'
      BY <3>2, ConstantFacts DEF Inv, Exists
    <3>6. Agreed(m)'
      BY <1>1, <1>2, <3>1, <3>2, <3>4, <3>5 DEF Agreed, AgreedRow, Is
    <3>7. QED
      BY <3>3, <3>6
  <2>3. QED
    BY <2>1, <2>2
<1>4. meet' = [m \in Meetings |-> meet'[m]]
  BY <1>1
<1> HIDE DEF overdue
<1>5. QED
  BY <1>1, <1>3, <1>4, UpdateInv DEF Inv, Shape

(* The transitions of single meetings, and the expiry of requests *)
LEMMA CancelInv ==
  ASSUME Inv, NEW m \in Meetings,
         (\E p \in Profiles : cancel(m, p)) \/ adminCancel(m)
  PROVE  Inv'
BY TransitionAlone DEF cancel, adminCancel, MayRespond, released

LEMMA AttendanceInv ==
  ASSUME Inv, NEW m \in Meetings, NEW to \in {"COMPLETED", "NO_SHOW"}, recordAttendance(m, to)
  PROVE  Inv'
BY TransitionAlone DEF recordAttendance, released

LEMMA ExpireInv ==
  ASSUME Inv, expirePending
  PROVE  Inv'
<1>1. \A m \in {k \in Meetings : Overdue(k)} : Is(m, open)
  BY DEF Overdue, Is, open
<1>2. QED
  BY <1>1, TransitionAlone DEF expirePending, released

LEMMA InterestInv ==
  ASSUME Inv, NEW p \in Profiles, NEW q \in Profiles,
         interest(p, q, "LIKE") \/ interest(p, q, "PASS")
  PROVE  Inv'
<1>1. /\ now' = now /\ config' = config /\ access' = access /\ undo' = undo /\ tables' = tables
      /\ blocks' = blocks /\ meet' = meet /\ held' = held /\ agreed' = agreed
  BY DEF interest, SocialStep
<1>2. Booked' /\ \A m \in Meetings : Agreed(m)'
  BY <1>1, Elsewhere DEF Inv, Shape
<1>3. \A m \in Meetings : Possible(m)'
  BY <1>1, KeptPossible DEF Inv, Shape, Eligible
<1>4. QED
  BY <1>1, <1>2, <1>3 DEF Inv, Shape, NoSelfBlock

(* A block cancels every meeting to come of the pair *)
LEMMA BlockInv ==
  ASSUME Inv, NEW p \in Profiles, NEW q \in Profiles, block(p, q)
  PROVE  Inv'
<1> DEFINE ms == {m \in Meetings : Upcoming(m) /\ Pair(m) = {p, q}}
<1>1. /\ p # q /\ blocks' = blocks \union {<<p, q>>} /\ transition(ms, "CANCELLED")
      /\ now' = now /\ config' = config /\ access' = access /\ undo' = undo /\ tables' = tables
      /\ agreed' = agreed
  BY DEF block, SocialStep
<1>2. /\ Booked' /\ meet' \in [Meetings -> {None} \union MeetingRows]
      /\ \A m \in Meetings : Agreed(m)'
      /\ \A m \in ms : Possible(m)'
      /\ \A m \in Meetings \ ms : meet'[m] = meet[m]
  <2>1. \A m \in ms : Is(m, open)
    BY DEF Upcoming
  <2> HIDE DEF ms
  <2>2. QED
    BY <1>1, <2>1, TransitionOne DEF ms, released
<1>3. ASSUME NEW m \in Meetings \ ms
      PROVE  Possible(m)'
  <2>1. meet'[m] = meet[m] /\ Pair(m)' = Pair(m) /\ (Upcoming(m)' <=> Upcoming(m))
    BY <1>1, <1>2 DEF Upcoming, Is, Exists, EndsAt, Pair
  <2>2. SUFFICES ASSUME Upcoming(m)
                 PROVE  \A x, y \in Pair(m) : ~Blocked(x, y)'
    <3>1. Possible(m)
      BY DEF Inv
    <3>2. networkingSlots(config)' = networkingSlots(config)
      BY <1>1 DEF networkingSlots
    <3> HIDE DEF ms
    <3>3. QED
      BY <1>1, <2>1, <3>1, <3>2 DEF Possible, Eligible
  <2>3. Pair(m) # {p, q} /\ \A x, y \in Pair(m) : ~Blocked(x, y)
    BY <1>3, <2>2 DEF Inv, Possible
  <2>4. ~(p \in Pair(m) /\ q \in Pair(m))
    BY <1>1, <2>3 DEF Pair
  <2>5. QED
    BY <1>1, <2>3, <2>4 DEF Blocked
<1>4. NoSelfBlock'
  BY <1>1 DEF Inv, NoSelfBlock
<1>5. QED
  BY <1>1, <1>2, <1>3, <1>4 DEF Inv, Shape

LEMMA UnblockInv ==
  ASSUME Inv, NEW p \in Profiles, NEW q \in Profiles, unblock(p, q)
  PROVE  Inv'
<1>1. /\ now' = now /\ config' = config /\ access' = access /\ undo' = undo /\ tables' = tables
      /\ blocks' \subseteq blocks /\ meet' = meet /\ held' = held /\ agreed' = agreed
  BY DEF unblock, SocialStep
<1>2. Booked' /\ \A m \in Meetings : Agreed(m)'
  BY <1>1, Elsewhere DEF Inv, Shape
<1>3. \A m \in Meetings : Possible(m)'
  BY <1>1 DEF Inv, Possible, Upcoming, Is, Exists, EndsAt, Pair, Eligible, Blocked, networkingSlots
<1>4. QED
  BY <1>1, <1>2, <1>3 DEF Inv, Shape, NoSelfBlock

-----------------------------------------------------------------------------
(* The organizer's steps *)

LEMMA AssignInv ==
  ASSUME Inv, NEW m \in Meetings, NEW forced, assign(m, forced)
  PROVE  Inv'
<1>1. /\ Is(m, open) /\ (\A p \in Pair(m) : Eligible(p)) /\ reserve(m, meet[m], forced)
      /\ MeetingStep /\ agreed' = agreed
  BY DEF assign
<1>2. meet[m] \in MeetingRows /\ meet[m].status \in open
  BY <1>1, RowOf DEF Is, Inv
<1>3. /\ now' = now /\ config' = config /\ access' = access /\ undo' = undo /\ tables' = tables
      /\ blocks' = blocks
  BY <1>1 DEF MeetingStep
<1>4. AgreedRow(meet[m], meet[m].status, meet[m].prop, meet[m].propBy, agreed'[m], now)
  BY <1>1 DEF Inv, Agreed
<1>5. meet[m].start + meet[m].duration > now => Upcoming(m)
  BY <1>1 DEF Upcoming, EndsAt
<1>6. Possible(m)
  BY DEF Inv
<1>7. meet[m].start + meet[m].duration > now =>
        /\ \A p \in {meet[m].requester, meet[m].recipient} : Eligible(p)
        /\ \A p, q \in {meet[m].requester, meet[m].recipient} : ~Blocked(p, q)
        /\ meet[m].status \in accepted =>
             meet[m].start \in networkingSlots(config) /\ meet[m].duration = config.slotDuration
  BY <1>5, <1>6 DEF Possible, Pair
<1>8. /\ Booked' /\ meet' \in [Meetings -> {None} \union MeetingRows]
      /\ \A k \in Meetings : Possible(k)' /\ Agreed(k)'
  BY <1>1, <1>2, <1>3, <1>4, <1>7, ReserveOne
<1>9. QED
  BY <1>1, <1>3, <1>8 DEF Inv, Shape, NoSelfBlock

(* The row a restore allocates *)
LEMMA RestoredRow ==
  ASSUME Inv, NEW m \in Meetings, Restorable(m)
  PROVE  /\ meet[m] \in MeetingRows
         /\ Restored(m) \in MeetingRows /\ Restored(m).status \in open
         /\ Restored(m).requester = meet[m].requester /\ Restored(m).recipient = meet[m].recipient
         /\ Restored(m).start \in networkingSlots(config) /\ Restored(m).duration = config.slotDuration
         /\ \A p, q \in {meet[m].requester, meet[m].recipient} : ~Blocked(p, q)
         /\ AgreedRow(Restored(m), Restored(m).status, Restored(m).prop, Restored(m).propBy,
                      agreed[m], now)
<1>1. Is(m, {"CANCELLED"}) /\ meet[m].cancelled # None
  BY DEF Restorable
<1>2. meet[m] \in MeetingRows
  BY <1>1, RowOf DEF Is, Inv
<1>3. meet[m].cancelled \in [status : open, prop : Int \union {None}, propBy : Profiles \union {None}]
  BY <1>1, <1>2 DEF MeetingRows
<1> DEFINE kept == meet[m].cancelled.prop # None /\ meet[m].expires > now
           prop == IF kept THEN meet[m].cancelled.prop ELSE None
           propBy == IF kept THEN meet[m].cancelled.propBy ELSE None
<1>4. Restored(m) = [meet[m] EXCEPT !.status = meet[m].cancelled.status, !.cancelled = None,
                       !.prop = prop, !.propBy = propBy]
  BY DEF Restored
<1>5. prop \in Int \union {None} /\ propBy \in Profiles \union {None} /\ meet[m].cancelled.status \in open
  BY <1>3
<1>6. /\ Restored(m) \in MeetingRows /\ Restored(m).status = meet[m].cancelled.status
      /\ Restored(m).prop = prop /\ Restored(m).propBy = propBy
      /\ Restored(m).requester = meet[m].requester /\ Restored(m).recipient = meet[m].recipient
      /\ Restored(m).start = meet[m].start /\ Restored(m).duration = meet[m].duration
      /\ Restored(m).expires = meet[m].expires
  <2> HIDE DEF prop, propBy
  <2> QED BY <1>2, <1>4, <1>5 DEF MeetingRows, holding
<1>7. AgreedRow(meet[m], meet[m].cancelled.status, meet[m].cancelled.prop, meet[m].cancelled.propBy,
                agreed[m], now)
  BY <1>1 DEF Inv, Agreed
<1>8. AgreedRow(Restored(m), Restored(m).status, Restored(m).prop, Restored(m).propBy, agreed[m], now)
  <2>1. CASE kept
    BY <1>6, <1>7, <2>1 DEF AgreedRow
  <2>2. CASE ~kept
    BY <1>6, <1>7, <2>2 DEF AgreedRow
  <2>3. QED
    BY <2>1, <2>2
<1>9. /\ meet[m].start \in networkingSlots(config) /\ meet[m].duration = config.slotDuration
      /\ \A p, q \in {meet[m].requester, meet[m].recipient} : ~Blocked(p, q)
  BY DEF Restorable, slot, Pair
<1>10. QED
  BY <1>2, <1>5, <1>6, <1>8, <1>9

LEMMA SnapshotsType ==
  ASSUME Shape, NEW ms
  PROVE  SnapshotsWithout(ms) \in [Profiles -> {None} \union Snapshots]
BY DEF Shape, SnapshotsWithout

LEMMA RestoreInv ==
  ASSUME Inv, NEW m \in Meetings, restoreNetworkingMeeting(m)
  PROVE  Inv'
<1>1. /\ Restorable(m) /\ (\A p \in Pair(m) : Eligible(p))
      /\ reserve(m, Restored(m), meet[m].table) /\ undo' = SnapshotsWithout({m})
      /\ now' = now /\ config' = config /\ access' = access /\ tables' = tables
      /\ blocks' = blocks /\ agreed' = agreed
  BY DEF restoreNetworkingMeeting
<1>2. /\ Restored(m) \in MeetingRows /\ Restored(m).status \in open
      /\ Restored(m).requester = meet[m].requester /\ Restored(m).recipient = meet[m].recipient
      /\ Restored(m).start \in networkingSlots(config) /\ Restored(m).duration = config.slotDuration
      /\ \A p, q \in {meet[m].requester, meet[m].recipient} : ~Blocked(p, q)
      /\ AgreedRow(Restored(m), Restored(m).status, Restored(m).prop, Restored(m).propBy,
                   agreed[m], now)
  BY <1>1, RestoredRow
<1>3. /\ \A p \in {Restored(m).requester, Restored(m).recipient} : Eligible(p)
      /\ \A p, q \in {Restored(m).requester, Restored(m).recipient} : ~Blocked(p, q)
      /\ AgreedRow(Restored(m), Restored(m).status, Restored(m).prop, Restored(m).propBy,
                   agreed'[m], now)
  BY <1>1, <1>2 DEF Pair
<1>4. /\ Booked' /\ meet' \in [Meetings -> {None} \union MeetingRows]
      /\ \A k \in Meetings : Possible(k)' /\ Agreed(k)'
  BY <1>1, <1>2, <1>3, ReserveOne
<1>5. undo' \in [Profiles -> {None} \union Snapshots]
  BY <1>1, SnapshotsType DEF Inv
<1>6. QED
  BY <1>1, <1>4, <1>5 DEF Inv, Shape, NoSelfBlock

LEMMA ConfigInv ==
  ASSUME Inv, NEW c \in Configs, updateConfig(c)
  PROVE  Inv'
<1>1. /\ now' = now /\ config' = c /\ access' = access /\ undo' = undo /\ tables' = tables
      /\ blocks' = blocks /\ meet' = meet /\ held' = held /\ agreed' = agreed
  BY DEF updateConfig
<1>2. Booked' /\ \A m \in Meetings : Agreed(m)'
  BY <1>1, Elsewhere DEF Inv, Shape
<1>3. ASSUME NEW m \in Meetings
      PROVE  Possible(m)'
  <2>1. Is(m, accepted) /\ EndsAt(m) > now =>
          meet[m].start \in networkingSlots(c) /\ meet[m].duration = c.slotDuration
    BY DEF updateConfig
  <2>2. Possible(m)
    BY DEF Inv
  <2>3. networkingSlots(config)' = networkingSlots(c)
    BY <1>1 DEF networkingSlots
  <2>4. QED
    BY <1>1, <2>1, <2>2, <2>3 DEF Possible, Upcoming, Is, Exists, EndsAt, Pair, Eligible, Blocked
<1>4. QED
  BY <1>1, <1>2, <1>3 DEF Inv, Shape, NoSelfBlock

LEMMA TableInv ==
  ASSUME Inv, NEW t \in Tables,
         saveTable(t, "active") \/ saveTable(t, "inactive") \/ removeTable(t)
  PROVE  Inv'
<1>1. /\ now' = now /\ config' = config /\ access' = access /\ undo' = undo
      /\ blocks' = blocks /\ meet' = meet /\ held' = held /\ agreed' = agreed
  BY DEF saveTable, removeTable
<1>2. Booked' /\ \A m \in Meetings : Agreed(m)'
  BY <1>1, Elsewhere DEF Inv, Shape
<1>3. PICK to \in {"active", "inactive", "removed"} :
        /\ tables' = [tables EXCEPT ![t] = to]
        /\ to # "active" => \A m \in Meetings : Upcoming(m) => meet[m].table # t
  BY DEF saveTable, removeTable, Upcoming, Is
<1>4. ASSUME NEW m \in Meetings
      PROVE  Possible(m)'
  <2>1. Possible(m) /\ networkingSlots(config)' = networkingSlots(config)
    BY <1>1 DEF Inv, networkingSlots
  <2>2. ASSUME Upcoming(m), meet[m].table # None, tables[meet[m].table] = "active"
        PROVE  tables'[meet[m].table] = "active"
    <3>1. meet[m].table \in Tables
      BY <2>2, RowOf DEF Inv, Upcoming, Is, MeetingRows
    <3>2. QED
      BY <1>3, <2>2, <3>1 DEF Inv, Shape
  <2>3. QED
    BY <1>1, <2>1, <2>2 DEF Possible, Upcoming, Is, Exists, EndsAt, Pair, Eligible, Blocked
<1>5. tables' \in [Tables -> {"active", "inactive", "removed"}]
  BY <1>3 DEF Inv, Shape
<1>6. QED
  BY <1>1, <1>2, <1>4, <1>5 DEF Inv, Shape, NoSelfBlock

(* A profile loses its access with all its meetings to come *)
LEMMA RevokedInv ==
  ASSUME Inv, NEW p \in Profiles, transition(UpcomingOf(p), "CANCELLED"),
         now' = now, config' = config, tables' = tables, blocks' = blocks, agreed' = agreed,
         access' \in [Profiles -> Statuses \union {"WITHDRAWN"}],
         \A q \in Profiles \ {p} : access'[q] = access[q],
         undo' \in [Profiles -> {None} \union Snapshots]
  PROVE  Inv'
<1> DEFINE ms == UpcomingOf(p)
<1>1. ms \in SUBSET Meetings /\ \A m \in ms : Is(m, open)
  BY DEF UpcomingOf, Upcoming
<1>2. /\ Booked' /\ meet' \in [Meetings -> {None} \union MeetingRows]
      /\ \A m \in Meetings : Agreed(m)'
      /\ \A m \in ms : Possible(m)'
      /\ \A m \in Meetings \ ms : meet'[m] = meet[m]
  <2> HIDE DEF ms
  <2> QED BY <1>1, TransitionOne DEF ms, released
<1>3. ASSUME NEW m \in Meetings \ ms
      PROVE  Possible(m)'
  <2>1. meet'[m] = meet[m] /\ Pair(m)' = Pair(m) /\ (Upcoming(m)' <=> Upcoming(m))
    BY <1>2 DEF Upcoming, Is, Exists, EndsAt, Pair
  <2>2. Possible(m) /\ networkingSlots(config)' = networkingSlots(config)
    BY DEF Inv, networkingSlots
  <2>3. ASSUME Upcoming(m)
        PROVE  \A q \in Pair(m) : q \in Profiles /\ q # p
    <3>1. meet[m] \in MeetingRows
      BY <2>3, RowOf DEF Upcoming, Is, Inv
    <3>2. QED
      BY <2>3, <3>1 DEF UpcomingOf, Pair, MeetingRows
  <2>4. QED
    BY <2>1, <2>2, <2>3 DEF Possible, Eligible, Blocked
<1>4. QED
  BY <1>2, <1>3 DEF Inv, Shape, NoSelfBlock

LEMMA WithdrawInv ==
  ASSUME Inv, NEW p \in Profiles, withdraw(p)
  PROVE  Inv'
<1>1. /\ access' \in [Profiles -> Statuses \union {"WITHDRAWN"}]
      /\ \A q \in Profiles \ {p} : access'[q] = access[q]
      /\ undo' \in [Profiles -> {None} \union Snapshots]
  BY DEF withdraw, Inv, Shape
<1>2. QED
  BY <1>1, RevokedInv DEF withdraw

(* A change that cancels nothing, and takes no access away from a meeting  *)
(* to come.                                                                *)
LEMMA NothingCancelled ==
  ASSUME Inv, transition({}, "CANCELLED"),
         now' = now, config' = config, tables' = tables, blocks' = blocks, agreed' = agreed,
         access' \in [Profiles -> Statuses \union {"WITHDRAWN"}],
         \A q \in Profiles : Eligible(q) => Eligible(q)',
         undo' \in [Profiles -> {None} \union Snapshots]
  PROVE  Inv'
<1>1. /\ Booked' /\ meet' \in [Meetings -> {None} \union MeetingRows]
      /\ \A m \in Meetings : Agreed(m)'
      /\ \A m \in Meetings : meet'[m] = meet[m]
  BY TransitionOne DEF released
<1>2. \A m \in Meetings : Possible(m)'
  BY <1>1, KeptPossible DEF Inv, Shape
<1>3. QED
  BY <1>1, <1>2 DEF Inv, Shape, NoSelfBlock

LEMMA SetAccessInv ==
  ASSUME Inv, NEW p \in Profiles, NEW status \in Statuses, setAccess(p, status)
  PROVE  Inv'
<1> DEFINE cancelled == IF status # access[p] /\ status # "ACTIVE" THEN UpcomingOf(p) ELSE {}
<1>1. /\ transition(cancelled, "CANCELLED") /\ access' = [access EXCEPT ![p] = status]
      /\ undo' = [undo EXCEPT ![p] = IF status = access[p] THEN None
                                     ELSE [before |-> access[p], meetings |-> cancelled]]
      /\ now' = now /\ config' = config /\ tables' = tables /\ blocks' = blocks /\ agreed' = agreed
  BY DEF setAccess
<1>2. cancelled \subseteq Meetings
  BY DEF UpcomingOf
<1>3. undo' \in [Profiles -> {None} \union Snapshots]
  <2> HIDE DEF cancelled
  <2>1. access[p] \in Statuses \union {"WITHDRAWN"} /\ undo \in [Profiles -> {None} \union Snapshots]
    BY DEF Inv, Shape
  <2>2. [before |-> access[p], meetings |-> cancelled] \in Snapshots
    BY <1>2, <2>1 DEF Snapshots
  <2>3. QED
    BY <1>1, <2>1, <2>2
<1>4. /\ access' \in [Profiles -> Statuses \union {"WITHDRAWN"}]
      /\ access'[p] = status /\ \A q \in Profiles \ {p} : access'[q] = access[q]
  BY <1>1 DEF Inv, Shape
<1>5. CASE status # access[p] /\ status # "ACTIVE"
  <2>1. cancelled = UpcomingOf(p)
    BY <1>5
  <2>2. QED
    BY <1>1, <1>3, <1>4, <2>1, RevokedInv
<1>6. CASE ~(status # access[p] /\ status # "ACTIVE")
  <2>1. cancelled = {}
    BY <1>6
  <2>2. \A q \in Profiles : Eligible(q) => Eligible(q)'
    BY <1>4, <1>6 DEF Eligible
  <2>3. QED
    BY <1>1, <1>3, <1>4, <2>1, <2>2, NothingCancelled
<1>7. QED
  BY <1>5, <1>6

(* All the meetings a revocation cancelled come back at once *)
LEMMA RestoreAccessInv ==
  ASSUME Inv, NEW p \in Profiles, restoreAccess(p)
  PROVE  Inv'
<1> DEFINE ms == undo[p].meetings
           rows == [m \in ms |-> Restored(m)]
<1>1. /\ undo[p] # None /\ access' = [access EXCEPT ![p] = undo[p].before]
      /\ undo' = [SnapshotsWithout(ms) EXCEPT ![p] = None]
      /\ now' = now /\ config' = config /\ tables' = tables /\ blocks' = blocks /\ agreed' = agreed
  BY DEF restoreAccess
<1>2. undo[p] \in Snapshots
  BY <1>1 DEF Inv, Shape
<1>3. ms \in SUBSET Meetings /\ undo[p].before \in Statuses \union {"WITHDRAWN"}
  BY <1>2 DEF Snapshots
<1>4. /\ access' \in [Profiles -> Statuses \union {"WITHDRAWN"}]
      /\ access'[p] = undo[p].before /\ \A q \in Profiles \ {p} : access'[q] = access[q]
  BY <1>1, <1>3 DEF Inv, Shape
<1>5. undo' \in [Profiles -> {None} \union Snapshots]
  <2>1. SnapshotsWithout(ms) \in [Profiles -> {None} \union Snapshots]
    BY SnapshotsType DEF Inv
  <2>2. QED
    BY <1>1, <2>1
<1>6. CASE undo[p].before # "ACTIVE"
  <2>1. transition(UpcomingOf(p), "CANCELLED")
    BY <1>6 DEF restoreAccess
  <2>2. QED
    BY <1>1, <1>4, <1>5, <2>1, RevokedInv
<1>7. CASE undo[p].before = "ACTIVE"
  <2>1. /\ \A m \in ms : Restorable(m) /\ \A q \in Pair(m) \ {p} : Eligible(q)
        /\ \E place \in [ms -> Tables \union {None}] :
             /\ \A m \in ms : place[m] \in Allocations(m, rows[m], meet[m].table)
             /\ \A m, k \in ms : m # k => Apart(m, rows[m], place[m], k, rows[k], place[k])
             /\ reserveAll(rows, place)
    BY <1>7 DEF restoreAccess, Apart
  <2>2. PICK place \in [ms -> Tables \union {None}] :
             /\ \A m \in ms : place[m] \in Allocations(m, rows[m], meet[m].table)
             /\ \A m, k \in ms : m # k => Apart(m, rows[m], place[m], k, rows[k], place[k])
             /\ reserveAll(rows, place)
    BY <2>1
  <2>3. DOMAIN rows = ms /\ \A m \in ms : rows[m] = Restored(m)
    OBVIOUS
  <2> HIDE DEF ms, rows
  <2>4. \A q \in Profiles : Eligible(q) => Eligible(q)'
    BY <1>4, <1>7 DEF Eligible
  <2>5. ASSUME NEW m \in ms
        PROVE  /\ rows[m] \in MeetingRows /\ rows[m].status \in open
               /\ rows[m].start \in networkingSlots(config) /\ rows[m].duration = config.slotDuration
               /\ \A x, y \in {rows[m].requester, rows[m].recipient} : Eligible(x)' /\ ~Blocked(x, y)'
               /\ AgreedRow(rows[m], rows[m].status, rows[m].prop, rows[m].propBy, agreed'[m], now)
    <3>1. m \in Meetings /\ Restorable(m) /\ rows[m] = Restored(m)
      BY <1>3, <2>1, <2>3
    <3>2. /\ meet[m] \in MeetingRows
          /\ rows[m] \in MeetingRows /\ rows[m].status \in open
          /\ rows[m].requester = meet[m].requester /\ rows[m].recipient = meet[m].recipient
          /\ rows[m].start \in networkingSlots(config) /\ rows[m].duration = config.slotDuration
          /\ \A x, y \in {meet[m].requester, meet[m].recipient} : ~Blocked(x, y)
          /\ AgreedRow(rows[m], rows[m].status, rows[m].prop, rows[m].propBy, agreed[m], now)
      BY <3>1, RestoredRow
    <3>3. \A x \in Pair(m) : x \in Profiles /\ (x = p \/ Eligible(x))
      BY <2>1, <3>2 DEF Pair, MeetingRows
    <3>4. \A x \in Pair(m) : Eligible(x)'
      BY <1>4, <1>7, <2>4, <3>3 DEF Eligible
    <3>5. QED
      BY <1>1, <3>2, <3>4 DEF Pair, Blocked
  <2>6. Booked' /\ meet' \in [Meetings -> {None} \union MeetingRows]
    BY <1>3, <2>2, <2>3, <2>5, ReserveBooked DEF Inv
  <2>7. /\ \A m \in ms : meet'[m] = Allocated(rows[m], place[m])
        /\ \A m \in Meetings \ ms : meet'[m] = meet[m] \/ Expired(m)
    BY <1>3, <2>2, <2>3, ReserveEffect
  <2>8. ASSUME NEW m \in ms
        PROVE  Possible(m)' /\ Agreed(m)'
    <3>1. m \in Meetings /\ place[m] \in Allocations(m, rows[m], meet[m].table)
      BY <1>3, <2>2
    <3>2. Possible(m)'
      BY <1>1, <2>5, <2>7, <3>1, AllocatedPossible DEF Inv
    <3>3. Agreed(m)'
      BY <1>1, <2>5, <2>7, <3>1, AllocatedAgreed
    <3>4. QED
      BY <3>2, <3>3
  <2>9. ASSUME NEW m \in Meetings \ ms
        PROVE  Possible(m)' /\ Agreed(m)'
    <3>1. CASE Expired(m)
      BY <3>1, ExpiredCloses DEF Inv
    <3>2. CASE meet'[m] = meet[m]
      BY <1>1, <2>4, <3>2, KeptPossible, KeptAgreed DEF Inv, Shape
    <3>3. QED
      BY <2>7, <3>1, <3>2
  <2>10. QED
    BY <1>1, <1>4, <1>5, <2>6, <2>8, <2>9 DEF Inv, Shape, NoSelfBlock
<1>8. QED
  BY <1>6, <1>7

LEMMA TickInv ==
  ASSUME Inv, Tick
  PROVE  Inv'
<1>1. /\ now' = now + 1 /\ config' = config /\ access' = access /\ undo' = undo /\ tables' = tables
      /\ blocks' = blocks /\ meet' = meet /\ held' = held /\ agreed' = agreed
  BY DEF Tick
<1>2. now' \in Int /\ now' >= now
  BY <1>1 DEF Inv, Shape
<1>3. Booked' /\ \A m \in Meetings : Agreed(m)'
  BY <1>1, <1>2, Elsewhere
<1>4. \A m \in Meetings : Possible(m)'
  BY <1>1, <1>2, KeptPossible DEF Inv, Eligible
<1>5. QED
  BY <1>1, <1>2, <1>3, <1>4 DEF Inv, Shape, NoSelfBlock

-----------------------------------------------------------------------------
(* The theorems *)

LEMMA InitInv == Init => Inv
<1> SUFFICES ASSUME Init PROVE Inv
  OBVIOUS
<1>1. Shape
  BY NetworkingConstants DEF Init, Shape
<1>2. \A m \in Meetings : meet[m] = None
  BY DEF Init
<1>3. Booked
  BY <1>2 DEF Init, Is, Exists, Booked, ReservationsFollowStatus, NoDoubleBooking
<1>4. NoSelfBlock /\ \A m \in Meetings : Possible(m) /\ Agreed(m)
  BY <1>2 DEF Init, Is, Exists, NoSelfBlock, Possible, Upcoming, Agreed
<1>5. QED
  BY <1>1, <1>3, <1>4 DEF Inv

LEMMA NextInv ==
  ASSUME Inv, [Next]_vars
  PROVE  Inv'
<1>1. CASE ParticipantNext
  BY <1>1, InterestInv, BlockInv, UnblockInv, CreateInv, AcceptInv, DeclineInv, CancelInv,
     CheckinInv, RescheduleInv, WithdrawInv DEF ParticipantNext
<1>2. CASE OrganizerNext
  BY <1>2, AssignInv, CancelInv, AttendanceInv, RestoreInv, ConfigInv, TableInv, RestoreAccessInv,
     SetAccessInv DEF OrganizerNext
<1>3. CASE expirePending \/ clearOverdueProposals \/ Tick
  BY <1>3, ExpireInv, ClearInv, TickInv
<1>4. CASE UNCHANGED vars
  <2>1. /\ now' = now /\ config' = config /\ access' = access /\ undo' = undo /\ tables' = tables
        /\ blocks' = blocks /\ meet' = meet /\ held' = held /\ agreed' = agreed
    BY <1>4 DEF vars
  <2>2. Booked' /\ \A m \in Meetings : Agreed(m)'
    BY <2>1, Elsewhere DEF Inv, Shape
  <2>3. \A m \in Meetings : Possible(m)'
    BY <2>1, KeptPossible DEF Inv, Shape, Eligible
  <2>4. QED
    BY <2>1, <2>2, <2>3 DEF Inv, Shape, NoSelfBlock
<1>5. QED
  BY <1>1, <1>2, <1>3, <1>4 DEF Next

(* The inductive invariant holds in every reachable state: the shape of    *)
(* the rows, the reservations, what each meeting to come needs, and who    *)
(* agreed to which time.                                                   *)
THEOREM MeetingsInvariant == Spec => []Inv
<1>1. Init => Inv
  BY InitInv
<1>2. Inv /\ [Next]_vars => Inv'
  BY NextInv
<1>3. QED
  BY <1>1, <1>2, PTL DEF Spec

(* networking_reservations holds exactly the claims of the meetings that   *)
(* keep theirs, for any number of participants, meetings, tables and       *)
(* stands: allocations, transitions and restores write both tables alike.  *)
THEOREM ReservationsFollowStatusHolds == Spec => []ReservationsFollowStatus
<1>1. Inv => ReservationsFollowStatus
  BY DEF Inv, Booked
<1>2. QED
  BY <1>1, MeetingsInvariant, PTL

(* No resource is given twice for one quantum: what an allocation reads    *)
(* before it claims suffices, the unique index never has to refuse.        *)
THEOREM NoDoubleBookingHolds == Spec => []NoDoubleBooking
<1>1. Inv => NoDoubleBooking
  BY DEF Inv, Booked
<1>2. QED
  BY <1>1, MeetingsInvariant, PTL

(* Changes of tables, slots and access, blocks and restores leave no       *)
(* meeting to come that cannot take place.                                 *)
THEOREM BookingsStayValidHolds == Spec => []BookingsStayValid
<1>1. Inv => BookingsStayValid
  BY DEF Inv, Possible, BookingsStayValid
<1>2. QED
  BY <1>1, MeetingsInvariant, PTL

(* block cancels the pair's meetings to come, and nothing brings one back  *)
(* or makes a new one while the block stands.                              *)
THEOREM BlockedNeverMeetHolds == Spec => []BlockedNeverMeet
<1>1. Inv => BlockedNeverMeet
  BY DEF Inv, Possible, BlockedNeverMeet
<1>2. QED
  BY <1>1, MeetingsInvariant, PTL

(* An accepted meeting is at a time both participants proposed or          *)
(* accepted, through respond, expiry, cancellation and restore.            *)
THEOREM BothAgreedHolds == Spec => []BothAgreed
<1>1. Inv => BothAgreed
  BY DEF Inv, Agreed, AgreedRow, BothAgreed, Is, accepted, open, Pair
<1>2. QED
  BY <1>1, MeetingsInvariant, PTL
=============================================================================
