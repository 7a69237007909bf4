------------------------- MODULE NetworkingMeetings -------------------------
(***************************************************************************)
(* The one-to-one meetings of an event's networking: requests, responses,  *)
(* counter-proposals, check-in and expiry, the reservations that keep      *)
(* participants and tables free of clashes, the organizer's operations on  *)
(* meetings, tables, configuration and access, blocks and withdrawals      *)
(* (apps/api/src/modules/networking, packages/db/src/queries).             *)
(*                                                                         *)
(* Every write is one SERIALIZABLE transaction that is retried until it    *)
(* commits, or a single statement, so one step; an attempt that finds its  *)
(* hour locks too narrow plans again and has written nothing. A refusal    *)
(* rolls back and is a disabled action.                                    *)
(*                                                                         *)
(* Time is counted in the quanta of reservations (5 minutes). The opening  *)
(* hours are the quanta 1..LastQuantum; a meeting of duration d that       *)
(* starts at s takes s .. s + d - 1 and ends at s + d.                     *)
(***************************************************************************)
EXTENDS Integers, FiniteSets

CONSTANTS
  Profiles,       \* participants' profiles
  Meetings,       \* ids of the meetings that may be requested
  Tables,         \* ids of tables and exhibitor stands
  Stands,         \* those of kind STAND
  StandOf,        \* standTableId of each profile, or None
  Requests,       \* bound: <<meeting, requester, recipient>> that may be asked for
  Met,            \* pairs of profiles connected from the start
  Discoverable,   \* visible profiles with a complete professional profile
  Configs,        \* configurations an organizer may save
  Statuses,       \* profile statuses an organizer may set
  LastQuantum,    \* last quantum of the opening hours
  RequestExpiry,  \* requestExpiryHours, in quanta
  CheckinLead,    \* how long before its start a meeting can be checked in
  CheckinGrace,   \* and how long after its end
  None

open == {"PENDING", "PENDING_ALLOCATION", "CONFIRMED"}
accepted == {"PENDING_ALLOCATION", "CONFIRMED"}
holding == open \union {"COMPLETED", "NO_SHOW"}
released == {"CANCELLED", "DECLINED", "EXPIRED"}

(* The rows of networking_meetings; `cancelled` is cancellation_state *)
MeetingRows ==
  LET proposal == Int \union {None}
      proposer == Profiles \union {None}
  IN  [status : holding \union released, requester : Profiles, recipient : Profiles,
       start : Int, duration : Int, table : Tables \union {None}, expires : Int,
       prop : proposal, propBy : proposer, checked : SUBSET Profiles,
       cancelled : {None} \union [status : open, prop : proposal, propBy : proposer]]

ASSUME NetworkingConstants ==
  /\ LastQuantum \in Nat
  /\ Stands \subseteq Tables
  /\ StandOf \in [Profiles -> Stands \union {None}]
  /\ Met \subseteq {{p, q} : p, q \in Profiles}
  /\ Configs \subseteq [slotDuration : 1..LastQuantum, autoAssignTables : BOOLEAN,
                        blackoutSlots : SUBSET (1..LastQuantum)]
  /\ "ACTIVE" \in Statuses /\ "WITHDRAWN" \notin Statuses
  /\ RequestExpiry \in Nat \ {0} /\ CheckinLead \in Nat /\ CheckinGrace \in Nat
  /\ None \notin Profiles \union Tables \union Int \union MeetingRows

VARIABLES
  now,        \* the clock
  config,     \* networking_configs.config
  access,     \* status of each profile, "WITHDRAWN" once withdrawn_at is set
  undo,       \* the latest access snapshot that is still restorable
  tables,     \* "active", "inactive" or "removed"
  likes,      \* networking_interests with action LIKE, <<from, to>>
  connected,  \* networking_connections
  blocks,     \* networking_blocks, <<from, to>>
  meet,       \* networking_meetings
  held,       \* networking_reservations, one record per resource and quantum
  \* history, read by properties only
  agreed      \* <<profile, start>> each participant proposed or accepted

vars == <<now, config, access, undo, tables, likes, connected, blocks, meet, held, agreed>>

Exists(m) == meet[m] # None
Is(m, group) == Exists(m) /\ meet[m].status \in group
Pair(m) == {meet[m].requester, meet[m].recipient}
EndsAt(m) == meet[m].start + meet[m].duration
Upcoming(m) == Is(m, open) /\ EndsAt(m) > now

Eligible(p) == access[p] = "ACTIVE"
Blocked(p, q) == <<p, q>> \in blocks \/ <<q, p>> \in blocks
(* networkingCounterpartVisible in `profile` mode *)
Visible(p, q) ==
  p # q /\ Eligible(q) /\ ~Blocked(p, q) /\ (q \in Discoverable \/ {p, q} \in connected)

-----------------------------------------------------------------------------
(* Slots, resources and the allocation *)

networkingSlots(c) ==
  {t \in 1..LastQuantum : /\ (t - 1) % c.slotDuration = 0
                          /\ t + c.slotDuration - 1 <= LastQuantum
                          /\ t \notin c.blackoutSlots}

slot(s) == s > now /\ s \in networkingSlots(config)

networkingProposalExpiry(s) == IF now + RequestExpiry < s THEN now + RequestExpiry ELSE s

resourceQuanta(s, d) == s .. s + d - 1

HoldKey(p) == <<"hold", p, None>>
ProfileKey(p) == <<"profile", p, None>>

(* An exhibitor has one station per representative *)
networkingInventoryResource(t, pair) ==
  IF t \notin Stands THEN <<"table", None, t>>
  ELSE LET representatives == {p \in pair : StandOf[p] = t}
       IN  IF Cardinality(representatives) = 1
           THEN <<"stand", CHOOSE p \in representatives : TRUE, t>>
           ELSE None

Overdue(m) == Is(m, {"PENDING"}) /\ meet[m].expires <= now

(* The overdue requests in the way of quanta qs, which an allocation expires *)
Lapsed(qs) ==
  {m \in Meetings : Overdue(m) /\ resourceQuanta(meet[m].start, meet[m].duration) \intersect qs # {}}

(* Mutant: only the first quantum of the slot is looked at *)
TakenAtStart(key, qs, m) ==
  \E h \in held : h.key = key /\ h.q \in qs /\ h.q - 1 \notin qs
                  /\ h.meeting \notin Lapsed(qs) \union {m}

taken(key, qs, m) ==
  \E h \in held : h.key = key /\ h.q \in qs /\ h.meeting \notin Lapsed(qs) \union {m}

Usage(t, qs) ==
  Cardinality({m \in Meetings : Is(m, holding) /\ m \notin Lapsed(qs) /\ meet[m].table = t})

(* The tables meeting m of row may get: the one it has, else the least     *)
(* used; equally used ones are ordered by name, which no property reads.   *)
Candidates(m, row, qs, forced) ==
  LET pair == {row.requester, row.recipient}
      stand == IF forced # None THEN forced
               ELSE IF StandOf[row.recipient] # None THEN StandOf[row.recipient]
               ELSE StandOf[row.requester]
      fits == {t \in Tables :
                 /\ tables[t] = "active"
                 /\ networkingInventoryResource(t, pair) # None
                 /\ ~taken(networkingInventoryResource(t, pair), qs, m)
                 /\ ~taken(<<"table", None, t>>, qs, m)
                 /\ stand # None => t = stand}
  IN  IF row.table \in fits THEN {row.table}
      ELSE {t \in fits : \A u \in fits : Usage(t, qs) <= Usage(u, qs)}

(* The places an allocation of row may end with: none when tables are      *)
(* assigned by hand, otherwise a candidate; the empty set when it is       *)
(* refused. A pending row holds its requester's slot only.                 *)
Allocations(m, row, forced) ==
  LET qs == resourceQuanta(row.start, row.duration)
      pending == row.status = "PENDING"
      free == /\ pending => row.expires > now /\ ~taken(HoldKey(row.requester), qs, m)
              /\ \A p \in {row.requester, row.recipient} : ~taken(ProfileKey(p), qs, m)
  IN  IF ~free THEN {}
      ELSE IF config.autoAssignTables \/ forced # None THEN Candidates(m, row, qs, forced)
      ELSE {None}

Claims(m, row, table) ==
  LET pair == {row.requester, row.recipient}
      keys == (IF row.status = "PENDING" THEN {HoldKey(row.requester)}
                                         ELSE {ProfileKey(p) : p \in pair})
              \union (IF table = None THEN {} ELSE {networkingInventoryResource(table, pair)})
  IN  [key : keys, q : resourceQuanta(row.start, row.duration), meeting : {m}]

(* The row an allocation leaves *)
Allocated(row, table) ==
  [row EXCEPT !.table = table,
              !.status = IF @ = "PENDING" THEN "PENDING"
                         ELSE IF table # None THEN "CONFIRMED" ELSE "PENDING_ALLOCATION"]

(* What an allocation of the rows writes: their claims replace the         *)
(* meetings' reservations. A claim never meets a reservation that is left  *)
(* (NoDoubleBooking), so that the unique index which would refuse it has   *)
(* nothing to refuse.                                                      *)
reserveAll(rows, place) ==
  LET ms == DOMAIN rows
      lapsed == UNION {Lapsed(resourceQuanta(rows[m].start, rows[m].duration)) : m \in ms}
  IN
  /\ meet' = [k \in Meetings |->
       IF k \in ms THEN Allocated(rows[k], place[k])
       ELSE IF k \in lapsed THEN [meet[k] EXCEPT !.status = "EXPIRED"]
       ELSE meet[k]]
  /\ held' = {h \in held : h.meeting \notin lapsed \union ms}
             \union UNION {Claims(m, rows[m], place[m]) : m \in ms}

reserve(m, row, forced) ==
  \E t \in Allocations(m, row, forced) : reserveAll([k \in {m} |-> row], [k \in {m} |-> t])

(* Mutant: only a cancellation gives up the reservations *)
TransitionReleasesCancelled(ms, to) ==
  /\ meet' = [m \in Meetings |->
       IF m \notin ms THEN meet[m]
       ELSE IF to = "CANCELLED"
            THEN [meet[m] EXCEPT !.status = to, !.prop = None, !.propBy = None,
                    !.cancelled = [status |-> meet[m].status, prop |-> meet[m].prop,
                                   propBy |-> meet[m].propBy]]
            ELSE [meet[m] EXCEPT !.status = to]]
  /\ held' = IF to = "CANCELLED" THEN {h \in held : h.meeting \notin ms} ELSE held

(* A transition of the meetings ms to status to; CANCEL keeps what a       *)
(* restore needs. Released statuses give up every reservation.             *)
transition(ms, to) ==
  /\ meet' = [m \in Meetings |->
       IF m \notin ms THEN meet[m]
       ELSE IF to = "CANCELLED"
            THEN [meet[m] EXCEPT !.status = to, !.prop = None, !.propBy = None,
                    !.cancelled = [status |-> meet[m].status, prop |-> meet[m].prop,
                                   propBy |-> meet[m].propBy]]
            ELSE [meet[m] EXCEPT !.status = to]]
  /\ held' = IF to \in released THEN {h \in held : h.meeting \notin ms} ELSE held

-----------------------------------------------------------------------------
(* Participants *)

SocialStep == UNCHANGED <<now, config, access, undo, tables, agreed>>
MeetingStep == UNCHANGED <<now, config, access, undo, tables, likes, connected, blocks>>

interest(p, q, action) ==
  /\ Eligible(p) /\ Eligible(q) /\ p # q /\ ~Blocked(p, q) /\ q \in Discoverable
  /\ likes' = IF action = "LIKE" THEN likes \union {<<p, q>>} ELSE likes \ {<<p, q>>}
  /\ connected' = IF action = "LIKE" /\ <<q, p>> \in likes THEN connected \union {{p, q}} ELSE connected
  /\ SocialStep /\ UNCHANGED <<blocks, meet, held>>

create(m, p, q, s) ==
  LET d == config.slotDuration
      row == [status |-> "PENDING", requester |-> p, recipient |-> q, start |-> s, duration |-> d,
              table |-> None, expires |-> networkingProposalExpiry(s), prop |-> None, propBy |-> None,
              cancelled |-> None, checked |-> {}]
  IN
  /\ ~Exists(m) /\ <<m, p, q>> \in Requests
  /\ Eligible(p) /\ Visible(p, q) /\ {p, q} \in connected
  /\ slot(s)
  /\ ~\E k \in Meetings : Is(k, open) /\ meet[k].start = s /\ Pair(k) = {p, q}
  /\ reserve(m, row, None)
  /\ agreed' = [agreed EXCEPT ![m] = {<<p, s>>}]
  /\ MeetingStep

(* What every response checks first *)
MayRespond(m, p) ==
  /\ Is(m, open) /\ p \in Pair(m)
  /\ Eligible(p) /\ \A q \in Pair(m) \ {p} : Visible(p, q)
  /\ ~Overdue(m)
  /\ (IF meet[m].prop # None THEN meet[m].prop + config.slotDuration ELSE EndsAt(m)) > now

(* Mutant: the recipient answers, whoever made the proposal *)
AwaitsRecipient(m, p) ==
  /\ p # meet[m].requester
  /\ meet[m].prop # None \/ meet[m].status = "PENDING"
  /\ meet[m].expires > now

(* A proposal awaits the answer of p *)
AwaitsAnswer(m, p) ==
  /\ p # IF meet[m].propBy # None THEN meet[m].propBy ELSE meet[m].requester
  /\ meet[m].prop # None \/ meet[m].status = "PENDING"
  /\ meet[m].expires > now

accept(m, p) ==
  LET s == IF meet[m].prop # None THEN meet[m].prop ELSE meet[m].start
      row == [meet[m] EXCEPT !.status = "CONFIRMED", !.start = s, !.duration = config.slotDuration,
                             !.prop = None, !.propBy = None]
  IN
  /\ MayRespond(m, p) /\ meet[m].checked = {} /\ AwaitsAnswer(m, p)
  /\ slot(s)
  /\ reserve(m, row, None)
  /\ agreed' = [agreed EXCEPT ![m] = @ \union {<<p, s>>}]
  /\ MeetingStep

(* A declined counter-proposal leaves an accepted meeting as it was.       *)
decline(m, p) ==
  /\ MayRespond(m, p) /\ AwaitsAnswer(m, p)
  /\ meet' = [meet EXCEPT ![m].status = IF @ = "PENDING" THEN "DECLINED" ELSE @,
                          ![m].prop = None, ![m].propBy = None]
  /\ held' = IF meet[m].status = "PENDING" THEN {h \in held : h.meeting # m} ELSE held
  /\ MeetingStep /\ UNCHANGED agreed

cancel(m, p) ==
  /\ MayRespond(m, p)
  /\ transition({m}, "CANCELLED")
  /\ MeetingStep /\ UNCHANGED agreed

(* A request moves with the proposal; an accepted meeting keeps its slot   *)
(* and reservations until the proposal is accepted.                        *)
reschedule(m, p, s) ==
  LET proposed == [meet[m] EXCEPT !.prop = s, !.propBy = p, !.expires = networkingProposalExpiry(s)]
  IN
  /\ MayRespond(m, p) /\ meet[m].checked = {}
  /\ slot(s)
  /\ IF meet[m].status = "PENDING"
     THEN reserve(m, [proposed EXCEPT !.start = s, !.duration = config.slotDuration], None)
     ELSE meet' = [meet EXCEPT ![m] = proposed] /\ held' = held
  /\ agreed' = [agreed EXCEPT ![m] = @ \union {<<p, s>>}]
  /\ MeetingStep

checkin(m, p) ==
  /\ Is(m, {"CONFIRMED", "COMPLETED"}) /\ p \in Pair(m)
  /\ Eligible(p) /\ \A q \in Pair(m) \ {p} : Visible(p, q)
  /\ now \in meet[m].start - CheckinLead .. EndsAt(m) + CheckinGrace
  /\ meet' = [meet EXCEPT ![m].checked = @ \union {p},
                          ![m].status = IF meet[m].checked \ {p} # {} THEN "COMPLETED" ELSE @,
                          ![m].prop = None, ![m].propBy = None]
  /\ MeetingStep /\ UNCHANGED <<held, agreed>>

block(p, q) ==
  /\ Eligible(p) /\ p # q
  /\ blocks' = blocks \union {<<p, q>>}
  /\ transition({m \in Meetings : Upcoming(m) /\ Pair(m) = {p, q}}, "CANCELLED")
  /\ SocialStep /\ UNCHANGED <<likes, connected>>

unblock(p, q) ==
  /\ <<p, q>> \in blocks
  /\ blocks' = blocks \ {<<p, q>>}
  /\ SocialStep /\ UNCHANGED <<likes, connected, meet, held>>

-----------------------------------------------------------------------------
(* Expiry: two statements, of which a process may run only the first       *)

expirePending ==
  /\ \E m \in Meetings : Overdue(m)
  /\ transition({m \in Meetings : Overdue(m)}, "EXPIRED")
  /\ MeetingStep /\ UNCHANGED agreed

clearOverdueProposals ==
  LET overdue == {m \in Meetings : Exists(m) /\ meet[m].prop # None /\ meet[m].expires <= now}
  IN
  /\ overdue # {}
  /\ meet' = [m \in Meetings |->
                IF m \in overdue THEN [meet[m] EXCEPT !.prop = None, !.propBy = None] ELSE meet[m]]
  /\ MeetingStep /\ UNCHANGED <<held, agreed>>

-----------------------------------------------------------------------------
(* The organizer *)

assign(m, forced) ==
  /\ Is(m, open)
  /\ \A p \in Pair(m) : Eligible(p)
  /\ reserve(m, meet[m], forced)
  /\ MeetingStep /\ UNCHANGED agreed

adminCancel(m) ==
  /\ Is(m, open)
  /\ transition({m}, "CANCELLED")
  /\ MeetingStep /\ UNCHANGED agreed

recordAttendance(m, to) ==
  /\ Is(m, {"CONFIRMED"}) /\ meet[m].start <= now
  /\ transition({m}, to)
  /\ MeetingStep /\ UNCHANGED agreed

(* Mutant: only the requester's block stands in the way *)
RestorableByRequester(m) ==
  /\ Is(m, {"CANCELLED"}) /\ meet[m].cancelled # None
  /\ slot(meet[m].start) /\ meet[m].duration = config.slotDuration
  /\ Pair(m) \in connected
  /\ <<meet[m].requester, meet[m].recipient>> \notin blocks

Restorable(m) ==
  /\ Is(m, {"CANCELLED"}) /\ meet[m].cancelled # None
  /\ slot(meet[m].start) /\ meet[m].duration = config.slotDuration
  /\ Pair(m) \in connected
  /\ \A p, q \in Pair(m) : ~Blocked(p, q)

(* The row a restore saves, but for what its allocation decides *)
Restored(m) ==
  LET kept == meet[m].cancelled.prop # None /\ meet[m].expires > now
  IN  [meet[m] EXCEPT !.status = meet[m].cancelled.status,
         !.cancelled = None,
         !.prop = IF kept THEN meet[m].cancelled.prop ELSE None,
         !.propBy = IF kept THEN meet[m].cancelled.propBy ELSE None]

(* A snapshot that names a restored meeting can no longer be restored: the *)
(* meeting's revision moved.                                               *)
SnapshotsWithout(ms) ==
  [p \in Profiles |-> IF undo[p] # None /\ undo[p].meetings \intersect ms # {} THEN None ELSE undo[p]]

restoreNetworkingMeeting(m) ==
  /\ Restorable(m)
  /\ \A p \in Pair(m) : Eligible(p)
  /\ reserve(m, Restored(m), meet[m].table)
  /\ undo' = SnapshotsWithout({m})
  /\ UNCHANGED <<now, config, access, tables, likes, connected, blocks, agreed>>

(* Mutant: the duration of the accepted meetings is not compared *)
UpdateConfigSlotsOnly(c) ==
  /\ c # config
  /\ \A m \in Meetings : Is(m, accepted) /\ EndsAt(m) > now => meet[m].start \in networkingSlots(c)
  /\ config' = c
  /\ UNCHANGED <<now, access, undo, tables, likes, connected, blocks, meet, held, agreed>>

(* validateNetworkingConfig protects the accepted meetings to come *)
updateConfig(c) ==
  /\ c # config
  /\ \A m \in Meetings : Is(m, accepted) /\ EndsAt(m) > now =>
       meet[m].start \in networkingSlots(c) /\ meet[m].duration = c.slotDuration
  /\ config' = c
  /\ UNCHANGED <<now, access, undo, tables, likes, connected, blocks, meet, held, agreed>>

saveTable(t, to) ==
  /\ tables[t] # "removed"
  /\ to = "inactive" => \A m \in Meetings : Upcoming(m) => meet[m].table # t
  /\ tables' = [tables EXCEPT ![t] = to]
  /\ UNCHANGED <<now, config, access, undo, likes, connected, blocks, meet, held, agreed>>

(* Stands keep their representatives in this model, so only tables go.     *)
removeTable(t) ==
  /\ t \notin Stands /\ tables[t] # "removed"
  /\ \A m \in Meetings : Exists(m) => meet[m].table # t
  /\ tables' = [tables EXCEPT ![t] = "removed"]
  /\ UNCHANGED <<now, config, access, undo, likes, connected, blocks, meet, held, agreed>>

(* revokeParticipantAccess *)
UpcomingOf(p) == {m \in Meetings : Upcoming(m) /\ p \in Pair(m)}

(* updateProfile and moderate: any write moves updated_at, so an earlier   *)
(* snapshot is stale; a change of status leaves a new one.                 *)
setAccess(p, status) ==
  LET cancelled == IF status # access[p] /\ status # "ACTIVE" THEN UpcomingOf(p) ELSE {}
  IN
  /\ access[p] # "WITHDRAWN"
  /\ access' = [access EXCEPT ![p] = status]
  /\ transition(cancelled, "CANCELLED")
  /\ undo' = [undo EXCEPT ![p] = IF status = access[p] THEN None
                                 ELSE [before |-> access[p], meetings |-> cancelled]]
  /\ UNCHANGED <<now, config, tables, likes, connected, blocks, agreed>>

(* All the meetings the change cancelled or none. They are restored one by *)
(* one in an order that the database chose: possible in some order exactly *)
(* when their claims do not meet. Back to another status than ACTIVE, the  *)
(* participant loses the meetings made since.                              *)
restoreAccess(p) ==
  LET ms == undo[p].meetings
      rows == [m \in ms |-> Restored(m)]
  IN
  /\ undo[p] # None
  /\ access' = [access EXCEPT ![p] = undo[p].before]
  /\ IF undo[p].before = "ACTIVE"
     THEN /\ \A m \in ms : Restorable(m) /\ \A q \in Pair(m) \ {p} : Eligible(q)
          /\ \E place \in [ms -> Tables \union {None}] :
               /\ \A m \in ms : place[m] \in Allocations(m, rows[m], meet[m].table)
               /\ \A m, k \in ms : m # k =>
                    \A c \in Claims(m, rows[m], place[m]), e \in Claims(k, rows[k], place[k]) :
                       <<c.key, c.q>> # <<e.key, e.q>>
               /\ reserveAll(rows, place)
     ELSE ms = {} /\ transition(UpcomingOf(p), "CANCELLED")
  /\ undo' = [SnapshotsWithout(ms) EXCEPT ![p] = None]
  /\ UNCHANGED <<now, config, tables, likes, connected, blocks, agreed>>

(* Final; the session that asks for it is not read again in the            *)
(* transaction, so any status may precede it.                              *)
withdraw(p) ==
  /\ access[p] # "WITHDRAWN"
  /\ access' = [access EXCEPT ![p] = "WITHDRAWN"]
  /\ transition(UpcomingOf(p), "CANCELLED")
  /\ undo' = [undo EXCEPT ![p] = None]
  /\ UNCHANGED <<now, config, tables, likes, connected, blocks, agreed>>

Tick ==
  /\ now <= LastQuantum
  /\ now' = now + 1
  /\ UNCHANGED <<config, access, undo, tables, likes, connected, blocks, meet, held, agreed>>

-----------------------------------------------------------------------------
Init ==
  /\ now = 0
  /\ config \in Configs
  /\ access = [p \in Profiles |-> "ACTIVE"]
  /\ undo = [p \in Profiles |-> None]
  /\ tables = [t \in Tables |-> "active"]
  /\ likes = {}
  /\ connected = Met
  /\ blocks = {}
  /\ meet = [m \in Meetings |-> None]
  /\ held = {}
  /\ agreed = [m \in Meetings |-> {}]

ParticipantNext ==
  \E p \in Profiles :
    \/ \E q \in Profiles :
         \/ interest(p, q, "LIKE") \/ interest(p, q, "PASS")
         \/ block(p, q) \/ unblock(p, q)
         \/ \E m \in Meetings, s \in 1..LastQuantum : create(m, p, q, s)
    \/ \E m \in Meetings :
         \/ accept(m, p) \/ decline(m, p) \/ cancel(m, p) \/ checkin(m, p)
         \/ \E s \in 1..LastQuantum : reschedule(m, p, s)
    \/ withdraw(p)

OrganizerNext ==
  \/ \E m \in Meetings :
       \/ \E t \in Tables \union {None} : assign(m, t)
       \/ adminCancel(m)
       \/ recordAttendance(m, "COMPLETED") \/ recordAttendance(m, "NO_SHOW")
       \/ restoreNetworkingMeeting(m)
  \/ \E c \in Configs : updateConfig(c)
  \/ \E t \in Tables : saveTable(t, "active") \/ saveTable(t, "inactive") \/ removeTable(t)
  \/ \E p \in Profiles : restoreAccess(p) \/ \E status \in Statuses : setAccess(p, status)

Next == ParticipantNext \/ OrganizerNext \/ expirePending \/ clearOverdueProposals \/ Tick

Spec == Init /\ [][Next]_vars

-----------------------------------------------------------------------------
(* Properties *)

(* What a meeting holds follows from its status, through every allocation, *)
(* transition, restore and expiry: a request holds its requester's slot, a *)
(* meeting accepted by both its participants, both with its table if it    *)
(* has one, for exactly its quanta; a meeting that was cancelled, declined *)
(* or expired holds nothing. Stands are held by representative.            *)
ReservationsFollowStatus ==
  held = UNION {Claims(m, meet[m], meet[m].table) : m \in {k \in Meetings : Is(k, holding)}}

(* No participant is in two accepted meetings at once, no requester has    *)
(* two requests for one slot, and no table or representative is given      *)
(* twice: the claims never meet, although an allocation only reads the     *)
(* reservations of meetings that were not released.                        *)
NoDoubleBooking ==
  \A h, k \in held : h.key = k.key /\ h.q = k.q => h = k

(* A meeting still to come can take place: its table is in use, both       *)
(* participants have access, and an accepted one is in a slot of the       *)
(* current configuration; whatever the organizer changes meanwhile or      *)
(* undoes.                                                                 *)
BookingsStayValid ==
  \A m \in Meetings : Upcoming(m) =>
    /\ meet[m].table # None => tables[meet[m].table] = "active"
    /\ \A p \in Pair(m) : Eligible(p)
    /\ meet[m].status \in accepted =>
         meet[m].start \in networkingSlots(config) /\ meet[m].duration = config.slotDuration

(* No meeting is open between two participants of whom one blocked the     *)
(* other, not even by restoring one that was cancelled before the block.   *)
BlockedNeverMeet ==
  \A m \in Meetings : Upcoming(m) => \A p, q \in Pair(m) : ~Blocked(p, q)

(* An accepted meeting is at a time that both participants proposed or     *)
(* accepted themselves, over counter-proposals, expiries, cancellations    *)
(* and restores.                                                           *)
BothAgreed ==
  \A m \in Meetings : Is(m, accepted) => \A p \in Pair(m) : <<p, meet[m].start>> \in agreed[m]
=============================================================================
