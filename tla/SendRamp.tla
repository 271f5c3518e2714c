------------------------------ MODULE SendRamp ------------------------------
(***************************************************************************)
(* The sending ramp (internal/sendramp): the daily recipient allowance     *)
(* that the verified domains of one account share under one registrable    *)
(* domain, the reservations messages take out of it, and the progress the  *)
(* scope earns with volume the provider accepted.                          *)
(*                                                                         *)
(* Reserve, Confirm, Release and Sweep are one transaction each; Reserve   *)
(* holds the scope row, the others the reservation row, and all of them    *)
(* change a counter by one UPDATE.  Their callers are the send worker, its *)
(* retries and the terminal reconciler of module OutboundSend, whose       *)
(* interleavings may call any of them for any message at any time.  Calls  *)
(* that commit no change (an ungated domain, a released or a same-day      *)
(* reservation, an unknown message) are stuttering steps.                  *)
(***************************************************************************)
EXTENDS Integers, FiniteSets, FiniteSetsExt

CONSTANTS
  Messages,
  Domains,      \* verified domains under one registrable domain
  Units,        \* unique recipients of each message
  Schedules,    \* the configurations deployed over time
  MaxDay,       \* bound: the last UTC day
  KeepResv,     \* Sweep: days a settled reservation is kept (7)
  KeepCounter,  \* Sweep: days a counter is kept (35)
  OpenDays      \* days within which the retry horizon (3 days) and the
                \* terminal reconciler settle a reservation

ASSUME MessagesAssumption == IsFiniteSet(Messages)
ASSUME UnitsAssumption == Units \in [Messages -> Nat \ {0}]
ASSUME DaysAssumption == MaxDay \in Nat
ASSUME RetentionAssumption ==
  /\ KeepResv \in Nat /\ KeepCounter \in Nat \ {0} /\ OpenDays \in Nat
  /\ OpenDays + KeepResv <= KeepCounter
ASSUME SchedulesAssumption == Schedules \subseteq [start : Int, target : Int, days : Int]

VARIABLES
  dom,       \* domains.sending_ramp_status
  verified,  \* domains.sending_status = 'verified'
  scope,     \* the sending_ramp_scopes row
  ctr,       \* domain_send_counters, by day; a limit of 0 is an absent row
  resv,      \* sending_ramp_reservations, by message
  gone,      \* purged messages
  today,     \* the UTC day
  orphan,    \* history: units left in a counter by deleted reservations
  corrected  \* history: units confirmed after they had been released

vars == <<dom, verified, scope, ctr, resv, gone, today, orphan, corrected>>

Days == 0..MaxDay
NoCounter == [reserved |-> 0, confirmed |-> 0, limit |-> 0]
NoResv == [state |-> "none", day |-> 0, upd |-> 0]
-----------------------------------------------------------------------------
(* schedule.go *)

MinimumStartDaily == 50

AtLeast(n, floor) == IF n < floor THEN floor ELSE n

NewSchedule(s) ==
  LET start == AtLeast(s.start, MinimumStartDaily)
  IN [start |-> start, target |-> AtLeast(s.target, start), days |-> AtLeast(s.days, 1)]

\* Half of the day's allowance, rounded up, was accepted by the provider.
Qualifies(confirmed, limit) == limit >= MinimumStartDaily /\ confirmed >= (limit + 1) \div 2

\* The allowance of the zero-based qualified day; the target on the last one.
CapForActiveDay(schedule, activeDay) ==
  LET s == NewSchedule(schedule)
  IN CASE activeDay >= s.days - 1 -> s.target
       [] activeDay <= 0          -> s.start
       [] OTHER -> s.start + ((s.target - s.start) * activeDay) \div (s.days - 1)
-----------------------------------------------------------------------------
Init ==
  /\ dom = [d \in Domains |-> "inactive"]
  /\ verified = [d \in Domains |-> TRUE]
  /\ scope = [status |-> "none", activeDays |-> 0, lastQ |-> -1,
              sched |-> [start |-> 0, target |-> 0, days |-> 0]]
  /\ ctr = [day \in Days |-> NoCounter]
  /\ resv = [m \in Messages |-> NoResv]
  /\ gone = {}
  /\ today = 0
  /\ orphan = [day \in Days |-> [reserved |-> 0, confirmed |-> 0]]
  /\ corrected = [day \in Days |-> 0]

Exists(c) == c.limit > 0

\* Capacity given back to the current day instead of the reserved one.
GiveBackToday(counters, day, n) == [counters EXCEPT ![today].reserved = @ - n]

\* UPDATE ... SET reserved_count = reserved_count - n WHERE reserved_count >= n.
GiveBack(counters, day, n) ==
  IF counters[day].reserved >= n
  THEN [counters EXCEPT ![day].reserved = @ - n] ELSE counters

\* The scope row after INSERT ... ON CONFLICT DO NOTHING: the first gated send
\* of any sibling domain fixes the schedule.
ArmedScope(config) ==
  IF scope.status = "none"
  THEN [scope EXCEPT !.status = "ramping", !.sched = NewSchedule(config)] ELSE scope

\* Completion without waiting for the last qualified day to be over.
RampDoneAtOnce(sc, day) == sc.status = "complete" \/ sc.activeDays >= sc.sched.days - 1

\* The scope has completed before, or does with the first send of a new day.
RampDone(sc, day) ==
  \/ sc.status = "complete"
  \/ sc.activeDays >= sc.sched.days /\ sc.lastQ >= 0 /\ sc.lastQ < day

\* A retry that takes its units out of the new day and keeps the old ones.
WithoutPriorKept(m) == ctr

\* The counters once a pending reservation of an earlier day is given back.
WithoutPrior(m) ==
  IF resv[m].state = "reserved" THEN GiveBack(ctr, resv[m].day, Units[m]) ELSE ctr

\* The limit is not looked at when the day already has a counter.
AdmitsAnyway(counters, day, units, cap) == units <= cap

\* The conditional upsert of the day's counter: the limit of an existing row
\* was fixed by the first reservation of that day.
Admits(counters, day, units, cap) ==
  /\ units <= cap
  /\ Exists(counters[day]) => counters[day].reserved + units <= counters[day].limit

Upserted(counters, day, units, cap) ==
  IF Exists(counters[day]) THEN [counters EXCEPT ![day].reserved = @ + units]
  ELSE [counters EXCEPT ![day] = [reserved |-> units, confirmed |-> 0, limit |-> cap]]

\* Reserve, for a gated domain.  `day` was computed before the transaction began
\* and may be yesterday by now; a message has one worker, so its days never go
\* back.  A released reservation is a permanent error and rolls everything back,
\* as does a purged message once the reservation row is inserted.
Reserve(m, d, day, config) ==
  LET sc == ArmedScope(config)
      cap == CapForActiveDay(sc.sched, sc.activeDays)
      held == resv[m].state = "confirmed" \/ (resv[m].state = "reserved" /\ resv[m].day = day)
      free == WithoutPrior(m)
  IN /\ dom[d] \in {"inactive", "ramping"} /\ verified[d]
     /\ resv[m].state = "reserved" => resv[m].day <= day
     /\ \/ /\ RampDone(sc, day)
           /\ scope' = [sc EXCEPT !.status = "complete"]
           /\ dom' = [dom EXCEPT ![d] = "complete"]
           /\ UNCHANGED <<ctr, resv>>
        \/ /\ ~RampDone(sc, day) /\ held
           /\ scope' = sc /\ dom' = [dom EXCEPT ![d] = "ramping"]
           /\ UNCHANGED <<ctr, resv>>
        \/ /\ ~RampDone(sc, day) /\ ~held /\ resv[m].state # "released"
           /\ scope' = sc /\ dom' = [dom EXCEPT ![d] = "ramping"]
           /\ \/ /\ Admits(free, day, Units[m], cap) /\ m \notin gone
                 /\ ctr' = Upserted(free, day, Units[m], cap)
                 /\ resv' = [resv EXCEPT ![m] = [state |-> "reserved", day |-> day, upd |-> today]]
              \/ /\ ~Admits(free, day, Units[m], cap)
                 /\ ctr' = free
                 /\ resv' = [resv EXCEPT ![m] = NoResv]
     /\ UNCHANGED <<verified, gone, today, orphan, corrected>>

\* A correction that forgets the capacity Release gave back.
ConfirmedOnly(c, m) == [c EXCEPT !.confirmed = @ + Units[m]]

\* The counter after Confirm; a corrected release consumes its units again.
Consumed(c, m) ==
  IF resv[m].state = "released"
  THEN [c EXCEPT !.reserved = @ + Units[m], !.confirmed = @ + Units[m]]
  ELSE [c EXCEPT !.confirmed = @ + Units[m]]

\* The scope counts every confirmation past the threshold.
ProgressEachTime(day, c) ==
  IF Qualifies(c.confirmed, c.limit)
  THEN [scope EXCEPT !.activeDays = @ + 1, !.lastQ = day] ELSE scope

\* A day that qualifies is counted once, and never after a later one.
Progress(day, c) ==
  IF Qualifies(c.confirmed, c.limit) /\ scope.lastQ < day
  THEN [scope EXCEPT !.activeDays = @ + 1, !.lastQ = day] ELSE scope

\* Confirm; without a counter row its UPDATE returns no row and it fails.
Confirm(m) ==
  LET day == resv[m].day
      c == Consumed(ctr[day], m)
  IN /\ resv[m].state \in {"reserved", "released"} /\ Exists(ctr[day])
     /\ ctr' = [ctr EXCEPT ![day] = c]
     /\ resv' = [resv EXCEPT ![m].state = "confirmed", ![m].upd = today]
     /\ scope' = Progress(day, c)
     /\ corrected' = IF resv[m].state = "released"
                     THEN [corrected EXCEPT ![day] = @ + Units[m]] ELSE corrected
     /\ UNCHANGED <<dom, verified, gone, today, orphan>>

\* Release, also reached with a status that was stale when Resolve read it.
Release(m) ==
  /\ resv[m].state = "reserved" /\ today - resv[m].day <= OpenDays
  /\ ctr' = GiveBack(ctr, resv[m].day, Units[m])
  /\ resv' = [resv EXCEPT ![m].state = "released", ![m].upd = today]
  /\ UNCHANGED <<dom, verified, scope, gone, today, orphan, corrected>>

\* Exempt: what a worker does instead of Reserve while the ramp is disabled.
Exempt(d) ==
  /\ dom[d] = "inactive" /\ verified[d]
  /\ dom' = [dom EXCEPT ![d] = "exempt"]
  /\ UNCHANGED <<verified, scope, ctr, resv, gone, today, orphan, corrected>>

\* Deleting reservation rows leaves the counters alone.
Deleted(M) ==
  /\ resv' = [m \in Messages |-> IF m \in M THEN NoResv ELSE resv[m]]
  /\ orphan' = [day \in Days |->
       LET U(S) == MapThenSumSet(LAMBDA m : Units[m],
                                 {m \in M : resv[m].day = day /\ resv[m].state \in S})
       IN [reserved  |-> orphan[day].reserved + U({"reserved", "confirmed"}),
           confirmed |-> orphan[day].confirmed + U({"confirmed"})]]

\* Purging a message deletes its reservation (ON DELETE CASCADE).
Purge(m) ==
  /\ m \notin gone
  /\ gone' = gone \cup {m}
  /\ Deleted({m})
  /\ UNCHANGED <<dom, verified, scope, ctr, today, corrected>>

\* A counter kept no longer than a settled reservation.
ExpiredEarly(day) == day < today - KeepResv

Expired(day) ==
  /\ day < today - KeepCounter
  /\ ~\E m \in Messages : resv[m].state = "reserved" /\ resv[m].day = day

\* Sweep: settled reservations first, then the counters nothing is pending on.
Sweep ==
  /\ Deleted({m \in Messages : resv[m].state \in {"confirmed", "released"}
                                 /\ resv[m].upd < today - KeepResv})
  /\ ctr' = [day \in Days |-> IF Expired(day) THEN NoCounter ELSE ctr[day]]
  /\ UNCHANGED <<dom, verified, scope, gone, today, corrected>>

\* The sender identity of a domain is verified, or stops being so.
SetVerified(d) ==
  /\ verified' = [verified EXCEPT ![d] = ~@]
  /\ UNCHANGED <<dom, scope, ctr, resv, gone, today, orphan, corrected>>

NextDay ==
  /\ today < MaxDay
  /\ today' = today + 1
  /\ UNCHANGED <<dom, verified, scope, ctr, resv, gone, orphan, corrected>>

Next ==
  \/ \E m \in Messages, d \in Domains, config \in Schedules, day \in {today - 1, today} \cap Nat :
        Reserve(m, d, day, config)
  \/ \E m \in Messages : Confirm(m) \/ Release(m) \/ Purge(m)
  \/ \E d \in Domains : Exempt(d) \/ SetVerified(d)
  \/ Sweep \/ NextDay

Spec == Init /\ [][Next]_vars
-----------------------------------------------------------------------------
(* Properties.                                                             *)

\* Types; the schedule a scope has stored is one NewSchedule could produce, so
\* Reserve's "invalid persisted schedule" is never returned.
TypeOK ==
  /\ dom \in [Domains -> {"inactive", "ramping", "complete", "exempt"}]
  /\ verified \in [Domains -> BOOLEAN]
  /\ scope.status \in {"none", "ramping", "complete"} /\ scope.activeDays \in Nat
  /\ scope.lastQ \in Days \cup {-1}
  /\ scope.status # "none" => NewSchedule(scope.sched) = scope.sched
  /\ ctr \in [Days -> [reserved : Nat, confirmed : Nat, limit : Nat]]
  /\ resv \in [Messages -> [state : {"none", "reserved", "confirmed", "released"},
                            day : Days, upd : Days]]
  /\ gone \subseteq Messages /\ today \in Days
  /\ orphan \in [Days -> [reserved : Nat, confirmed : Nat]] /\ corrected \in [Days -> Nat]

HeldUnits(day, states) ==
  MapThenSumSet(LAMBDA m : Units[m], {m \in Messages : resv[m].day = day /\ resv[m].state \in states})

\* The counters are exact: whatever order retries, releases, late corrections,
\* purges and sweeps come in, a counter holds the units of the reservations
\* pending or confirmed for its day plus those whose row was deleted, so the
\* table's CHECK confirmed_count <= reserved_count can never fail a Confirm.
CountersAccount ==
  \A day \in Days : Exists(ctr[day]) =>
     /\ ctr[day].reserved = HeldUnits(day, {"reserved", "confirmed"}) + orphan[day].reserved
     /\ ctr[day].confirmed = HeldUnits(day, {"confirmed"}) + orphan[day].confirmed
     /\ ctr[day].confirmed <= ctr[day].reserved

\* No day goes over its allowance except by sends that were released as failed
\* and turned out to have been accepted (the 'released' arm of Confirm).
OverrunOnlyByCorrection ==
  \A day \in Days : Exists(ctr[day]) => ctr[day].reserved <= ctr[day].limit + corrected[day]

\* Progress is earned day by day: every active day is a different day whose
\* accepted volume qualified (or whose counter has been swept since), and no day
\* was ever given more than the progress so far entitles to.
ProgressIsEarned ==
  /\ scope.activeDays <= Cardinality({day \in 0..scope.lastQ :
        ~Exists(ctr[day]) \/ Qualifies(ctr[day].confirmed, ctr[day].limit)})
  /\ \A day \in Days : ctr[day].limit <= CapForActiveDay(scope.sched, scope.activeDays)

\* A domain leaves the ramp only when its scope completed it, and the scope only
\* after ramp_days qualified days; siblings then follow at their next send.
CompletionIsEarned ==
  /\ \A d \in Domains : dom[d] = "complete" => scope.status = "complete"
  /\ scope.status = "complete" => scope.activeDays >= scope.sched.days

\* A reservation that can still be confirmed always has its counter: otherwise
\* Confirm would fail for good, and with it the reconciler pass that retries it.
CounterOutlivesReservation ==
  \A m \in Messages :
     resv[m].state \in {"reserved", "released"} => Exists(ctr[resv[m].day])
=============================================================================
