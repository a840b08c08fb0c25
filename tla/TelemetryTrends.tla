-------------------------- MODULE TelemetryTrends ---------------------------
(***************************************************************************)
(* QueryTrends (telemetry/trends.go): the call events since the earliest    *)
(* window are loaded from SQLite, which compares captured_at as text, and   *)
(* counted per window and per bucket.  Times count fractions of a second:   *)
(* a second has Base * Base of them, written as two digits of that base     *)
(* with trailing zeros dropped, as RFC3339Nano does with nine.              *)
(***************************************************************************)
EXTENDS Naturals, FiniteSets, FiniteSetsExt

CONSTANTS Base,     \* of the fraction's digits
          Horizon,  \* bound: times
          Windows   \* the supported windows: a duration and the step of a bucket

ASSUME TrendsAssumption ==
  /\ Base \in Nat /\ Base > 1 /\ Horizon \in Nat
  /\ \A w \in Windows : w.step \in Nat \ {0} /\ w.duration \in 0 .. Horizon

VARIABLES stored,  \* the times of the events in call_events
          trends   \* what the last query asked and answered

trendVars == <<stored, trends>>

Times == 0 .. Horizon
Second(t) == t \div (Base * Base)

\* The text of a time, as a number of the same order: the Z that ends it sorts after any
\* digit and after the point, so a shorter fraction sorts after a longer one it begins.
Text(t) ==
  LET tenths == (t \div Base) % Base
      rest == t % Base
      digits == IF rest # 0 THEN tenths * (Base + 1) + rest
                ELSE IF tenths # 0 THEN tenths * (Base + 1) + Base
                ELSE Base * (Base + 1)
  IN  Second(t) * (Base + 1) * (Base + 1) + digits

StartOf(w, now) == now - w.duration

EarliestStart(windows, now) == Min({StartOf(w, now) : w \in windows})

LoadCallEvents(since) == {t \in stored : Text(t) >= Text(since)}

Align(t, step) == t - (t % step)

\* A mutation: the buckets begin where the window does.
UnalignedBuckets(w, now) == {t \in StartOf(w, now) .. now : t < now /\ (t - StartOf(w, now)) % w.step = 0}

Buckets(w, now) ==
  {t \in Align(StartOf(w, now), w.step) .. now : t < now /\ t % w.step = 0}

InWindow(w, now, events) == {t \in events : StartOf(w, now) <= t /\ t < now}

\* The rows of a window: every event counts for the window, and for its bucket if the
\* window has it.
WindowRow(w, now, events) ==
  LET counted == InWindow(w, now, events) IN
  [window |-> w, calls |-> Cardinality(counted),
   points |-> {[bucket |-> b, calls |-> Cardinality({t \in counted : Align(t, w.step) = b})]
                 : b \in Buckets(w, now)}]

TrendsIdle == [now |-> 0, rows |-> {}]

TrendsInit == stored \in SUBSET Times /\ trends = TrendsIdle

QueryTrends ==
  /\ trends = TrendsIdle
  /\ \E now \in Times, windows \in (SUBSET Windows) \ {{}} :
       /\ \A w \in windows : w.duration <= now
       /\ \E events \in {LoadCallEvents(EarliestStart(windows, now))} :
            trends' = [now |-> now, rows |-> {WindowRow(w, now, events) : w \in windows}]
  /\ UNCHANGED stored

TrendsSpec == TrendsInit /\ [][QueryTrends]_trendVars
-----------------------------------------------------------------------------
\* A window counts the events of its period whatever other windows were asked for, up to
\* those of its first second, where the text of a time does not sort as the time does.
TrendsCountRecent ==
  \A row \in trends.rows :
    LET start == StartOf(row.window, trends.now)
        recent == {t \in stored : Second(start) < Second(t) /\ t < trends.now}
    IN  /\ row.calls >= Cardinality(recent)
        /\ row.calls <= Cardinality(InWindow(row.window, trends.now, stored))

\* One mark for each call that a point counts; no two points share a bucket.
Marks(points) == UNION {{p.bucket} \X (1 .. p.calls) : p \in points}

\* The points of a window add up to its total: no event falls between two buckets.
PointsAddUp == \A row \in trends.rows : row.calls = Cardinality(Marks(row.points))

\* What a query answers is what was recorded.
TrendsHonest == TrendsCountRecent /\ PointsAddUp
=============================================================================
