------------------------------ MODULE RateLimit ------------------------------
(***************************************************************************)
(* The in-process counter of a surface: sliding windows with a burst, one  *)
(* unit in flight, units reserved for the two stages of a bootstrap        *)
(* ceremony and their refund, and the rotation of the secret its counting  *)
(* keys are derived with.  One call of the counter is one step: it runs    *)
(* to its end without an await.                                            *)
(*                                                                         *)
(* One actor or ceremony is counted under each record, and the records     *)
(* share one window and one quota.                                         *)
(***************************************************************************)
EXTENDS Naturals, FiniteSets

CONSTANTS
    Units,          \* admitted requests; an entry of the counter is its unit
    Records,        \* parameter records
    Bootstrap,      \* the records whose unit is a stage of a bootstrap ceremony
    Exclusive,      \* the records with the dimension concurrency=1
    Buckets,        \* identities of buckets
    Nil,
    Window, Threshold, Burst, RefillUnits, RefillInterval,      \* of every record
    Overlap,        \* how long a rotated secret is still derived with
    MaxInstant,     \* bound on the clock
    MaxRotations    \* bound on the rotations

ASSUME RateLimitAssumption ==
    /\ Bootstrap \subseteq Records /\ Exclusive \subseteq Records
    /\ Nil \notin Units \cup Buckets \cup Records
    /\ {Window, Threshold, RefillUnits, RefillInterval} \subseteq Nat \ {0}
    /\ {Burst, MaxInstant, MaxRotations} \subseteq Nat
    /\ Overlap \in Nat /\ Overlap >= Window
    /\ Burst * RefillInterval <= Overlap * RefillUnits
    /\ Threshold + Burst >= 3

VARIABLES
    buckets,        \* the counters, once made
    alias,          \* the bucket each derived key of a record leads to
    units,          \* what became of each unit
    secret,         \* number of the current secret, and until when the previous one counts
    instant         \* the monotonic clock

limitVars == <<buckets, alias, units, secret, instant>>

Ceiling == Threshold + Burst
Reserved == {"first_sign_in", "initial_space_create"}
Stages == Reserved \cup {"ordinary"}

NoUnit == [phase |-> "new", record |-> Nil, stage |-> Nil, at |-> 0, bucket |-> Nil, refunded |-> FALSE]

Unmade == [made |-> FALSE, accepted |-> {}, ordinary |-> {}, reservations |-> [s \in Reserved |-> Nil],
           tokens |-> 0, refillAt |-> 0, inFlight |-> {}]

LimitInit ==
    /\ buckets = [b \in Buckets |-> Unmade]
    /\ alias = [r \in Records |-> [k \in 0 .. MaxRotations |-> Nil]]
    /\ units = [u \in Units |-> NoUnit]
    /\ secret = [current |-> 0, until |-> 0]
    /\ instant = 0

-----------------------------------------------------------------------------
(* Consuming a unit.                                                       *)

\* Faulty: only the current secret derives a key.
DerivedCurrentOnly == {secret.current}

\* The secrets a key is derived with now.
Derived ==
    {secret.current} \cup {k \in {secret.current - 1} : secret.current > 0 /\ instant < secret.until}

Found(r) == {alias[r][k] : k \in Derived} \ {Nil}

InWindow(at) == at + Window > instant

Lesser(a, b) == IF a < b THEN a ELSE b

\* Faulty: the burst refills past its size.
RefreshedUncapped(b) ==
    LET intervals == (instant - b.refillAt) \div RefillInterval IN
    [b EXCEPT !.accepted = {u \in @ : InWindow(units[u].at)},
              !.ordinary = {u \in @ : InWindow(units[u].at)},
              !.reservations = [s \in Reserved |-> IF @[s] # Nil /\ ~ InWindow(units[@[s]].at) THEN Nil ELSE @[s]],
              !.tokens = @ + intervals * RefillUnits,
              !.refillAt = @ + intervals * RefillInterval]

\* The bucket as every consumption first leaves it, refused ones included.
Refreshed(b) ==
    LET intervals == (instant - b.refillAt) \div RefillInterval IN
    [b EXCEPT !.accepted = {u \in @ : InWindow(units[u].at)},
              !.ordinary = {u \in @ : InWindow(units[u].at)},
              !.reservations = [s \in Reserved |-> IF @[s] # Nil /\ ~ InWindow(units[@[s]].at) THEN Nil ELSE @[s]],
              !.tokens = Lesser(Burst, @ + intervals * RefillUnits),
              !.refillAt = @ + intervals * RefillInterval]

Fresh == [Unmade EXCEPT !.made = TRUE, !.tokens = Burst, !.refillAt = instant]

Refused(b, r, s) ==
    \/ Cardinality(b.accepted) >= Ceiling
    \/ r \in Exclusive /\ b.inFlight # {}
    \/ /\ r \in Bootstrap
       /\ IF s = "ordinary" THEN Cardinality(b.ordinary) >= Ceiling - 2 ELSE b.reservations[s] # Nil
    \/ r \notin Bootstrap /\ Cardinality(b.accepted) >= Threshold /\ b.tokens < 1

Charged(b, u, r, s) ==
    [b EXCEPT !.accepted = @ \cup {u}, !.inFlight = @ \cup {u},
              !.ordinary = IF r \in Bootstrap /\ s = "ordinary" THEN @ \cup {u} ELSE @,
              !.reservations = IF r \in Bootstrap /\ s # "ordinary" THEN [@ EXCEPT ![s] = u] ELSE @,
              !.tokens = IF r \notin Bootstrap /\ Cardinality(b.accepted) >= Threshold THEN @ - 1 ELSE @]

\* Keys that lead to two histories would be refused: WindowCeiling has that it never happens.
Consume(u, r, s, id) ==
    LET b == IF buckets[id].made THEN Refreshed(buckets[id]) ELSE Fresh
        refused == Refused(b, r, s)
    IN  /\ units[u].phase = "new"
        /\ s # "ordinary" => r \in Bootstrap
        /\ IF Found(r) = {} THEN ~ buckets[id].made ELSE Found(r) = {id}
        /\ alias' = [alias EXCEPT ![r] = [k \in 0 .. MaxRotations |-> IF k \in Derived THEN id ELSE @[k]]]
        /\ buckets' = [buckets EXCEPT ![id] = IF refused THEN b ELSE Charged(b, u, r, s)]
        /\ units' = IF refused THEN units
                    ELSE [units EXCEPT ![u] = [NoUnit EXCEPT !.phase = "held", !.record = r, !.stage = s,
                                                             !.at = instant, !.bucket = id]]
        /\ UNCHANGED <<secret, instant>>

-----------------------------------------------------------------------------
(* The lease's end, the refund, the secret and the clock.                  *)

Freed(b, u) == [b EXCEPT !.inFlight = @ \ {u}]

\* The response was sent.
Release(u) ==
    /\ units[u].phase = "held"
    /\ units' = [units EXCEPT ![u] = [@ EXCEPT !.phase = "released"]]
    /\ buckets' = [buckets EXCEPT ![units[u].bucket] = Freed(@, u)]
    /\ UNCHANGED <<alias, secret, instant>>

\* Faulty: whoever holds the stage's reservation loses it.
OwnReservationOfStage(u) == buckets[units[u].bucket].reservations[units[u].stage] # Nil

\* The reservation of the unit's stage is the one this unit placed.
OwnReservation(u) ==
    LET holder == buckets[units[u].bucket].reservations[units[u].stage]
    IN  holder # Nil /\ units[holder].at = units[u].at

\* Faulty: the window's count keeps the refunded unit.
ReturnedReservationOnly(b, u) == [b EXCEPT !.reservations = [@ EXCEPT ![units[u].stage] = Nil]]

Returned(b, u) ==
    [b EXCEPT !.reservations = [@ EXCEPT ![units[u].stage] = Nil], !.accepted = @ \ {u}]

\* The effect of a reserved unit was denied, before its response.
Refund(u) ==
    /\ units[u].phase = "held" /\ ~ units[u].refunded
    /\ units[u].stage \in Reserved
    /\ OwnReservation(u)
    /\ buckets' = [buckets EXCEPT ![units[u].bucket] = Returned(@, u)]
    /\ units' = [units EXCEPT ![u] = [@ EXCEPT !.refunded = TRUE]]
    /\ UNCHANGED <<alias, secret, instant>>

Rotate ==
    /\ secret.current < MaxRotations
    /\ instant >= secret.until
    /\ secret' = [current |-> secret.current + 1, until |-> instant + Overlap]
    /\ UNCHANGED <<buckets, alias, units, instant>>

Pass ==
    /\ instant < MaxInstant
    /\ instant' = instant + 1
    /\ UNCHANGED <<buckets, alias, units, secret>>

LimitStep ==
    \/ \E u \in Units :
          \/ \E r \in Records, s \in Stages, id \in Buckets : Consume(u, r, s, id)
          \/ Release(u)
          \/ Refund(u)
    \/ Rotate
    \/ Pass

LimitSpec == LimitInit /\ [][LimitStep]_limitVars

-----------------------------------------------------------------------------
(* Properties.                                                             *)

LimitTypeOK ==
    /\ buckets \in [Buckets ->
          [made : BOOLEAN, accepted : SUBSET Units, ordinary : SUBSET Units,
           reservations : [Reserved -> Units \cup {Nil}], tokens : 0 .. Burst, refillAt : Nat,
           inFlight : SUBSET Units]]
    /\ alias \in [Records -> [0 .. MaxRotations -> Buckets \cup {Nil}]]
    /\ units \in [Units -> [phase : {"new", "held", "released"}, record : Records \cup {Nil},
                            stage : Stages \cup {Nil}, at : 0 .. MaxInstant,
                            bucket : Buckets \cup {Nil}, refunded : BOOLEAN]]
    /\ secret \in [current : 0 .. MaxRotations, until : Nat]
    /\ instant \in 0 .. MaxInstant

\* The units of a record that were admitted, and not returned, in the window
\* that ends at t.
Spent(r, t) ==
    {u \in Units : /\ units[u].record = r /\ ~ units[u].refunded
                   /\ units[u].at <= t /\ t < units[u].at + Window}

\* No window, wherever it starts, admits more than the ceiling: neither a
\* refund, nor the end of an earlier window, nor a rotation of the secret
\* makes the counter forget a unit, and no rotation leads to two histories.
WindowCeiling ==
    /\ \A r \in Records, t \in 0 .. MaxInstant : Cardinality(Spent(r, t)) <= Ceiling
    /\ \A r \in Records : Cardinality(Found(r)) <= 1

\* A ceremony's ordinary traffic never takes the units of its two completion
\* stages: each is admitted once in a window, and is admitted whenever it was
\* not, or was returned, in the window.
ReservedUnits ==
    \A r \in Bootstrap, s \in Reserved :
        LET taken(t) == {u \in Spent(r, t) : units[u].stage = s}
        IN  /\ \A t \in 0 .. MaxInstant : Cardinality(taken(t)) <= 1
            /\ taken(instant) = {} /\ r \notin Exclusive
                  => \A id \in Found(r) : ~ Refused(Refreshed(buckets[id]), r, s)
=============================================================================
