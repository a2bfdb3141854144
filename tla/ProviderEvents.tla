--------------------------- MODULE ProviderEvents ---------------------------
(***************************************************************************)
(* Security events of the identity provider, for one account subject.  The *)
(* provider delivers an event any number of times, in any order, and the   *)
(* deliveries are processed concurrently (processProviderEvent): the event *)
(* row is inserted first, which claims the event; its effect -- one bump of*)
(* the subject's epoch, with the ordering watermark -- follows in a        *)
(* compare-and-swap on the authority row; the row is corrected when the    *)
(* effect was refused.  casAuthority's loop re-decides on the row that its *)
(* swap compares with, so a decision and its write are one step here.      *)
(***************************************************************************)
EXTENDS Integers, FiniteSets

CONSTANTS
    Events,      \* provider_event_id of one issuer
    Cursor,      \* the ordering cursor of each event, 0 for none
    Foreign,     \* events of another environment, or of no known binding
    Ahead,       \* events whose provider time may be beyond the skew allowed
    Deliveries,  \* deliveries being processed at one time
    NoEvent,
    MaxEnded     \* bound: deliveries that end early

ASSUME EventsAssumption ==
    /\ NoEvent \notin Events
    /\ Cursor \in [Events -> Nat]
    /\ Foreign \subseteq Events /\ Ahead \subseteq Events
    /\ MaxEnded \in Nat

VARIABLES
    authority,  \* account_subject_authority of the subject: epoch, watermark
    row,        \* provider_security_event: the processing state of each event
    delivery,   \* processProviderEvent calls
    effected,   \* history: the events whose bump was committed
    ended       \* deliveries that ended early so far

eventVars == <<authority, row, delivery, effected, ended>>

ProcessingStates == {"none", "applied", "applied_pending_reconciliation", "superseded",
                     "rejected"}
NoDelivery == [pc |-> "idle", event |-> NoEvent, decided |-> "none"]

EventsInit ==
    /\ authority = [epoch |-> 1, cursor |-> 0]
    /\ row = [e \in Events |-> "none"]
    /\ delivery = [d \in Deliveries |-> NoDelivery]
    /\ effected = {}
    /\ ended = 0

\* Has the subject seen a cursor as late as the event's?
Overtaken(e, watermark) == Cursor[e] # 0 /\ Cursor[e] <= watermark

Latest(a, b) == IF a >= b THEN a ELSE b

\* The decision before the insert: rejected, superseded by a watermark already
\* seen, quarantined for a clock too far ahead, or applied.
Observe(d, e, skewed) ==
    /\ delivery[d].pc = "idle"
    /\ skewed => e \in Ahead
    /\ delivery' = [delivery EXCEPT ![d] =
          [pc |-> "observed", event |-> e,
           decided |-> IF e \in Foreign THEN "rejected"
                       ELSE IF Overtaken(e, authority.cursor) THEN "superseded"
                       ELSE IF skewed THEN "applied_pending_reconciliation"
                       ELSE "applied"]]
    /\ UNCHANGED <<authority, row, effected, ended>>

\* insertProviderEvent: the first insert of the key claims the event; another
\* delivery reads the row it finds and does nothing more.
ClaimEvent(d) ==
    /\ delivery[d].pc = "observed"
    /\ IF row[delivery[d].event] = "none"
       THEN /\ row' = [row EXCEPT ![delivery[d].event] = delivery[d].decided]
            /\ delivery' = [delivery EXCEPT ![d] =
                  IF delivery[d].decided \in {"rejected", "superseded"} THEN NoDelivery
                  ELSE [delivery[d] EXCEPT !.pc = "inserted"]]
       ELSE /\ delivery' = [delivery EXCEPT ![d] = NoDelivery]
            /\ UNCHANGED row
    /\ UNCHANGED <<authority, effected, ended>>

\* The effect: bump and watermark, or neither.
Bump(d) ==
    LET e == delivery[d].event
    IN  /\ authority' = [epoch  |-> authority.epoch + 1,
                         cursor |-> Latest(authority.cursor, Cursor[e])]
        /\ effected' = effected \cup {e}
        /\ delivery' = [delivery EXCEPT ![d] = NoDelivery]

\* Faulty: the watermark observed before the insert is trusted.
ApplyEffectUnchecked(d) ==
    /\ delivery[d].pc = "inserted"
    /\ Bump(d)
    /\ UNCHANGED <<row, ended>>

\* applyProviderEffect, deciding again on the current watermark.
ApplyEffect(d) ==
    /\ delivery[d].pc = "inserted"
    /\ IF Overtaken(delivery[d].event, authority.cursor)
       THEN /\ delivery' = [delivery EXCEPT ![d].pc = "lost"]
            /\ UNCHANGED <<authority, effected>>
       ELSE Bump(d)
    /\ UNCHANGED <<row, ended>>

\* Faulty: the row keeps the decision taken before the insert.
CorrectRowNever(d) ==
    /\ delivery[d].pc = "lost"
    /\ delivery' = [delivery EXCEPT ![d] = NoDelivery]
    /\ UNCHANGED <<authority, row, effected, ended>>

\* correctProviderEventToSuperseded: an update of a row that is "applied".
CorrectRow(d) ==
    /\ delivery[d].pc = "lost"
    /\ LET e == delivery[d].event
       IN  row' = IF row[e] = "applied" THEN [row EXCEPT ![e] = "superseded"] ELSE row
    /\ delivery' = [delivery EXCEPT ![d] = NoDelivery]
    /\ UNCHANGED <<authority, effected, ended>>

\* reconcileProviderEvent, called by nobody yet.
ReconcileEvent(e) ==
    /\ row[e] = "applied_pending_reconciliation"
    /\ row' = [row EXCEPT ![e] = "applied"]
    /\ UNCHANGED <<authority, delivery, effected, ended>>

\* The process dies, or casAuthority gives up after MAX_CAS_ATTEMPTS.
DeliveryStops(d) ==
    /\ delivery[d].pc # "idle"
    /\ ended < MaxEnded
    /\ ended' = ended + 1
    /\ delivery' = [delivery EXCEPT ![d] = NoDelivery]
    /\ UNCHANGED <<authority, row, effected>>

DeliveryStep(d) == ClaimEvent(d) \/ ApplyEffect(d) \/ CorrectRow(d)

EventsStep ==
    \/ \E d \in Deliveries :
          \/ \E e \in Events, skewed \in BOOLEAN : Observe(d, e, skewed)
          \/ DeliveryStep(d)
          \/ DeliveryStops(d)
    \/ \E e \in Events : ReconcileEvent(e)

EventsSpec == EventsInit /\ [][EventsStep]_eventVars

-----------------------------------------------------------------------------
(***************************************************************************)
(* Properties.                                                             *)
(***************************************************************************)
\* Every variable has its shape.
EventsTypeOK ==
    /\ authority \in [epoch : Nat, cursor : Nat]
    /\ row \in [Events -> ProcessingStates]
    /\ delivery \in [Deliveries -> [pc : {"idle", "observed", "inserted", "lost"},
                                    event : Events \cup {NoEvent}, decided : ProcessingStates]]
    /\ effected \subseteq Events
    /\ ended \in Nat

InProgress(e) == \E d \in Deliveries : delivery[d].event = e /\ delivery[d].pc \in {"inserted", "lost"}

\* The watermark is the latest cursor among the events that took effect, and an
\* event takes effect only ahead of it: cursors never take effect out of order.
EffectsInCursorOrder ==
    [][\A e \in effected' \ effected :
         Cursor[e] # 0 => \A f \in effected : Cursor[f] < Cursor[e]]_eventVars

\* "Exactly one effect" (provider-events.ts step 1): the epoch counts each event
\* once, however many deliveries of it were processed together, and its row
\* tells which: one that says "rejected" or "superseded" stands for no bump; and
\* once no delivery works on it, one that says "applied" stands for one, unless
\* its event could be quarantined or a delivery was cut short.
RowsTellTheirEffect ==
    /\ authority.epoch = 1 + Cardinality(effected)
    /\ \A e \in Events :
          /\ row[e] \in {"none", "rejected", "superseded"} => e \notin effected
          /\ row[e] = "applied" /\ ~InProgress(e) /\ e \notin effected
                => e \in Ahead \/ ended > 0

\* The row of an event that lost the race to a later cursor "is corrected to
\* superseded" (provider-events.ts): no row ends as applied, or as waiting to
\* be, without its bump.
AppliedMeansEffected ==
    \A e \in Events :
        row[e] \in {"applied", "applied_pending_reconciliation"} /\ ~InProgress(e)
            => e \in effected
=============================================================================
