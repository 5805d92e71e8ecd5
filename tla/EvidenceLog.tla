---------------------------- MODULE EvidenceLog ----------------------------
(***************************************************************************)
(* What the forward log promises a reader, with no stores, ids ranges,     *)
(* transfers or failures: an append-only list of predictions, each about   *)
(* at most one event of its own debounce slot, each event claimed by at    *)
(* most one prediction, and each prediction resolved at most once, against *)
(* the event it is about.                                                  *)
(***************************************************************************)
EXTENDS Integers

CONSTANT NoEvent       \* the link of a prediction that is about no known event

VARIABLES
  events,    \* what happened: rows with an id and a slot, never retracted
  log,       \* the predictions on record
  outcomes   \* their resolutions

vars == <<events, log, outcomes>>

\* A prediction on record is about nothing, or about an event of its slot.
AboutItsSlot(p, known) ==
  p.ev = NoEvent \/ \E e \in known : e.id = p.ev /\ e.slot = p.slot

\* No two entries carry one id, and no two are about one event.
OneEntryEach(entries) ==
  \A p, q \in entries :
    p # q => p.id # q.id /\ (p.ev = NoEvent \/ p.ev # q.ev)

Init == events = {} /\ log = {} /\ outcomes = {}

\* Events become known.
Observe ==
  /\ events \subseteq events'
  /\ UNCHANGED <<log, outcomes>>

\* Predictions are put on record; nothing on record moves.
Record ==
  /\ log \subseteq log'
  /\ \A p \in log' \ log : AboutItsSlot(p, events)
  /\ OneEntryEach(log')
  /\ UNCHANGED <<events, outcomes>>

\* Predictions that were open are resolved, each once and on its own slot.
Resolve ==
  /\ outcomes \subseteq outcomes'
  /\ \A o \in outcomes' \ outcomes :
       /\ \A x \in outcomes : x.pred # o.pred
       /\ \E p \in log : p.id = o.pred /\ p.slot = o.slot /\ p.ev # NoEvent
  /\ UNCHANGED <<events, log>>

Next == Observe \/ Record \/ Resolve

Spec == Init /\ [][Next]_vars
=============================================================================
