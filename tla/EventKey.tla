------------------------------- MODULE EventKey -------------------------------
(***************************************************************************)
(* The keys by which the event lists of src/ns-3.16/src/core order the     *)
(* events: Scheduler::EventKey, without the context, which has no part in  *)
(* the order.                                                              *)
(***************************************************************************)
EXTENDS Integers

CONSTANTS
  MaxTime,    \* times of events (a bound)
  MaxUid,     \* events ever scheduled (a bound)
  Capacity    \* events in the list at a time (a bound)

ASSUME KeyAssumption == MaxTime \in Nat /\ MaxUid \in Nat /\ Capacity \in Nat

Key == [ts : 0 .. MaxTime, uid : Nat]

\* operator <
Less(e, f) == e.ts < f.ts \/ (e.ts = f.ts /\ e.uid < f.uid)

\* The current event before the first: the time is 0 and m_currentUid 0.
NoEvent == [ts |-> 0, uid |-> 0]
===============================================================================
