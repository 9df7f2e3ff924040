---------------------------- MODULE AttemptLedger -----------------------------
(***************************************************************************)
(* What the runtime store promises about provider calls, without processes *)
(* or rows: a lane is claimed by one call at a time, is settled at most    *)
(* once, and settling the answer of a trigger puts that answer directly    *)
(* behind the trigger, in a thread nothing else was added to.              *)
(***************************************************************************)
EXTENDS Naturals, Sequences

CONSTANTS
  Conversation,
  Lane,          \* <<kind, anchor>>; the anchor of an answer is <<c, t>>
  NoLane         \* the lane of a message no call wrote

VARIABLES
  history,  \* messages of each conversation, with the lane that wrote them
  claimed,  \* lanes whose call is in flight
  settled   \* lanes with an authoritative result

ledgerVars == <<history, claimed, settled>>

Init ==
  /\ history = [c \in Conversation |-> << >>]
  /\ claimed = {} /\ settled = {}

Say(c, role) ==
  /\ history' = [history EXCEPT ![c] = Append(@, [role |-> role, lane |-> NoLane])]
  /\ UNCHANGED <<claimed, settled>>

Claim(lane) ==
  /\ lane \notin claimed \cup settled
  /\ claimed' = claimed \cup {lane}
  /\ UNCHANGED <<history, settled>>

(* The call failed: the lane is open again.                                *)
Release(lane) ==
  /\ lane \in claimed
  /\ claimed' = claimed \ {lane}
  /\ UNCHANGED <<history, settled>>

Settle(lane) ==
  /\ lane \in claimed /\ lane[1] # "synthesis"
  /\ claimed' = claimed \ {lane} /\ settled' = settled \cup {lane}
  /\ UNCHANGED history

Answer(c, t) ==
  LET lane == <<"synthesis", <<c, t>>>>
  IN  /\ lane \in claimed
      /\ Len(history[c]) = t /\ history[c][t].role = "user"
      /\ claimed' = claimed \ {lane} /\ settled' = settled \cup {lane}
      /\ history' = [history EXCEPT ![c] = Append(@, [role |-> "synthesis", lane |-> lane])]

Next ==
  \/ \E c \in Conversation, role \in {"user", "synthesis"} : Say(c, role)
  \/ \E lane \in Lane : Claim(lane) \/ Release(lane) \/ Settle(lane)
  \/ \E c \in Conversation : \E t \in 1 .. Len(history[c]) : Answer(c, t)

Spec == Init /\ [][Next]_ledgerVars
===============================================================================
