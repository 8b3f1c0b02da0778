------------------------------ MODULE MCMailbox ------------------------------
(* Instances of MailboxDispatcher for TLC. *)
EXTENDS MailboxDispatcher

CONSTANTS m1, m2, t1, p1, p2

MCTimes == 0 .. (MaxClock + LeaseDuration + RetryDelay)
OneThread == [m \in Messages |-> t1]
AllResume == [m \in Messages |-> "resume"]
ManualThenResume ==
    [m \in Messages |-> IF m = m1 THEN "manual" ELSE "resume"]
Rising == [m \in Messages |-> IF m = m1 THEN 0 ELSE 1]
Two == [m \in Messages |-> 2]
Now == {[next |-> 0, expires |-> NULL]}
NowOrExpiring == {[next |-> 0, expires |-> NULL], [next |-> 0, expires |-> 2]}
NotLoaded == {}

==============================================================================
