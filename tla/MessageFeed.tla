----------------------------- MODULE MessageFeed -----------------------------
(***************************************************************************)
(* What the read side of the bridge promises to Matrix, without passes,    *)
(* watermarks or channels: a message is announced as new before anything   *)
(* else of it is reported, hence once; what is reported of it did happen,  *)
(* and never goes back to an older version.  A version may be reported     *)
(* again, and one that is overtaken by a newer one may be left out.        *)
(***************************************************************************)
EXTENDS Integers

CONSTANT Rows

VARIABLES
    stamp,     \* the newest change of each message
    shown,     \* the newest change of each message that was reported
    newCount   \* how often each message was announced as new

feedVars == <<stamp, shown, newCount>>

Init ==
    /\ stamp = [r \in Rows |-> 0]
    /\ shown = [r \in Rows |-> 0]
    /\ newCount = [r \in Rows |-> 0]

\* The Messages app writes or changes a message.
Happen(r) ==
    /\ stamp' = [stamp EXCEPT ![r] = stamp'[r]]
    /\ stamp'[r] \in Nat /\ stamp[r] <= stamp'[r]
    /\ UNCHANGED <<shown, newCount>>

Announce(r) ==
    /\ shown[r] = 0
    /\ \E t \in 1 .. stamp[r] : shown' = [shown EXCEPT ![r] = t]
    /\ newCount' = [newCount EXCEPT ![r] = @ + 1]
    /\ UNCHANGED stamp

Update(r) ==
    /\ \E t \in 1 .. stamp[r] : shown[r] <= t /\ shown' = [shown EXCEPT ![r] = t]
    /\ UNCHANGED <<stamp, newCount>>

Next == \E r \in Rows : Happen(r) \/ Announce(r) \/ Update(r)

Spec == Init /\ [][Next]_feedVars
=============================================================================
