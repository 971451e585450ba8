------------------------------ MODULE MCPortal ------------------------------
(* A chat of the user and two others, one of them known by a mail address. *)
EXTENDS Portal

CONSTANTS u1, mail, me, m1, m2

\* What changes together: members, the name, the avatar, each with the messages
\* that have the room made, and messages with their reactions.
MCTopics == {{"message", "member"}, {"message", "name"}, {"message", "avatar"}, {"message", "tapback"}}

\* Messages are alike.
MessageSymmetry == Permutations({m1, m2})
=============================================================================
