--------------------------- MODULE MCConversations ---------------------------
(* Model values and bounds for checking Conversations.                      *)
EXTENDS Conversations

CONSTANTS ann, bob, phone, tablet, s1, s2, s3

\* ann is signed in on both devices; s1 and s2 are pressed on the phone for
\* bob, s3 on the tablet for ann herself (the search lists her too).
MCAccountOf == [d \in Devices |-> ann]
MCDeviceOf == [s \in Sends |-> IF s = s3 THEN tablet ELSE phone]
MCOtherOf == [s \in Sends |-> IF s = s3 THEN ann ELSE bob]
=============================================================================
