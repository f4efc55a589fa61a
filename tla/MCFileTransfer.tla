--------------------------- MODULE MCFileTransfer ---------------------------
(* Instances of FileTransfer for TLC: which calls the users make. *)
EXTENDS FileTransfer

Accept == {<<"receiver", "accept">>}
AcceptOrDecline == Accept \cup {<<"receiver", "decline">>}
Decisions == AcceptOrDecline \cup {<<d, "cancel">> : d \in Device}
Texts == {<<"receiver", "text">>, <<"receiver", "peerText">>, <<"sender", "peerText">>}
AcceptCancelTexts ==
    Accept \cup {<<"receiver", "cancel">>} \cup {<<d, "peerText">> : d \in Device}
AnswersAndTexts == AcceptOrDecline \cup Texts
=============================================================================
