----------------------------- MODULE MCSharing -----------------------------
(***************************************************************************)
(* One song of the user, whose tags are edited, and one name under which   *)
(* peers send a song, or what they say is one, whose title is also the     *)
(* user's new one.                                                         *)
(***************************************************************************)
EXTENDS Sharing

CONSTANTS w1, w2, own1, own2, sent1, torn, tOwn, tSent

MCFiles == {1, 2, 3, 4}
MCAudioFiles == {1, 2}
MCContents == {own1, own2, sent1, torn}
MCTitleOf ==
  [c \in MCContents |-> IF c = own1 THEN tOwn ELSE tSent]
MCUserVersions == [f \in MCFiles |-> IF f = 1 THEN {own1, own2} ELSE {}]
MCVersions == [n \in {2} |-> {sent1}]
=============================================================================
