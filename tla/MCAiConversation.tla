-------------------------- MODULE MCAiConversation --------------------------
EXTENDS AiConversation, TLC

(* Interchangeable sends and users.                                        *)
Ids == Permutations(Send) \cup Permutations(Owner)
=============================================================================
