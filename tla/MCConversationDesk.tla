------------------------- MODULE MCConversationDesk -------------------------
(* ConversationDesk for TLC. *)
EXTENDS ConversationDesk, TLC

\* Messages and conversations are interchangeable; copies and kinds are not.
Symmetry == Permutations(Msgs) \cup Permutations(Convs)
=============================================================================
