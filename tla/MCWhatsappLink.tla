--------------------------- MODULE MCWhatsappLink ---------------------------
(* WhatsappLink for TLC. *)
EXTENDS WhatsappLink, TLC

\* Neither socket ids nor requests have an order.
Symmetry == Permutations(Sockets) \cup Permutations(Admins)
=============================================================================
