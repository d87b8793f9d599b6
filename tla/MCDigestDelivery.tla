-------------------------- MODULE MCDigestDelivery --------------------------
(* DigestDelivery for TLC. *)
EXTENDS DigestDelivery, TLC

(* Messages, runs and chats are interchangeable. *)
Interchangeable == Permutations(Emails) \cup Permutations(Runs) \cup Permutations(Chats)
=============================================================================
