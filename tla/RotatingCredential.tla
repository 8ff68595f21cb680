------------------------- MODULE RotatingCredential -------------------------
(***************************************************************************)
(* What a stored credential that the issuer rotates has to be, without     *)
(* requests, crashes or the network: it is replaced, as a whole, by a pair *)
(* that has never been stored before, or it is invalidated; no pair comes  *)
(* back.  PartnerTokens implements this module.                            *)
(***************************************************************************)
EXTENDS Integers

CONSTANT MaxGrants  \* bound: how many pairs the issuer hands out

VARIABLES
  pair,   \* the stored pair, 0 before the first one
  valid,  \* may it be handed out
  used    \* the pairs that have been stored

credential == <<pair, valid, used>>

Init == pair = 0 /\ valid = FALSE /\ used = {}

Replace ==
  \E n \in (1..MaxGrants) \ used :
    /\ pair' = n
    /\ valid' = TRUE
    /\ used' = used \cup {n}

Invalidate ==
  /\ valid
  /\ valid' = FALSE
  /\ UNCHANGED <<pair, used>>

Next == Replace \/ Invalidate

Spec == Init /\ [][Next]_credential
=============================================================================
