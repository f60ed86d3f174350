----------------------------- MODULE MCProfiles -----------------------------
(* TLC instances of Profiles: two radios with one short name each at first,*)
(* spelt differently; a blank name that a radio may have had set elsewhere.*)
EXTENDS Profiles, TLC

CONSTANTS ra, rb, t1, t2, spaces, poly, POLY, soho

MCRadios == {ra, rb}
MCSpellings == {poly, POLY, soho, spaces}
MCCanonical ==
  (poly :> "POLY") @@ (POLY :> "POLY") @@ (soho :> "SOHO") @@ (spaces :> Blank)
MCFirstName == (ra :> poly) @@ (rb :> soho)
MCTexts == {t1, t2}
MCHeardBy == (t1 :> ra) @@ (t2 :> ra)
TextSymmetry == Permutations(MCTexts)
=============================================================================
