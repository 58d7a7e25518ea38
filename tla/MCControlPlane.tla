---------------------------- MODULE MCControlPlane ----------------------------
(***************************************************************************)
(* Instances of ControlPlane for TLC.                                      *)
(***************************************************************************)
EXTENDS ControlPlane

CONSTANTS o1, o2, r1, alice, unwinding

TwoOperators == {o1, o2}
OneRefresher == {r1}
OneActor == {alice}
OneReason == {unwinding}

\* Not positive, allowed, and longer than the longest.
AskedDurations == {0, 1, 2}

\* A positive cap, one that clears it, and a float that cannot be written.
AskedCaps == {5, 0, NonFinite}
OneCap == {5}

\* The expiry, without which a flag must read as armed.
CorruptExpiry == {<<"expires_at", Damaged>>}

===============================================================================
