---------------------------- MODULE AtomicVolume ----------------------------
(***************************************************************************)
(* What a volume promises whatever is interrupted: its contents are always *)
(* one whole version, and the only other thing that can ever be found is   *)
(* the version being published.  A publication takes effect whole or not   *)
(* at all, once.                                                           *)
(***************************************************************************)
EXTENDS Naturals

CONSTANTS Nothing,  \* no publication is open
          Firsts    \* the versions a volume may start with

VARIABLES current,  \* the version the volume holds
          attempt   \* the version that may replace it

atomicVars == <<current, attempt>>

Init == current \in Firsts /\ attempt = Nothing

Propose ==
    /\ attempt = Nothing
    /\ UNCHANGED current
    /\ attempt' # Nothing
    /\ attempt'.sequence = current.sequence + 1

Settle ==
    /\ attempt # Nothing
    /\ current' = attempt
    /\ attempt' = Nothing

Abandon ==
    /\ attempt # Nothing
    /\ UNCHANGED current
    /\ attempt' = Nothing

Next == Propose \/ Settle \/ Abandon

Spec == Init /\ [][Next]_atomicVars
=============================================================================
