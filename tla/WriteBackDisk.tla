--------------------------- MODULE WriteBackDisk ----------------------------
(***************************************************************************)
(* The disk under a file volume: sectors behind a write-back cache.  Reads *)
(* see `cache'; `media' has, for each sector, the contents it may be found *)
(* with after a loss of power.  A flush leaves one choice per sector.      *)
(***************************************************************************)
EXTENDS FiniteSetsExt

CONSTANTS Sectors,  \* the sectors
          Torn      \* what a write cut by a power loss leaves

VARIABLES cache,    \* the disk as reads see it
          media     \* what each sector may hold after a power loss

\* What the medium may hold once a write was submitted; equal bytes cannot tear.
Spread(sector, value) ==
    IF media[sector] = {value} THEN media
    ELSE [media EXCEPT ![sector] = @ \cup {value, Torn}]

Durable(disk) == [s \in Sectors |-> {disk[s]}]

Applied(c) ==
    IF c.op = "write"
    THEN /\ cache' = [cache EXCEPT ![c.sector] = c.value]
         /\ media' = Spread(c.sector, c.value)
    ELSE /\ media' = Durable(cache)
         /\ UNCHANGED cache

\* An error is no proof that nothing changed.
Failed(c) ==
    IF c.op = "write"
    THEN /\ cache' \in {[cache EXCEPT ![c.sector] = v] : v \in {cache[c.sector], c.value, Torn}}
         /\ media' = Spread(c.sector, c.value)
    ELSE UNCHANGED <<cache, media>>

\* Every disk a loss of power can leave, given what each sector may hold.
Remains(m) ==
    LET dirty == {s \in Sectors : m[s] # {cache[s]}}
    IN  FoldSet(LAMBDA s, disks : {[d EXCEPT ![s] = v] : d \in disks, v \in m[s]}, {cache}, dirty)
=============================================================================
