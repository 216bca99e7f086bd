------------------------------ MODULE Registry ------------------------------
(***************************************************************************)
(* What ordi promises of inscriptions, whichever way they are indexed: a   *)
(* register of numbers that only grows, at one of its two ends and by one  *)
(* inscription at a time, and the place of every inscription in it.  At    *)
(* the end of a block what was registered is settled; an error closes the  *)
(* register, and may lose what is not settled and nothing else.            *)
(*                                                                         *)
(* Abstract: InscriptionUpdater implements it, see ImplementsRegistry      *)
(* there, with stores, batches, a cache and four writes for every block.   *)
(***************************************************************************)
EXTENDS Integers

VARIABLES
    numbers,    \* number -> inscription: the blessed from 0 up, the cursed from -1 down
    places,     \* inscription -> location
    settled,    \* the numbers that no error can take back
    open        \* whether indexing goes on
registryVars == <<numbers, places, settled, open>>

Inscriptions == {numbers[n] : n \in DOMAIN numbers}

RegistryInit ==
    /\ DOMAIN numbers = {} /\ DOMAIN places = {} /\ settled = {}
    /\ open = TRUE

\* A number at either end: not given yet, though its neighbour is.
NextNumber(n) ==
    /\ n \notin DOMAIN numbers
    /\ n = 0 \/ n = -1 \/ n - 1 \in DOMAIN numbers \ {-1} \/ n + 1 \in DOMAIN numbers \ {0}

\* An inscription that was not there before gets the next number and a place.
Register ==
    /\ open /\ UNCHANGED <<settled, open>>
    /\ \E n \in DOMAIN numbers' \ DOMAIN numbers :
          /\ NextNumber(n)
          /\ numbers' = [m \in DOMAIN numbers \cup {n} |-> IF m = n THEN numbers'[n] ELSE numbers[m]]
          /\ numbers'[n] \notin Inscriptions
          /\ places' = [i \in DOMAIN places \cup {numbers'[n]} |->
                           IF i = numbers'[n] THEN places'[i] ELSE places[i]]

\* An inscription moves; all others stay where they are.
Move ==
    /\ open /\ UNCHANGED <<numbers, settled, open>>
    /\ \E i \in Inscriptions \cap DOMAIN places :
          places' = [j \in DOMAIN places |-> IF j = i THEN places'[i] ELSE places[j]]

\* A block is done.
Settle ==
    /\ open /\ UNCHANGED <<numbers, places, open>>
    /\ settled' = DOMAIN numbers

\* An error: numbers that are not settled may be lost, none changes its
\* inscription, and what is settled keeps a place.
Abort ==
    /\ open /\ ~open' /\ UNCHANGED settled
    /\ settled \subseteq DOMAIN numbers' /\ DOMAIN numbers' \subseteq DOMAIN numbers
    /\ \A n \in DOMAIN numbers' : numbers'[n] = numbers[n]
    /\ \A n \in settled : numbers[n] \in DOMAIN places'

RegistryNext == Register \/ Move \/ Settle \/ Abort

RegistrySpec == RegistryInit /\ [][RegistryNext]_registryVars
=============================================================================
