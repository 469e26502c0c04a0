-------------------------------- MODULE IdSet --------------------------------
(***************************************************************************)
(* What an ID pool promises (docs/ds/id_pool): it hands out the lowest     *)
(* identifier nobody holds, refuses when all are held, and takes back only *)
(* what is held.                                                           *)
(***************************************************************************)
EXTENDS Naturals

CONSTANTS NULL

VARIABLES
    size,   \* identifiers are 0 .. size - 1
    held,   \* those handed out
    given   \* the last answer: an identifier, or NULL

Free == (0 .. size - 1) \ held

Start == size \in Nat \ {0} /\ held = {} /\ given = NULL

Take ==
    /\ \E i \in Free : /\ \A j \in Free : i <= j
                       /\ held' = held \cup {i} /\ given' = i
    /\ UNCHANGED size

Refuse == Free = {} /\ given' = NULL /\ UNCHANGED <<size, held>>

Return ==
    /\ \E i \in held : held' = held \ {i}
    /\ UNCHANGED <<size, given>>

\* Every identifier is held at once, or returned at once.
TakeAll == held' = 0 .. size - 1 /\ UNCHANGED <<size, given>>
ReturnAll == held' = {} /\ UNCHANGED <<size, given>>

\* The pool is set up anew, for any number of identifiers: nobody holds one.
Renew == size' \in Nat \ {0} /\ held' = {} /\ UNCHANGED given

IdSetNext == Take \/ Refuse \/ Return \/ TakeAll \/ ReturnAll \/ Renew
IdSetSafe == Start /\ [][IdSetNext]_<<size, held, given>>
=============================================================================
