---------------------------- MODULE SatTracking ----------------------------
(***************************************************************************)
(* What ordinal theory promises of the stores between two blocks: the      *)
(* offsets, sums and lists the updater keeps describe the same sats as the *)
(* ledger of module Ordinals.                                              *)
(***************************************************************************)
EXTENDS InscriptionUpdater, Ordinals

Sats(sats) == {sats[k] : k \in DOMAIN sats}

\* The place of an inscription as the stores record it.
OffsetsOf(id) ==
    LET entries == output_inscription[inscription_output[id]]
    IN  {entries[k][2] : k \in {j \in DOMAIN entries : entries[j][1] = id}}

\* The record, the list and the offset of an inscription agree with the ledger
\* on the sat it is on.  Lost sats are numbered from counted.
OnItsSat(ledger, id, counted) ==
    LET sats == IF inscription_output[id] = NullOutPoint
                THEN ledger.lost ELSE ledger.sats[inscription_output[id]]
        first == IF inscription_output[id] = NullOutPoint THEN counted ELSE 0
    IN  /\ id \in DOMAIN inscription_output
        /\ inscription_output[id] \in DOMAIN ledger.sats \cup {NullOutPoint}
        /\ inscription_output[id] \in DOMAIN output_inscription
        /\ OffsetsOf(id) # {}
        /\ \A offset \in OffsetsOf(id) :
              /\ offset - first + 1 \in DOMAIN sats
              /\ sats[offset - first + 1] = ledger.inscribed[id]

\* An inscription whose input has sats of its own follows the first of them,
\* over any number of transfers, through fees and into the lost sats: the
\* offset of its entry, in the output its record names, is where that sat is.
FollowsItsSat ==
    pc = "idle" =>
        LET ledger == Ledger(chain)[height]
        IN  \A id \in DOMAIN ledger.inscribed : OnItsSat(ledger, id, 0)

\* A list of inscriptions is at an unspent output, among the lost sats, or at an
\* unbound location whose number was handed out, also a list of inscriptions for
\* which the ledger has no sat: after any number of moves and flushes none is
\* left at an output that is spent (move_inscription and flush_update).
OnUnspentOutputs ==
    pc = "idle" =>
        \A o \in DOMAIN output_inscription :
            o \in DOMAIN Ledger(chain)[height].sats \cup {NullOutPoint}
                  \cup {Unbound(n) : n \in 0 .. status.unbound_inscriptions - 1}

\* The stored values are those of the unspent outputs, complete for what the
\* indexed blocks created, and no sat goes missing: what the fees of a block
\* do not pay to the coinbase is counted as lost.
ValuesMatchLedger ==
    pc = "idle" =>
        LET ledger == Ledger(chain)[height]
        IN  /\ DOMAIN output_value \subseteq DOMAIN ledger.sats
            /\ DOMAIN ledger.sats \ chain.base \subseteq DOMAIN output_value
            /\ \A o \in DOMAIN output_value : output_value[o] = Len(ledger.sats[o])
            /\ status.lost_sats = Len(ledger.lost)
=============================================================================
