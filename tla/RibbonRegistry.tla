--------------------------- MODULE RibbonRegistry ---------------------------
(***************************************************************************)
(* The oracle-attestation ("ribbon data") registry of quorum_cop           *)
(* (src/src/cryptonote_core/quorum_cop.cpp): m_ribbon_data_received, keyed *)
(* by make_ribbon_key_hash(pubkey, height), filled by                      *)
(* handle_ribbon_data_received and emptied by clear_ribbon_data.           *)
(*                                                                         *)
(* make_ribbon_key_hash hashes the fixed-width bytes of (pubkey, height);  *)
(* collisions are negligible, so the key is the pair itself.  A stored     *)
(* ribbon_data keeps its height and ribbon_blue; ribbon_volume is only     *)
(* returned by get_ribbon_data and is left out.                            *)
(***************************************************************************)
EXTENDS Integers, Functions

CONSTANTS
    Attesters,      \* public keys that send ribbon data
    Heights,        \* the block heights a model reaches
    Blues           \* ribbon_blue values an attestation may carry

ASSUME RibbonConstantsAssumption ==
    /\ Heights \subseteq Nat
    /\ 0 \in Heights
    /\ Blues \subseteq Nat
    /\ 0 \in Blues

VARIABLE ribbon     \* m_ribbon_data_received : <<pubkey, height>> -> ribbon_data

RibbonKeys == Attesters \X Heights
RibbonData == [height : Heights, blue : Blues]

\* ribbon_data{} as value-initialised by operator[].
EmptyRibbon == [height |-> 0, blue |-> 0]

RibbonTypeOK ==
    /\ DOMAIN ribbon \subseteq RibbonKeys
    /\ ribbon \in [DOMAIN ribbon -> RibbonData]

RibbonInit == ribbon = [k \in {} |-> EmptyRibbon]

\* handle_ribbon_data_received: an attestation by key n for height h with
\* value blue; sigOk tells whether the signature verifies against
\* make_ribbon_hash of the fields.  Last writer wins.
HandleRibbonData(n, h, blue, sigOk) ==
    /\ sigOk
    /\ ribbon' = [k \in DOMAIN ribbon \cup {<<n, h>>} |->
                    IF k = <<n, h>> THEN [height |-> h, blue |-> blue] ELSE ribbon[k]]

\* clear_ribbon_data: erase every record whose height is below clearHeight.
ClearRibbonData(clearHeight) ==
    ribbon' = Restrict(ribbon, {k \in DOMAIN ribbon : ribbon[k].height >= clearHeight})

=============================================================================
