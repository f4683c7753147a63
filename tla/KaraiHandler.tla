---------------------------- MODULE KaraiHandler ----------------------------
(***************************************************************************)
(* karai::handle_block (src/src/karai_handler/send_data.cpp): at every     *)
(* block, the winner of the previous block signs and sends the list of     *)
(* service nodes ("Consensus"), and every other node signs and sends the   *)
(* TradeOgre price of every contract the Karai channel lists.  What is     *)
(* signed is make_data_hash(pubkey, data).                                 *)
(*                                                                         *)
(* make_data_hash copies sizeof(data) bytes from &data, the std::string    *)
(* object, not its characters.  With the small-string optimisation of      *)
(* libstdc++ a string of at most SSO characters is stored inside the       *)
(* object, so those bytes hold the characters; a longer one is stored on   *)
(* the heap and the object holds only its address, length and capacity.   *)
(* cn_fast_hash is taken to be injective.  A price is a sequence of       *)
(* characters; a node list is the sequence of the keys whose 64-character  *)
(* hex forms it concatenates; a heap address is a model value.             *)
(*                                                                         *)
(* The contracts and prices come from price_provider                       *)
(* (src/src/delfi/price_provider.cpp): getContractKarai asks the local     *)
(* Karai channel, getTradeOgrePrice the TradeOgre ticker.  An HTTP reply   *)
(* is abstracted to what its parse yields.                                 *)
(***************************************************************************)
EXTENDS Integers, Sequences

CONSTANTS
    Keys,           \* service node public keys
    Me,             \* my_pubc_key
    Symbols,        \* characters of the strings sent
    Contracts,      \* contract pairs getContractKarai may list
    Prices,         \* strings getTradeOgrePrice may return
    Addrs,          \* heap addresses an allocation may return
    SSO,            \* the longest string stored inside std::string (15)
    NoReply,        \* an HTTP request that got no response
    NoPair,         \* a contract whose "data" document has no member
    ContractReplies,\* what the Karai channel may answer: NoReply or a
                    \* sequence of the pairs of its "Txes"
    TickerDown      \* a TradeOgre ticker request without a response, or
                    \* whose document has no member

\* Me is one of Keys, Prices are sequences of Symbols, SSO is a natural,
\* Addrs is nonempty,
\* ContractReplies \subseteq {NoReply} \cup Seq(Contracts \cup {NoPair}).

\* What libstdc++ does with "return 0" in a function returning std::string:
\* the string is constructed from a null pointer and std::logic_error is
\* thrown.
Thrown == "std::logic_error"

\* getContractKarai: no response gives an empty vector; otherwise one
\* contract_data per entry of "Txes", whose pair is taken from its "data"
\* document (left empty, NoPair, when that document has no member).
GetContractKarai(reply) == IF reply = NoReply THEN <<>> ELSE reply

\* getTradeOgrePrice: the ticker's "price" string; with no response, or a
\* document with no member, the loop is not entered and "return 0" throws.
GetTradeOgrePrice(ticker) == IF ticker = TickerDown THEN Thrown ELSE ticker

VARIABLE sent       \* the payloads handed to send_consensus_data and send_oracle_data

\* epee::string_tools::pod_to_hex of a 32-byte public key.
KeyHexLen == 64

\* The bytes of the std::string object holding d, of len characters,
\* allocated at addr if on the heap.
ObjectBytes(d, len, addr) ==
    IF len <= SSO THEN [inline |-> d] ELSE [heap |-> addr, size |-> len]

\* make_data_hash: the magic bytes, the key and the string object.
MakeDataHash(pk, d, len, addr) == <<"SUP", pk, ObjectBytes(d, len, addr)>>

Init == sent = {}

\* The contracts of cs handled before the exception of the first price
\* that throws leaves the loop and handle_block.
Handled(cs, ticker) ==
    LET thrown == {i \in 1 .. Len(cs) : GetTradeOgrePrice(ticker[cs[i]]) = Thrown}
    IN  IF thrown = {} THEN 1 .. Len(cs)
        ELSE 1 .. (CHOOSE i \in thrown : \A j \in thrown : i <= j) - 1

\* handle_block for a block b at height h whose predecessor was won by
\* lastWinner, with node_keys listed in nodeKeys, the Karai channel
\* answering reply and the TradeOgre ticker of each pair answering
\* ticker[pair]; addr is where each string the call builds is allocated.
HandleBlock(h, lastWinner, nodeKeys, reply, ticker) ==
    LET contracts == GetContractKarai(reply)
    IN  \E addr \in Addrs :
          IF Me = lastWinner
          THEN LET nodes == nodeKeys   \* nodes_json_string: the keys, concatenated
               IN  sent' = sent \cup {[task |-> "Consensus", height |-> h, pubkey |-> Me,
                                       hash |-> MakeDataHash(Me, nodes, KeyHexLen * Len(nodes), addr),
                                       data |-> nodes]}
          ELSE sent' = sent \cup
                 {[task |-> contracts[i], height |-> h, pubkey |-> Me,
                   hash |-> MakeDataHash(Me, GetTradeOgrePrice(ticker[contracts[i]]),
                                        Len(GetTradeOgrePrice(ticker[contracts[i]])), addr),
                   data |-> GetTradeOgrePrice(ticker[contracts[i]])] :
                     i \in Handled(contracts, ticker)}

\* Successive blocks, at heights 1 and 2, with any winner, node list,
\* contract list and tickers.
Next ==
    \E h \in 1 .. 2, w \in Keys, ks \in {<<>>} \cup [1 .. 2 -> Keys],
       r \in ContractReplies, t \in [Contracts \cup {NoPair} -> Prices \cup {TickerDown}] :
        HandleBlock(h, w, ks, r, t)

Spec == Init /\ [][Next]_sent

-----------------------------------------------------------------------------
\* A signature over make_data_hash authenticates the data sent with it: two
\* payloads this node signed with the same hash carry the same data, so
\* no signed node list or price can be replayed for another.
SignedHashBindsData ==
    \A m1, m2 \in sent : m1.hash = m2.hash => m1.data = m2.data

=============================================================================
