------------------------------- MODULE MCNode -------------------------------
(* A small instance of Node. *)
EXTENDS Node, ProtoMessages

(***************************************************************************)
(* Every message of the chain with the shortest requests, and messages     *)
(* that hold a field of every kind with longer ones.                       *)
(***************************************************************************)

AllMessages ==
    {Nft_EventSend, Nft_EventMint, Nft_EventBurn, Nft_Class, Nft_NFT, Nft_Entry,
     Nft_GenesisState, Nft_QueryBalanceRequest, Nft_QueryBalanceResponse,
     Nft_QueryOwnerRequest, Nft_QueryOwnerResponse, Nft_QuerySupplyRequest,
     Nft_QuerySupplyResponse, Nft_QueryNFTsRequest, Nft_QueryNFTsResponse,
     Nft_QueryNFTRequest, Nft_QueryNFTResponse, Nft_QueryClassRequest,
     Nft_QueryClassResponse, Nft_QueryClassesRequest,
     Nft_QueryClassesResponse, Nft_MsgSend, Nft_MsgSendResponse,
     Collection_BaseNFT, Collection_NFTMetadata, Collection_Denom,
     Collection_DenomMetadata, Collection_IDCollection, Collection_Owner,
     Collection_Collection, Collection_GenesisState,
     Collection_QuerySupplyRequest, Collection_QuerySupplyResponse,
     Collection_QueryNFTsOfOwnerRequest, Collection_QueryNFTsOfOwnerResponse,
     Collection_QueryCollectionRequest, Collection_QueryCollectionResponse,
     Collection_QueryDenomRequest, Collection_QueryDenomResponse,
     Collection_QueryDenomsRequest, Collection_QueryDenomsResponse,
     Collection_QueryNFTRequest, Collection_QueryNFTResponse,
     Collection_MsgIssueDenom, Collection_MsgIssueDenomResponse,
     Collection_MsgTransferNFT, Collection_MsgTransferNFTResponse,
     Collection_MsgEditNFT, Collection_MsgEditNFTResponse,
     Collection_MsgMintNFT, Collection_MsgMintNFTResponse,
     Collection_MsgBurnNFT, Collection_MsgBurnNFTResponse,
     Collection_MsgTransferDenom, Collection_MsgTransferDenomResponse,
     Erc721_TokenPair, Erc721_UIDPair, Erc721_Params, Erc721_NFTUIDPair,
     Erc721_RefundReceiver, Erc721_GenesisState,
     Erc721_QueryTokenPairsRequest, Erc721_QueryTokenPairsResponse,
     Erc721_QueryTokenPairRequest, Erc721_QueryTokenPairResponse,
     Erc721_QueryEvmAddressRequest, Erc721_QueryEvmAddressResponse,
     Erc721_QueryParamsRequest, Erc721_QueryParamsResponse,
     Erc721_MsgConvertNFT, Erc721_MsgConvertNFTResponse,
     Erc721_MsgConvertERC721, Erc721_MsgConvertERC721Response,
     Erc721_MsgTransferERC721, Erc721_MsgTransferERC721Response,
     Erc721_MsgUpdateParams, Erc721_MsgUpdateParamsResponse, Cw721_TokenPair,
     Cw721_UIDPair, Cw721_Params, Cw721_NFTUIDPair, Cw721_RefundReceiver,
     Cw721_GenesisState, Cw721_QueryTokenPairsRequest,
     Cw721_QueryTokenPairsResponse, Cw721_QueryTokenPairRequest,
     Cw721_QueryWasmAddressRequest, Cw721_QueryTokenPairResponse,
     Cw721_QueryWasmContractResponse, Cw721_QueryParamsRequest,
     Cw721_QueryParamsResponse, Cw721_MsgConvertNFT,
     Cw721_MsgConvertNFTResponse, Cw721_MsgConvertCW721,
     Cw721_MsgConvertCW721Response, Cw721_MsgConvertC721Response,
     Cw721_MsgTransferCW721, Cw721_MsgTransferCW721Response,
     Cw721_MsgUpdateParams, Cw721_MsgUpdateParamsResponse, EvmIbc_TokenPair,
     EvmIbc_QueryEvmAddressRequest, EvmIbc_QueryTokenPairResponse,
     EvmIbc_MsgTransferERC721, EvmIbc_MsgTransferERC721Response,
     Legacy_EthAccount}

DeepMessages ==
    {Erc721_MsgUpdateParams, Erc721_MsgConvertERC721, Nft_NFT, Erc721_QueryTokenPairsResponse,
     Nft_QueryBalanceResponse}

MCRequests == (AllMessages \X (0..2)) \cup (DeepMessages \X (0..4))

\* Tags of fields 1, 2, 10 and 15 in the wire types, lengths that fit and that
\* do not, and bytes that go on.
MCOctets == {0, 1, 2, 8, 10, 16, 18, 82, 120, 122, 123, 124, 125, 128, 135, 255}

(***************************************************************************)
(* Transactions: what is inside, at each depth, and how it is signed.      *)
(***************************************************************************)

Signature(s, form) == [sequence |-> s, form |-> form]
Tx(msgs, ext, s, form) ==
    [msgs |-> msgs, ext |-> ext, signers |-> <<"a">>, sigs |-> <<Signature(s, form)>>]
TxOfTwo(ext, form) ==
    [msgs |-> <<1>> :> "plain", ext |-> ext, signers |-> <<"a", "b">>,
     sigs |-> <<Signature(0, form), Signature(0, form)>>]

Plain == <<1>> :> "plain"
Alone(kind) == <<1>> :> kind
Inside(kind) == (<<1>> :> "exec") @@ (<<1, 1>> :> kind)
Twice(kind) == (<<1>> :> "exec") @@ (<<1, 1>> :> "exec") @@ (<<1, 1, 1>> :> kind)
Wide(n) == (<<1>> :> "exec") @@ [p \in {<<1, i>> : i \in 1..n} |-> "plain"]

MCTxs ==
    {Tx(msgs, <<>>, 0, "direct") : msgs \in
        {Alone(k) : k \in {"commission_low", "disabled", "grant_disabled", "eth", "eth_bad", "broken"}}
          \cup {Inside(k) : k \in {"wasm_bad", "commission_low", "disabled", "broken"}}
          \cup {Twice(k) : k \in {"wasm_bad", "commission_low", "plain", "exec", "eth"}}
          \cup {Wide(3), Wide(4)}}
    \cup {Tx(Plain, <<>>, s, "direct") : s \in 0..1}
    \cup {Tx(Plain, <<"web3">>, s, "eip712") : s \in 0..1}
    \cup {Tx(Inside("commission_low"), <<"web3">>, 0, "eip712"),
          Tx(Plain, <<"dynamic_fee", "web3">>, 0, "eip712"), Tx(Plain, <<"dynamic_fee">>, 1, "direct"),
          Tx(Plain, <<"web3">>, 0, "direct"), Tx(Plain, <<>>, 0, "eip712"),
          Tx(Alone("eth"), <<"eth">>, 0, "ethereum"), Tx(Plain, <<"eth">>, 0, "ethereum"),
          Tx(Plain, <<"other">>, 0, "direct"), TxOfTwo(<<>>, "direct"), TxOfTwo(<<"web3">>, "eip712")}

(***************************************************************************)
(* The chain that is exported.                                             *)
(***************************************************************************)

MCDelegations == {<<"d1", "v1">>, <<"d1", "v2">>}

=============================================================================
