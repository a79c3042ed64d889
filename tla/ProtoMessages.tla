--------------------------- MODULE ProtoMessages ---------------------------
(***************************************************************************)
(* The messages of the chain's own protobuf packages, as their generated   *)
(* codecs (the *.pb.go files) know them.  A message is a function from the *)
(* field numbers its Unmarshal has a case for to the kind of that field    *)
(* (ProtoKinds).                                                           *)
(***************************************************************************)
EXTENDS ProtoKinds, TLC

Repeat(k, n) == [i \in 1..n |-> k]

(* Messages of the SDK and of ibc-go that the chain's messages embed.  A   *)
(* bytes field is coded as a string is.                                    *)
AnyMessage == <<Str, Str>>
PageRequest == <<Str, Uint64, Uint64, Bool, Bool>>
PageResponse == <<Str, Uint64>>
Height == <<Uint64, Uint64>>
BaseAccount == <<Str, Ptr(AnyMessage), Uint64, Uint64>>

(* x/nft: classes, NFTs, events and queries. *)
Nft_EventSend == Repeat(Str, 4)
Nft_EventMint == Repeat(Str, 3)
Nft_EventBurn == Repeat(Str, 3)
Nft_Class == <<Str, Str, Str, Str, Str, Str, Ptr(AnyMessage)>>
Nft_NFT == Repeat(Str, 4) @@ (10 :> Ptr(AnyMessage))
Nft_Entry == <<Str, Msgs(Nft_NFT)>>
Nft_GenesisState == <<Msgs(Nft_Class), Msgs(Nft_Entry)>>
Nft_QueryBalanceRequest == <<Str, Str>>
Nft_QueryBalanceResponse == <<Uint64>>
Nft_QueryOwnerRequest == <<Str, Str>>
Nft_QueryOwnerResponse == <<Str>>
Nft_QuerySupplyRequest == <<Str>>
Nft_QuerySupplyResponse == <<Uint64>>
Nft_QueryNFTsRequest == <<Str, Str, Ptr(PageRequest)>>
Nft_QueryNFTsResponse == <<Msgs(Nft_NFT), Ptr(PageResponse)>>
Nft_QueryNFTRequest == <<Str, Str>>
Nft_QueryNFTResponse == <<Ptr(Nft_NFT)>>
Nft_QueryClassRequest == <<Str>>
Nft_QueryClassResponse == <<Ptr(Nft_Class)>>
Nft_QueryClassesRequest == <<Ptr(PageRequest)>>
Nft_QueryClassesResponse == <<Msgs(Nft_Class), Ptr(PageResponse)>>
Nft_MsgSend == Repeat(Str, 4)
Nft_MsgSendResponse == <<>>

(* x/collection: classes with their NFTs, their queries and messages. *)
Collection_BaseNFT == Repeat(Str, 6)
Collection_NFTMetadata == <<Str, Str>>
Collection_Denom == <<Str, Str, Str, Str, Str, Bool, Bool, Str, Str, Str,
    Str>>
Collection_DenomMetadata == <<Str, Str, Bool, Bool, Str>>
Collection_IDCollection == <<Str, Strs>>
Collection_Owner == <<Str, Msgs(Collection_IDCollection)>>
Collection_Collection == <<Msg(Collection_Denom), Msgs(Collection_BaseNFT)>>
Collection_GenesisState == <<Msgs(Collection_Collection)>>
Collection_QuerySupplyRequest == <<Str, Str>>
Collection_QuerySupplyResponse == <<Uint64>>
Collection_QueryNFTsOfOwnerRequest == <<Str, Str, Ptr(PageRequest)>>
Collection_QueryNFTsOfOwnerResponse == <<Ptr(Collection_Owner),
    Ptr(PageResponse)>>
Collection_QueryCollectionRequest == <<Str, Ptr(PageRequest)>>
Collection_QueryCollectionResponse == <<Ptr(Collection_Collection),
    Ptr(PageResponse)>>
Collection_QueryDenomRequest == <<Str>>
Collection_QueryDenomResponse == <<Ptr(Collection_Denom)>>
Collection_QueryDenomsRequest == <<Ptr(PageRequest)>>
Collection_QueryDenomsResponse == <<Msgs(Collection_Denom),
    Ptr(PageResponse)>>
Collection_QueryNFTRequest == <<Str, Str>>
Collection_QueryNFTResponse == <<Ptr(Collection_BaseNFT)>>
Collection_MsgIssueDenom == <<Str, Str, Str, Str, Str, Bool, Bool, Str, Str,
    Str, Str>>
Collection_MsgIssueDenomResponse == <<>>
Collection_MsgTransferNFT == Repeat(Str, 8)
Collection_MsgTransferNFTResponse == <<>>
Collection_MsgEditNFT == Repeat(Str, 7)
Collection_MsgEditNFTResponse == <<>>
Collection_MsgMintNFT == Repeat(Str, 8)
Collection_MsgMintNFTResponse == <<>>
Collection_MsgBurnNFT == Repeat(Str, 3)
Collection_MsgBurnNFTResponse == <<>>
Collection_MsgTransferDenom == Repeat(Str, 3)
Collection_MsgTransferDenomResponse == <<>>

(* x/erc721: pairs, genesis, queries and messages. *)
Erc721_TokenPair == <<Str, Str>>
Erc721_UIDPair == <<Str, Str>>
Erc721_Params == <<Bool, Bool>>
Erc721_NFTUIDPair == <<Str, Str>>
Erc721_RefundReceiver == Repeat(Str, 3)
Erc721_GenesisState == <<Msg(Erc721_Params), Msgs(Erc721_TokenPair),
    Msgs(Erc721_NFTUIDPair), Msgs(Erc721_RefundReceiver)>>
Erc721_QueryTokenPairsRequest == <<Ptr(PageRequest)>>
Erc721_QueryTokenPairsResponse == <<Msgs(Erc721_TokenPair),
    Ptr(PageResponse)>>
Erc721_QueryTokenPairRequest == <<Str>>
Erc721_QueryTokenPairResponse == <<Msg(Erc721_TokenPair)>>
Erc721_QueryEvmAddressRequest == Repeat(Str, 3)
Erc721_QueryEvmAddressResponse == <<Msg(Erc721_TokenPair)>>
Erc721_QueryParamsRequest == <<>>
Erc721_QueryParamsResponse == <<Msg(Erc721_Params)>>
Erc721_MsgConvertNFT == <<Str, Strs, Str, Str, Str, Strs>>
Erc721_MsgConvertNFTResponse == <<>>
Erc721_MsgConvertERC721 == <<Str, Strs, Str, Str, Str, Strs>>
Erc721_MsgConvertERC721Response == <<Str, Strs, Str, Str, Str, Strs>>
Erc721_MsgTransferERC721 == <<Str, Strs, Str, Str, Str, Strs, Str, Str,
    Msg(Height), Uint64, Str>>
Erc721_MsgTransferERC721Response == <<>>
Erc721_MsgUpdateParams == <<Str, Msg(Erc721_Params)>>
Erc721_MsgUpdateParamsResponse == <<>>

(* x/cw721: pairs, genesis, queries and messages. *)
Cw721_TokenPair == <<Str, Str>>
Cw721_UIDPair == <<Str, Str>>
Cw721_Params == <<Bool, Bool, Uint64>>
Cw721_NFTUIDPair == <<Str, Str>>
Cw721_RefundReceiver == Repeat(Str, 3)
Cw721_GenesisState == <<Msg(Cw721_Params), Msgs(Cw721_TokenPair),
    Msgs(Cw721_NFTUIDPair), Msgs(Cw721_RefundReceiver)>>
Cw721_QueryTokenPairsRequest == <<Ptr(PageRequest)>>
Cw721_QueryTokenPairsResponse == <<Msgs(Cw721_TokenPair), Ptr(PageResponse)>>
Cw721_QueryTokenPairRequest == <<Str>>
Cw721_QueryWasmAddressRequest == Repeat(Str, 3)
Cw721_QueryTokenPairResponse == <<Msg(Cw721_TokenPair)>>
Cw721_QueryWasmContractResponse == <<Msg(Cw721_TokenPair)>>
Cw721_QueryParamsRequest == <<>>
Cw721_QueryParamsResponse == <<Msg(Cw721_Params)>>
Cw721_MsgConvertNFT == <<Str, Strs, Str, Str, Str, Strs>>
Cw721_MsgConvertNFTResponse == <<>>
Cw721_MsgConvertCW721 == <<Str, Strs, Str, Str, Str, Strs>>
Cw721_MsgConvertCW721Response == <<Str, Strs, Str, Str, Str, Strs>>
Cw721_MsgConvertC721Response == <<>>
Cw721_MsgTransferCW721 == <<Str, Strs, Str, Str, Str, Strs, Str, Str,
    Msg(Height), Uint64, Str>>
Cw721_MsgTransferCW721Response == <<>>
Cw721_MsgUpdateParams == <<Str, Msg(Cw721_Params)>>
Cw721_MsgUpdateParamsResponse == <<>>

(* x/evmibc: the transfer message. *)
EvmIbc_TokenPair == <<Str, Str>>
EvmIbc_QueryEvmAddressRequest == Repeat(Str, 3)
EvmIbc_QueryTokenPairResponse == <<Msg(EvmIbc_TokenPair)>>
EvmIbc_MsgTransferERC721 == <<Str, Strs, Str, Str, Str, Strs, Str, Str,
    Msg(Height), Uint64, Str>>
EvmIbc_MsgTransferERC721Response == <<>>

(* The account record of the release before v0.4.0. *)
Legacy_EthAccount == <<Ptr(BaseAccount), Str>>
=============================================================================
