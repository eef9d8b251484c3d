---------------------------- MODULE ProtocolProofs ----------------------------
(* Lemmas about the statuses of the protocol. *)
EXTENDS Protocol, TLAPS

(* Whatever status a handler sets, what is put on the wire is a status of the
   protocol or the error packet. *)
LEMMA SentIsStatus ==
    ASSUME NEW op, NEW status
    PROVE  Sent(op, status) \in Statuses
<1>1. Response(op).writes \subseteq Statuses
    BY DEF Response, Statuses, LoginResponse, LogoutResponse, UnregisterResponse,
           ListUserAuctionsResponse, ListUserBidsResponse, ListAuctionsResponse,
           ShowRecordResponse, OpenAuctionResponse, CloseAuctionResponse,
           ShowAssetResponse, BidResponse
<1> QED  BY <1>1 DEF Sent, Statuses, ErrorPacket

LEMMA StatusesAreNotNone == "none" \notin Statuses
    BY DEF Statuses, ErrorPacket
=============================================================================
