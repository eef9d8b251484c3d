------------------------------- MODULE Protocol -------------------------------
(***************************************************************************)
(* The statuses of the AS protocol: what the handlers of the server set,   *)
(* what the response packets can carry and what their readers understand.  *)
(* A request is named by its three-letter packet ID.                       *)
(*                                                                         *)
(* The fields of the packets are abstracted away: a packet that does not   *)
(* parse never reaches a handler's logic and changes no state.             *)
(***************************************************************************)

(* AuctionServerState::registerHandlers *)
UdpOps == {"LIN", "LOU", "UNR", "LMA", "LMB", "LST", "SRC"}
TcpOps == {"OPA", "CLS", "SAS", "BID"}
Ops == UdpOps \union TcpOps

(* Response packets: the statuses with a branch in serialize (UDP) or send
   (TCP), which throw InvalidPacketException for any other, and the statuses
   with a branch in deserialize or receive, which throw it too. *)
LoginResponse ==
    [writes |-> {"OK", "NOK", "REG", "ERR"}, reads |-> {"OK", "NOK", "REG", "ERR"}]
LogoutResponse ==
    [writes |-> {"OK", "NOK", "UNR", "ERR"}, reads |-> {"OK", "NOK", "UNR", "ERR"}]
UnregisterResponse ==
    [writes |-> {"OK", "NOK", "UNR", "ERR"}, reads |-> {"OK", "NOK", "UNR", "ERR"}]
ListUserAuctionsResponse ==
    [writes |-> {"OK", "NOK", "NLG", "ERR"}, reads |-> {"OK", "NOK", "NLG", "ERR"}]
ListUserBidsResponse ==
    [writes |-> {"OK", "NOK", "NLG", "ERR"}, reads |-> {"OK", "NOK", "NLG", "ERR"}]
ListAuctionsResponse ==
    [writes |-> {"OK", "NOK", "ERR"}, reads |-> {"OK", "NOK", "ERR"}]
ShowRecordResponse ==
    [writes |-> {"OK", "NOK", "ERR"}, reads |-> {"OK", "NOK", "ERR"}]
OpenAuctionResponse ==
    [writes |-> {"OK", "NOK", "NLG", "ERR"}, reads |-> {"OK", "NOK", "NLG", "ERR"}]
CloseAuctionResponse ==
    [writes |-> {"OK", "EAU", "NLG", "EOW", "END", "ERR"},
     reads |-> {"OK", "EAU", "NLG", "EOW", "END", "ERR"}]
ShowAssetResponse ==
    [writes |-> {"OK", "NOK", "ERR"}, reads |-> {"OK", "NOK"}]
BidResponse ==
    [writes |-> {"ACC", "NOK", "NLG", "REF", "ILG", "ERR"},
     reads |-> {"ACC", "NOK", "NLG", "REF", "ILG", "ERR"}]

Response(op) ==
    CASE op = "LIN" -> LoginResponse
      [] op = "LOU" -> LogoutResponse
      [] op = "UNR" -> UnregisterResponse
      [] op = "LMA" -> ListUserAuctionsResponse
      [] op = "LMB" -> ListUserBidsResponse
      [] op = "LST" -> ListAuctionsResponse
      [] op = "SRC" -> ShowRecordResponse
      [] op = "OPA" -> OpenAuctionResponse
      [] op = "CLS" -> CloseAuctionResponse
      [] op = "SAS" -> ShowAssetResponse
      [] OTHER -> BidResponse

(* What is put on the wire for a handler that ends with a status.  The
   exception of a status without a branch reaches Worker::execute (TCP) or
   handle_packet (UDP), which answer with the error packet, "ERR" alone. *)
ErrorPacket == "ERR packet"
Sent(op, status) == IF status \in Response(op).writes THEN status ELSE ErrorPacket

Statuses == {"OK", "NOK", "REG", "UNR", "NLG", "ERR", "EAU", "EOW", "END",
             "ACC", "REF", "ILG", ErrorPacket}

(* Handlers: the status they set when the named exception is thrown. *)
handleLogin == [InvalidCredentials |-> "NOK"]
handleLogout == [InvalidCredentials |-> "ERR"]
handleUnregister == [InvalidCredentials |-> "ERR"]
handleListUserAuctions == [UserNotLoggedIn |-> "NLG", NoAuctions |-> "NOK"]
handleListUserBids == [UserNotLoggedIn |-> "NLG", NoOngoingBids |-> "NOK"]
handleListAuctions == [NoAuctions |-> "NOK"]
handleShowRecord == [AuctionNotFound |-> "NOK"]
handleOpenAuction ==
    [InvalidCredentials |-> "ERR", UserNotLoggedIn |-> "NLG",
     AuctionsLimitExceeded |-> "NOK"]
handleCloseAuction ==
    [InvalidCredentials |-> "NOK", UserNotLoggedIn |-> "NLG",
     AuctionNotFound |-> "EAU", IncorrectAuctionOwner |-> "EOW",
     NonActiveAuction |-> "END"]
handleShowAsset == [AuctionNotFound |-> "NOK", AssetNotFound |-> "NOK"]
handleBid ==
    [InvalidCredentials |-> "ERR", UserNotLoggedIn |-> "NLG",
     NonActiveAuction |-> "NOK", BidRefused |-> "REF", IllegalBid |-> "ILG"]

Handler(op) ==
    CASE op = "LIN" -> handleLogin
      [] op = "LOU" -> handleLogout
      [] op = "UNR" -> handleUnregister
      [] op = "LMA" -> handleListUserAuctions
      [] op = "LMB" -> handleListUserBids
      [] op = "LST" -> handleListAuctions
      [] op = "SRC" -> handleShowRecord
      [] op = "OPA" -> handleOpenAuction
      [] op = "CLS" -> handleCloseAuction
      [] op = "SAS" -> handleShowAsset
      [] OTHER -> handleBid

Caught(op, exception) == Handler(op)[exception]
=============================================================================
