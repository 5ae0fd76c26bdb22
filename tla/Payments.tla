------------------------------ MODULE Payments ------------------------------
(***************************************************************************)
(* The messages of livepeer.payments.v1                                    *)
(* (providers/payerDaemon/gen/livepeer/payments/v1).  The console uses     *)
(* GetDepositInfo; the rest is generated along with it.                    *)
(***************************************************************************)
EXTENDS Wire

\* payer_daemon.ts
CreatePaymentRequest  == <<Bytes(1, "faceValue"), Bytes(2, "recipient"),
                           Str(3, "capability"), Str(4, "offering")>>
CreatePaymentResponse == <<Bytes(1, "paymentBytes"), Num(2, "ticketsCreated"),
                           Bytes(3, "expectedValue")>>
GetDepositInfoRequest == <<>>
GetDepositInfoResponse == <<Bytes(1, "deposit"), Bytes(2, "reserve"),
                            Num(3, "withdrawRound")>>

\* types.ts
PriceInfo == <<Num(1, "pricePerUnit"), Num(2, "pixelsPerUnit"), Num(3, "capability"),
               Str(4, "constraint")>>
TicketExpirationParams == <<Num(1, "creationRound"), Bytes(2, "creationRoundBlockHash")>>
TicketParams == <<Bytes(1, "recipient"), Bytes(2, "faceValue"), Bytes(3, "winProb"),
                  Bytes(4, "recipientRandHash"), Bytes(5, "seed"),
                  Bytes(6, "expirationBlock"),
                  Sub(7, "expirationParams", TicketExpirationParams)>>
TicketSenderParams == <<Num(1, "senderNonce"), Bytes(2, "sig")>>
Payment == <<Sub(1, "ticketParams", TicketParams), Bytes(2, "sender"),
             Sub(3, "expirationParams", TicketExpirationParams),
             Many(4, "ticketSenderParams", TicketSenderParams),
             Sub(5, "expectedPrice", PriceInfo)>>

\* payee_daemon.ts
OfferingPrice    == <<Str(1, "id"), Sub(2, "priceInfo", PriceInfo)>>
GetQuoteRequest  == <<Bytes(1, "sender"), Str(2, "capability")>>
GetQuoteResponse == <<Sub(1, "ticketParams", TicketParams),
                      Many(2, "offeringPrices", OfferingPrice)>>
GetTicketParamsRequest == <<Bytes(1, "sender"), Bytes(2, "recipient"),
                            Bytes(3, "faceValue"), Str(4, "capability"),
                            Str(5, "offering")>>
GetTicketParamsResponse == <<Sub(1, "ticketParams", TicketParams)>>
ListCapabilitiesRequest == <<>>
CapabilityEntry == <<Str(1, "capability"), Str(2, "workUnit"),
                     Many(3, "offerings", OfferingPrice)>>
ListCapabilitiesResponse == <<Many(2, "capabilities", CapabilityEntry)>>
OpenSessionRequest  == <<Str(1, "workId"), Str(2, "capability"), Str(3, "offering"),
                         Bytes(4, "pricePerWorkUnitWei"), Str(5, "workUnit")>>
OpenSessionResponse == <<Enum(1, "outcome")>>
ProcessPaymentRequest  == <<Bytes(1, "paymentBytes"), Str(2, "workId")>>
ProcessPaymentResponse == <<Bytes(1, "sender"), Bytes(2, "creditedEv"),
                            Bytes(3, "balance"), Num(4, "winnersQueued")>>
DebitBalanceRequest  == <<Bytes(1, "sender"), Str(2, "workId"), Num(3, "workUnits"),
                          Num(4, "debitSeq")>>
DebitBalanceResponse == <<Bytes(1, "balance")>>
SufficientBalanceRequest  == <<Bytes(1, "sender"), Str(2, "workId"), Num(3, "minWorkUnits")>>
SufficientBalanceResponse == <<Bool(1, "sufficient"), Bytes(2, "balance")>>
GetBalanceRequest  == <<Bytes(1, "sender"), Str(2, "workId")>>
GetBalanceResponse == <<Bytes(1, "balance")>>
PayeeDaemonCloseSessionRequest  == <<Bytes(1, "sender"), Str(2, "workId")>>
PayeeDaemonCloseSessionResponse == <<Enum(1, "outcome")>>
ListPendingRedemptionsRequest   == <<Num(1, "since")>>
PendingRedemption == <<Bytes(1, "ticketHash"), Bytes(2, "sender"), Bytes(3, "faceValue"),
                       Num(4, "queuedAt"), Num(5, "attempts")>>
ListPendingRedemptionsResponse == <<Many(1, "redemptions", PendingRedemption)>>
GetRedemptionStatusRequest  == <<Bytes(1, "ticketHash")>>
GetRedemptionStatusResponse == <<Enum(1, "status"), Bytes(2, "txHash"), Str(3, "error")>>

PaymentMessages ==
    {CreatePaymentRequest, CreatePaymentResponse, GetDepositInfoRequest,
     GetDepositInfoResponse, PriceInfo, TicketExpirationParams, TicketParams,
     TicketSenderParams, Payment, OfferingPrice, GetQuoteRequest, GetQuoteResponse,
     GetTicketParamsRequest, GetTicketParamsResponse, ListCapabilitiesRequest,
     CapabilityEntry, ListCapabilitiesResponse, OpenSessionRequest,
     OpenSessionResponse, ProcessPaymentRequest, ProcessPaymentResponse,
     DebitBalanceRequest, DebitBalanceResponse, SufficientBalanceRequest,
     SufficientBalanceResponse, GetBalanceRequest, GetBalanceResponse,
     PayeeDaemonCloseSessionRequest, PayeeDaemonCloseSessionResponse,
     ListPendingRedemptionsRequest, PendingRedemption, ListPendingRedemptionsResponse,
     GetRedemptionStatusRequest, GetRedemptionStatusResponse}
=============================================================================
