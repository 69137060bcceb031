--------------------------- MODULE SnapValidation ---------------------------
(***************************************************************************)
(* Field validation of the three transfer-va services: inquiry (24),       *)
(* payment (25) and status (26).  A text is its length, 0 when absent or   *)
(* blank; an amount is the shape of its value and its currency; a VA       *)
(* number is the partnerServiceId and the customerNo it is made of.        *)
(***************************************************************************)
EXTENDS Naturals, Sequences, FiniteSetsExt

\* Limits per BCA's tables
MaxPartnerServiceID == 8
MaxInquiryCustomerNo == 20
MaxInquiryVirtualAccountNo == 28

MaxInquiryRequestID == 30
MaxPaymentCustomerNo == 20
MaxPaymentVirtualAccountNo == 28
MaxPaymentRequestID == 30
MaxVirtualAccountName == 30
MaxPaymentBillDetails == 5
MaxFreeTexts == 9
MaxFreeTextLength == 32
MaxIssuedCustomerNo == 18
MaxIssuedVirtualAccountNo == 26

\* The optional fields of an inquiry and of a payment that only have a maximum.
InquiryOptional == [language |-> 2, hashedSourceAccountNo |-> 32, sourceBankCode |-> 3, passApp |-> 64]
PaymentOptional ==
    [virtualAccountName |-> MaxVirtualAccountName, virtualAccountEmail |-> 255,
     virtualAccountPhone |-> 30, trxId |-> 64, hashedSourceAccountNo |-> 32, sourceBankCode |-> 3,
     paidBills |-> 6, referenceNo |-> 11, journalNum |-> 6, paymentType |-> 1, subCompany |-> 5]

\* Shapes of amount.value: no amount, blank, not a number, an integer part over
\* 13 digits, fewer than two decimals, 0.00, and a positive figure with both.
Values == {"absent", "blank", "malformed", "long", "whole", "zero", "cents"}
Currencies == {"blank", "foreign", "IDR", "SGD", "USD"}
Amount == [value: Values, currency: Currencies]
AllowedCurrencies == {"IDR", "SGD", "USD"}

\* channelCode: absent (0), in BCA's table, or not.
ChannelCodes == {"absent", "known", "unknown"}

\* flagAdvise
Advices == {"absent", "N", "Y", "other"}

-----------------------------------------------------------------------------
(* Violations                                                              *)

NoViolation == [kind |-> "none", field |-> ""]
Mandatory(f) == [kind |-> "mandatory", field |-> f]
BadFormat(f) == [kind |-> "format", field |-> f]

Check(bad, violation) == [bad |-> bad, violation |-> violation]

\* The first check that fails decides the answer.
FirstViolation(checks) ==
    LET failed == {i \in DOMAIN checks : checks[i].bad}
    IN  IF failed = {} THEN NoViolation ELSE checks[Min(failed)].violation

\* The checks of a validator that is called inside another one.
Nested(violation) == Check(violation # NoViolation, violation)

-----------------------------------------------------------------------------
(* Identity                                                                *)

\* id.partner = [id, len], id.cust = [no, len], id.va = [partner, cust, len].  A
\* partner's id is what is left of it without the padding, its len counts it.
RequireVAIdentity(id, maxCustomerNo, maxVANo) ==
    FirstViolation(<<
        Check(id.partner.len = 0, Mandatory("partnerServiceId")),
        Check(id.partner.len > MaxPartnerServiceID, BadFormat("partnerServiceId")),
        Check(id.cust.len = 0, Mandatory("customerNo")),
        Check(id.cust.len > maxCustomerNo, BadFormat("customerNo")),
        Check(id.va.len = 0, Mandatory("virtualAccountNo")),
        Check(id.va.len > maxVANo, BadFormat("virtualAccountNo")),
        Check(id.va.cust # id.cust.no, BadFormat("virtualAccountNo")),
        Check(id.va.partner # id.partner.id, BadFormat("virtualAccountNo"))>>)

ValidateAmount(amount, field) ==
    FirstViolation(<<
        Check(amount.value = "blank", Mandatory(field \o ".value")),
        Check(amount.value \in {"malformed", "long"}, BadFormat(field \o ".value")),
        Check(amount.currency = "blank", Mandatory(field \o ".currency")),
        Check(amount.currency \notin AllowedCurrencies, BadFormat(field \o ".currency"))>>)

\* The names of the fields of paidAmount, as ValidateAmount puts them together.
ASSUME FieldNamesAssumption ==
    /\ "paidAmount" \o ".value" = "paidAmount.value"
    /\ "paidAmount" \o ".currency" # "paidAmount.value"

\* An amount that need not be there.
ValidateOptionalAmount(amount, field) ==
    IF amount.value = "absent" THEN NoViolation ELSE ValidateAmount(amount, field)

-----------------------------------------------------------------------------
(* Inquiry                                                                 *)

OverLong(texts, max) == \E f \in DOMAIN max : texts[f] > max[f]

ValidateInquiryRequest(r, strictMandatory) ==
    FirstViolation(<<
        Nested(RequireVAIdentity(r.id, MaxInquiryCustomerNo, MaxInquiryVirtualAccountNo)),
        Check(r.inquiryRequestId = 0, Mandatory("inquiryRequestId")),
        Check(r.inquiryRequestId > MaxInquiryRequestID, BadFormat("inquiryRequestId")),
        Check(r.channelCode = "unknown", BadFormat("channelCode")),
        Nested(ValidateOptionalAmount(r.amount, "amount")),
        Check(strictMandatory /\ ~r.trxDateInit, Mandatory("trxDateInit")),
        Check(strictMandatory /\ r.channelCode = "absent", Mandatory("channelCode")),
        Check(OverLong(r.texts, InquiryOptional), BadFormat("optional"))>>)

-----------------------------------------------------------------------------
(* Payment                                                                 *)

ValidatePaidAmountValue(amount) ==
    FirstViolation(<<Check(amount.value # "cents", BadFormat("paidAmount.value"))>>)

ValidatePaymentOptionalLengths(r) ==
    FirstViolation(<<
        Check(OverLong(r.texts, PaymentOptional), BadFormat("optional")),
        Check(r.flagAdvise = "other", BadFormat("flagAdvise")),
        Check(r.channelCode = "unknown", BadFormat("channelCode"))>>)

ValidateFreeTextLengths(lengths) ==
    FirstViolation(<<Check(\E l \in lengths : l > MaxFreeTextLength, BadFormat("freeTexts"))>>)

\* r.bills is the bag of the billAmounts as a sequence; those absent are passed over.
ValidatePaymentAmountsAndBills(r) ==
    FirstViolation(<<
        Nested(ValidateOptionalAmount(r.totalAmount, "totalAmount")),
        Check(r.totalAmount.value # "absent" /\ r.totalAmount.currency # r.paidAmount.currency,
              BadFormat("totalAmount.currency")),
        Nested(ValidateOptionalAmount(r.cumulativePaymentAmount, "cumulativePaymentAmount")),
        Check(Len(r.bills) > MaxPaymentBillDetails, BadFormat("billDetails")),
        Check(r.freeTexts > MaxFreeTexts, BadFormat("freeTexts")),
        Nested(ValidateFreeTextLengths(r.freeTextLengths))>>
        \o [b \in DOMAIN r.bills |->
              IF r.bills[b].value = "absent" THEN Check(FALSE, NoViolation)
              ELSE Nested(FirstViolation(<<
                       Nested(ValidateAmount(r.bills[b], "billDetails.billAmount")),
                       Check(r.bills[b].currency # r.paidAmount.currency,
                             BadFormat("billDetails.billAmount.currency"))>>))])

ValidatePaymentStrictMandatory(r) ==
    FirstViolation(<<
        Check(r.texts.virtualAccountName = 0, Mandatory("virtualAccountName")),
        Check(r.channelCode = "absent", Mandatory("channelCode")),
        Check(r.totalAmount.value = "absent", Mandatory("totalAmount")),
        Check(~r.trxDateTime, Mandatory("trxDateTime")),
        Check(r.flagAdvise = "absent", Mandatory("flagAdvise"))>>)

ValidatePaymentRequest(r, strictMandatory) ==
    FirstViolation(<<
        Nested(RequireVAIdentity(r.id, MaxPaymentCustomerNo, MaxPaymentVirtualAccountNo)),
        Check(r.paymentRequestId = 0, Mandatory("paymentRequestId")),
        Check(r.paymentRequestId > MaxPaymentRequestID, BadFormat("paymentRequestId")),
        Check(r.paidAmount.value = "absent", Mandatory("paidAmount")),
        Nested(ValidateAmount(r.paidAmount, "paidAmount")),
        Nested(ValidatePaidAmountValue(r.paidAmount)),
        Nested(ValidatePaymentOptionalLengths(r)),
        Nested(ValidatePaymentAmountsAndBills(r)),
        Nested(IF strictMandatory THEN ValidatePaymentStrictMandatory(r) ELSE NoViolation)>>)

PaidAmountViolationIsInvalidAmount(v) == v = BadFormat("paidAmount.value")

-----------------------------------------------------------------------------
(* Status                                                                  *)

ValidateStatusRequest(r) ==
    FirstViolation(<<
        Nested(RequireVAIdentity(r.id, MaxPaymentCustomerNo, MaxPaymentVirtualAccountNo)),
        Check(r.inquiryRequestId = 0, Mandatory("inquiryRequestId")),
        Check(r.inquiryRequestId > MaxPaymentRequestID, BadFormat("inquiryRequestId"))>>)

-----------------------------------------------------------------------------
(* Answers                                                                 *)

\* violationCode, for the service s of {"24", "25", "26"}.
ViolationCode(s, v) == IF v.kind = "mandatory" THEN <<"400", s, "02">> ELSE <<"400", s, "01">>

CodePaymentInvalidAmt == <<"404", "25", "13">>
Passed == <<"200">>

\* What the handlers answer before the usecase is called, Passed if it is.
InquiryAnswer(r, strict) ==
    LET v == ValidateInquiryRequest(r, strict)
    IN  IF v = NoViolation THEN Passed ELSE ViolationCode("24", v)

PaymentAnswer(r, strict) ==
    LET v == ValidatePaymentRequest(r, strict)
    IN  IF v = NoViolation THEN Passed
        ELSE IF PaidAmountViolationIsInvalidAmount(v) THEN CodePaymentInvalidAmt
        ELSE ViolationCode("25", v)

StatusAnswer(r) ==
    LET v == ValidateStatusRequest(r)
    IN  IF v = NoViolation THEN Passed ELSE ViolationCode("26", v)
=============================================================================
