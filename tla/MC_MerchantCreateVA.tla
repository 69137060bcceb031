------------------------ MODULE MC_MerchantCreateVA ------------------------
(* TLC instances of MerchantCreateVA.                                      *)
EXTENDS MerchantCreateVA, TLC

\* The seed of master_va_type; of the billed types, the fixed ones.
MCRules ==
    {[type |-> "01", partner |-> "15973", dynamic |-> FALSE, billing |-> "none"],
     [type |-> "03", partner |-> "15975", dynamic |-> FALSE, billing |-> "fixed"],
     [type |-> "04", partner |-> "15973", dynamic |-> TRUE, billing |-> "none"],
     [type |-> "06", partner |-> "15975", dynamic |-> TRUE, billing |-> "fixed"]}

NoBillPartner == [id |-> "15973", len |-> 8]
BilledPartner == [id |-> "15975", len |-> 8]
Unpadded      == [id |-> "15975", len |-> 5]
LegacyPartner == [id |-> "77777", len |-> 5]
\* One character more than the column holds: nothing of it is ever stored.
LongPartner   == [id |-> "777777777", len |-> 9]

\* Merchants' customerNos at the limit, above it and below it, and one that looks like a
\* generated one.
AtLimit == [no |-> <<"merchant", 1>>, len |-> 18]
TooLong == [no |-> <<"merchant", 2>>, len |-> 21]
Short   == [no |-> <<"merchant", 3>>, len |-> 10]
LikeGenerated == [no |-> <<"06", 1>>, len |-> 18]

MCReserved == {"15973", "15975"}
MCPartners == {NoBillPartner, BilledPartner, LegacyPartner, LongPartner}
MCCustomers == {AtLimit, TooLong, Short}
MCBilledPartners == {BilledPartner}
MCBothSpellings == {BilledPartner, Unpadded}
MCOneCustomer == {AtLimit}
MCLikeGenerated == {AtLimit, LikeGenerated}
MCOwnVAs == {[partner |-> "own", cust |-> <<"own", 1>>, len |-> 20]}
MCNoOwnVAs == {}

Symmetry == Permutations(Callers)
=============================================================================
