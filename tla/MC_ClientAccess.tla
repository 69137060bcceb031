-------------------------- MODULE MC_ClientAccess --------------------------
(* ClientAccess with a legacy vendor that pins nothing, and a migrated one  *)
(* with pinned headers, a ClientID and strict fields.                       *)
EXTENDS ClientAccess, TLC

CONSTANTS c1, k1, k2, s1, s2, p1, p2

Symmetry == Permutations({k1, k2}) \cup Permutations({s1, s2})

LegacyVendor ==
    [name |-> "legacy", partner |-> {}, channel |-> {}, client |-> None,
     strict |-> FALSE, required |-> {}, hash |-> "base64"]

MigratedVendor ==
    [name |-> "migrated", partner |-> {"company"}, channel |-> {"va"}, client |-> c1,
     strict |-> TRUE, required |-> {"timestamp", "signature", "clientKey"}, hash |-> "hex"]

MCVendors == <<LegacyVendor, MigratedVendor>>

\* What each vendor is to send, and the same with one header changed.
OfLegacy ==
    [timestamp |-> "fresh", partner |-> None, channel |-> None, externalId |-> "alnum",
     signature |-> Signed("legacy", None, "base64")]

OfMigrated ==
    [timestamp |-> "fresh", partner |-> "company", channel |-> "va", externalId |-> "numeric",
     signature |-> Signed("migrated", "sent", "hex")]

Changed(h) ==
    {h} \cup {[h EXCEPT !.timestamp = t] : t \in {None, "malformed", "stale"}}
        \cup {[h EXCEPT !.partner = x] : x \in {None, "other"}}
        \cup {[h EXCEPT !.channel = x] : x \in {None, "other"}}
        \cup {[h EXCEPT !.externalId = x] : x \in {None, "alnum", "long"}}
        \cup {[h EXCEPT !.signature = x] :
                x \in {None, OfLegacy.signature, OfMigrated.signature,
                       [OfMigrated.signature EXCEPT !.token = "another"]}}

MCHeaders == Changed(OfLegacy) \cup Changed(OfMigrated)
=============================================================================
