---------------------------- MODULE MCMacAddress ----------------------------
EXTENDS MacAddressProps

\* Two company bytes: one with no bit set, one with one bit set.
MCCompanyByte == [n \in CompanyIdx |-> IF n = RandLen THEN {} ELSE {0}]
=============================================================================
