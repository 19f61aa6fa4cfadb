------------------------- MODULE MCDnsSearchListEnv -------------------------
EXTENDS DnsSearchListEnv, MCDnsSearchList
=============================================================================
