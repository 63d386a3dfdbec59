------------------------------ MODULE MCServer ------------------------------
(* Instances of Server for TLC. *)
EXTENDS Server, SequencesExt

CONSTANTS limited, directed, host, client

MCBroadcasts == <<directed, limited>>

\* Codes that a reply holds or may hold, and one that it never does (15).
Asked == {SUBNET_MASK, DOMAIN_NAME_SERVER, NETWORK_TIME_PROTOCOL_SERVERS,
          SERVER_IDENTIFIER, MESSAGE, 15}

\* Up to three of them in any order, repeats included.
MCRequestList == BoundedSeq(Asked, 3)
=============================================================================
