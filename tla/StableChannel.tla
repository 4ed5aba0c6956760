---------------------------- MODULE StableChannel ----------------------------
(***************************************************************************)
(* What the stable channel promises an APT client, with nothing of how it  *)
(* is produced.  A client trusts a signed catalogue; it can install the    *)
(* entries of the catalogue that the server has in exactly the signed      *)
(* form.  While a publication is running or after one that broke off, less *)
(* of the catalogue may be available, but never anything else.             *)
(***************************************************************************)

CONSTANT Files        \* every package file there could be

VARIABLES
    accepted,         \* files that passed every acceptance check
    catalogue,        \* files the valid signature vouches for
    available         \* those of them that a client can install now

channelVars == <<accepted, catalogue, available>>

ChannelInit ==
    /\ accepted = {}
    /\ catalogue = {}
    /\ available = {}

(* Files pass their last check; that is never taken back.                    *)
Accept ==
    /\ accepted' \in {accepted \cup new : new \in SUBSET Files}
    /\ UNCHANGED <<catalogue, available>>

(* The server loses or regains files of the catalogue.                       *)
Disturb ==
    /\ available' \in SUBSET catalogue
    /\ UNCHANGED <<accepted, catalogue>>

(* A new catalogue of accepted files is signed, all of them available.       *)
Publish ==
    /\ catalogue' \in SUBSET accepted
    /\ available' = catalogue'
    /\ UNCHANGED accepted

(* A publication breaks off while it signs: no signature is valid.           *)
Void ==
    /\ catalogue' = {}
    /\ available' = {}
    /\ UNCHANGED accepted

ChannelNext == Accept \/ Disturb \/ Publish \/ Void

ChannelSpec == ChannelInit /\ [][ChannelNext]_channelVars
=============================================================================
