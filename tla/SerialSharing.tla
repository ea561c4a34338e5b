---------------------------- MODULE SerialSharing ----------------------------
(***************************************************************************)
(* The journey under clients that wait for each answer (one request slot   *)
(* and the worker): the services then implement SharingContract, and the   *)
(* passes of the worker between the steps of a request change nothing that *)
(* the contract speaks of.  An upload takes effect when it has read the    *)
(* active consent, every other operation when it commits.                  *)
(***************************************************************************)
EXTENDS JourneySharing

ASSUME SerialAssumption == \A r, s \in Slots \ {Worker} : r = s

Granted == {v \in Visitors : HasActiveConsent(v)}

Uploading == {req[r].who : r \in {s \in Slots : Is(s, "Upload", "ready")}}

Accepted == located \cup Uploading

Lapsed == clock >= ExpiresAt

Contract == INSTANCE SharingContract WITH
  granted <- Granted, accepted <- Accepted, lapsed <- Lapsed

\* Each request, served beside no other, does one operation of the contract or nothing:
\* the guards of the handlers, the consent gates, the completion with the last
\* visitor and the revocation on arrival and removal together add up to it.
ContractHolds == Contract!ContractSpec

\* Served alone, a host's account deletion leaves no open journey of that host
\* and a visitor's leaves no active consent of that visitor (delete_me).
DeletionEndsSharing ==
  /\ Host \in deleted => journey \notin Open
  /\ \A v \in Visitors \cap deleted : ~HasActiveConsent(v)

=============================================================================
