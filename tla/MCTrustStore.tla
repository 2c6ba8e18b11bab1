---------------------------- MODULE MCTrustStore ----------------------------
(* Instances of TrustStore: one backup with a verified, one with a blocked *)
(* and one with an expiring entry.                                         *)
EXTENDS TrustStore

CONSTANT p1

MCBackup(l, b, e) == [p \in Peers |-> [level |-> l, wasBlocked |-> b, expires |-> e]]
MCExports == {MCBackup("verified", FALSE, 0), MCBackup("blocked", TRUE, 0),
              MCBackup("tofu", FALSE, 1)}
=============================================================================
