--------------------------- MODULE SessionLedger ---------------------------
(***************************************************************************)
(* What the session store of one organization promises, whatever its      *)
(* statements and their interleavings are.  An identifier is issued once,  *)
(* to one holder, and it dies once: no step hands a dead identifier back,  *)
(* moves it to another person or issues two identifiers together.          *)
(* Sessions.tla is shown to implement this module.                         *)
(***************************************************************************)

CONSTANTS Sids,     \* session identifiers
          Holders   \* people a session may belong to (with "nobody yet")

VARIABLES status,   \* status[s] : "unissued", "live" or "dead"
          holder    \* holder[s] : the person the identifier was issued to

ledgerVars == <<status, holder>>

LedgerInit ==
    /\ status = [s \in Sids |-> "unissued"]
    /\ holder \in [Sids -> Holders]

(* Sessions of K end and, in the same step, the identifiers of N (at most  *)
(* one) are issued.  An identifier may be born dead: its lifetime is up to *)
(* whoever issues it.                                                      *)
EndAndIssue(K, N) ==
    /\ \A s \in K : status[s] = "live"
    /\ \A s \in N : status[s] = "unissued"
    /\ \A s, t \in N : s = t
    /\ \A s \in Sids :
          /\ s \in K => status'[s] = "dead"
          /\ s \in N => status'[s] \in {"live", "dead"}
          /\ s \notin K \cup N => status'[s] = status[s]
          /\ s \notin N => holder'[s] = holder[s]

LedgerNext == \E K, N \in SUBSET Sids : EndAndIssue(K, N)

LedgerSpec == LedgerInit /\ [][LedgerNext]_ledgerVars
=============================================================================
