---------------------------- MODULE StreamClaims ----------------------------
(***************************************************************************)
(* What the repository's documents say of transfers and the code does not  *)
(* do: a run finds it violated.                                            *)
(***************************************************************************)
EXTENDS MCStream

\* README.md:284: after a transfer "only the new recipient may withdraw".
\* The grants the old recipient issued would have to go with it; one held by
\* the new recipient itself is left out of account.
OnlyNewRecipientWithdraws ==
    [][ \A id \in DOMAIN streams :
            streams'[id].recipient # streams[id].recipient =>
                \A k \in DOMAIN grants' :
                    k[1] = id /\ k[2] # streams'[id].recipient =>
                        "WITHDRAW" \notin grants'[k].ops ]_vars
=============================================================================
