--------------------------- MODULE MCRecoveryCases ---------------------------
(* Small instances of RecoveryCases for TLC. *)
EXTENDS RecoveryCases, TLC

\* Two actions are enough to tell a counted retry from anything else, plus the
\* STOP that the policy engine forces.
MCActions == { "RETRY", "SEND_RECOVERY_LINK", "STOP" }
MCFewActions == { "RETRY", "STOP" }

Symmetry == Permutations(Handlers) \cup Permutations(Workers) \cup Permutations(Reviewers)
=============================================================================
