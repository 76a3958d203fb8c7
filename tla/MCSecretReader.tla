--------------------------- MODULE MCSecretReader ---------------------------
(***************************************************************************)
(* SecretReader for TLC.  A run may start with any form that editing can   *)
(* lead to, so that MaxActs is left for what happens after that.  The two  *)
(* policies that only the form reads vary where PREFETCH_SECRET has its    *)
(* default.                                                                *)
(***************************************************************************)
EXTENDS SecretReader, TLC

Forms == {[FreshForm(page) EXCEPT !.oneTime = o, !.generateKey = g,
                                  !.custom = c, !.readReceipt = FALSE,
                                  !.file = f] :
            page \in CreatePages, o \in BOOLEAN, g \in BOOLEAN,
            c \in Custom \union {NoKey}, f \in BOOLEAN}

MCInit ==
  /\ CreatorInitButForm /\ ReaderInit
  /\ config.forceOneTime \/ config.readReceipts => config.prefetch
  /\ form \in {f \in Forms : /\ f.page = "create" => ~f.file
                             /\ config.forceOneTime => f.oneTime}
MCSpec == MCInit /\ [][Next]_vars

Symmetry == Permutations(Ids) \union Permutations(Generated)
              \union Permutations(Posts) \union Permutations(Gets)
============================================================================
