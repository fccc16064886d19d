---------------------------- MODULE MCEntryAccess ----------------------------
(* EntryAccess on small instances, for TLC. *)
EXTENDS EntryAccess, TLC

\* ann is an administrator, ola a member, bot a service account of ann.
Roles == [bot |-> "ann"]
People == {"ann", "ola", "bot"}
Admins == {"ann"}
Services == {"bot"}

\* Reading for good, writing until the only instant that passes.
TwoOffers == {[permission |-> "read", expires |-> Never],
              [permission |-> "write", expires |-> 1]}
\* A folder's name only has to differ from another one.
Symmetry == Permutations(Name)

WriteForGood == {[permission |-> "write", expires |-> Never]}
=============================================================================
