--------------------------- MODULE MCContractReads ---------------------------
(***************************************************************************)
(* Instances of ContractReads for TLC.                                     *)
(***************************************************************************)
EXTENDS ContractReads, MCContractWorkspace

CONSTANT t2

\* One writer after the other: a read sees nothing of a request but its commit.
\* The second tenant publishes once and names the contracts and the versions of
\* the first in every kind of command.
WriteCommands ==
  Publications({t1}, {"d1", "d2"})
    \cup Creations({t1}, {"i2"})
    \cup Edits({t1}, {c1}, {1, 2}, {"i1"})
    \cup Migrations({t1}, {c1}, {1, 2}, Versions, {"i3"})
    \cup Transitions({t1}, {c1}, 1..MaxExpected)
    \cup [kind: {"publish"}, tenant: {t2}, expected: {0}, definition: {"d1"}]
    \cup Edits({t2}, {c1}, {1}, {"i1"})
    \cup Migrations({t2}, {c1}, {1}, Versions, {"i2"})
    \cup Transitions({t2}, {c1}, {1})

ReadQuestions ==
  [kind: {"detail", "history"}, tenant: Tenants, contract: {c1}]
    \cup [kind: {"detail", "history"}, tenant: {t1}, contract: Unissued]
    \cup [kind: {"template"}, tenant: Tenants]

ReadSymmetry == Permutations(Versions)

=============================================================================
