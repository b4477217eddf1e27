------------------------ MODULE MCContractWorkspace ------------------------
(***************************************************************************)
(* Instances of ContractWorkspace for TLC.                                 *)
(***************************************************************************)
EXTENDS ContractWorkspace, TLC

CONSTANTS t1, c1, v1, v2

\* Two definitions that agree on one of three values; each refuses a body the
\* other takes.  An edit reads a body differently from a creation: it may clear
\* keys that would get a default.
MCResolve ==
  [d1 |-> [i1 |-> "a", i2 |-> "b", i3 |-> None],
   d2 |-> [i1 |-> None, i2 |-> "b", i3 |-> "c"]]
MCResolveEdit ==
  [d1 |-> [i1 |-> "b", i2 |-> "a", i3 |-> None],
   d2 |-> [i1 |-> None, i2 |-> "b", i3 |-> "c"]]

\* Bounds: the highest revision a command may expect.  A contract gets at most
\* one revision more, a template too, so as many versions are enough.
MaxExpected == 3
MaxExpectedTemplate == 1

Publications(ts, ds) ==
  [kind: {"publish"}, tenant: ts, expected: 0..MaxExpectedTemplate,
   definition: ds]
Creations(ts, is) == [kind: {"create"}, tenant: ts, input: is]
Edits(ts, cs, ns, is) ==
  [kind: {"edit"}, tenant: ts, contract: cs, expected: ns, input: is]
Migrations(ts, cs, ns, vs, is) ==
  [kind: {"migrate"}, tenant: ts, contract: cs, expected: ns, target: vs,
   input: is]
Transitions(ts, cs, ns) ==
  [kind: {"activate", "close"}, tenant: ts, contract: cs, expected: ns]

\* Everything two requests of one tenant can do to one contract.
PairCommands ==
  Publications({t1}, {"d1", "d2", None})
    \cup Creations({t1}, {"i1", "i2"})
    \cup Edits({t1}, {c1}, 1..MaxExpected, {"i1"})
    \cup Migrations({t1}, {c1}, 1..MaxExpected, {v1, v2}, {"i3"})
    \cup Transitions({t1}, {c1}, 1..MaxExpected)
    \cup Edits({t1}, Unissued, {1}, {"i1"})

\* Three requests that meet at the locks of one tenant.
TrioCommands ==
  [kind: {"publish"}, tenant: {t1}, expected: {0, 1}, definition: {"d1", "d2"}]
    \cup Creations({t1}, {"i2"})
    \cup Edits({t1}, {c1}, {1}, {"i1"})
    \cup Migrations({t1}, {c1}, {1}, {v2}, {"i2"})
    \cup [kind: {"activate"}, tenant: {t1}, contract: {c1}, expected: {1, 2}]

\* One command for each order of locks a request may take, for three requests.
LiveCommands ==
  [kind: {"publish"}, tenant: {t1}, expected: {0}, definition: {"d1"}]
    \cup Creations({t1}, {"i2"})
    \cup Migrations({t1}, {c1}, {1}, {v1}, {"i1"})
    \cup [kind: {"activate"}, tenant: {t1}, contract: {c1}, expected: {1}]

PairSymmetry == Permutations(Requests) \cup Permutations(Versions)

=============================================================================
