----------------------------- MODULE Allowlist ------------------------------
(***************************************************************************)
(* What core/proxy.py makes of the domains a desk may reach: the entries   *)
(* of the allowlist smokescreen reads.  A domain pattern is the sequence   *)
(* of its labels, "*" for the star.                                        *)
(***************************************************************************)
EXTENDS Integers, Sequences

\* split_globs: exact hosts, and domains with all below them; "*" has no counterpart.
SplitGlobs(reach) ==
  LET wild == {p \in reach : Len(p) > 1 /\ p[1] = "*"}
  IN [hosts |-> reach \ (wild \union {<<"*">>, <<"">>}),
      domains |-> {Tail(p) : p \in wild} \ {<<"">>}]
=============================================================================
