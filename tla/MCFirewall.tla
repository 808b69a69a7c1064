----------------------------- MODULE MCFirewall -----------------------------
EXTENDS Firewall

CONSTANTS r1, r2, r3, a, b, c

\* Three rulesets: two that share a rule, one of them with an empty rule, and a
\* third one that has nothing in common with them.
MCRules(r) ==
  CASE r = r1 -> <<a, b>>
    [] r = r2 -> <<b, EmptyRule, c>>
    [] r = r3 -> <<c>>
=============================================================================
