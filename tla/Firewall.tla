------------------------------ MODULE Firewall ------------------------------
(***************************************************************************)
(* The firewall manager (internal/firewall/manager.go): ApplyRevision as   *)
(* the sequence of iptables commands it is.                                *)
(*                                                                         *)
(* Every command may fail: the xtables lock is held by someone else, the   *)
(* rule is rejected, the context is cancelled and the command killed, with *)
(* or without its effect.  The process may die between two commands, and   *)
(* the host may reboot, which empties the tables.  iptables itself is not  *)
(* part of the repository.                                                 *)
(***************************************************************************)
EXTENDS Integers, Sequences, SequencesExt

CONSTANTS
  Revisions,     \* the rulesets the controller may send
  Rules(_),      \* the rules of a revision; EmptyRule has no arguments
  EmptyRule,
  NoRevision,    \* none of the revisions
  MaxLinks       \* bound on the jumps in DOCKER-USER

AllRules == UNION {Range(Rules(r)) : r \in Revisions}

ASSUME FirewallAssumption ==
  /\ Revisions # {} /\ NoRevision \notin Revisions
  /\ \A r \in Revisions : Rules(r) \in Seq(AllRules)
  /\ MaxLinks \in Nat

VARIABLES
  chain,         \* the rules in ROUTESTACK-FWD
  exists,        \* whether ROUTESTACK-FWD exists
  docker,        \* whether DOCKER-USER exists
  links,         \* how many jumps to ROUTESTACK-FWD it has
  blind,         \* whether a listing of it has failed although it exists (history)
  pc,            \* the next command of ApplyRevision, "idle" outside
  rev,           \* the revision it applies or applied last
  i,             \* how many rules it has gone through
  result         \* what the last call returned, "none" after a reboot

tables == <<chain, exists, docker, links, blind>>
call   == <<pc, rev, i, result>>
vars   == <<tables, call>>

Commands == {"create", "list", "create_docker", "link", "flush", "append"}

\* The rules among the first n of a revision that ApplyRevision adds: it skips the
\* empty ones.
Kept(r) ==
  LET kept[n \in 0 .. Len(Rules(r))] ==
        IF n = 0 THEN <<>>
        ELSE IF Rules(r)[n] = EmptyRule THEN kept[n - 1]
        ELSE Append(kept[n - 1], Rules(r)[n])
  IN  kept

Effective(r) == Kept(r)[Len(Rules(r))]

TypeOK ==
  /\ chain \in Seq(AllRules)
  /\ exists \in BOOLEAN /\ docker \in BOOLEAN /\ blind \in BOOLEAN
  /\ links \in 0 .. MaxLinks
  /\ pc \in Commands \cup {"idle"}
  /\ rev \in Revisions \cup {NoRevision}
  /\ i \in Nat
  /\ result \in {"none", "ok", "error"}

\* Docker may or may not have been started on the host.
Init ==
  /\ chain = <<>> /\ exists = FALSE /\ links = 0 /\ blind = FALSE
  /\ docker \in BOOLEAN
  /\ pc = "idle" /\ rev = NoRevision /\ i = 0 /\ result = "none"
-----------------------------------------------------------------------------
Goto(cmd)   == pc' = cmd /\ UNCHANGED <<rev, i, result>>
Return(res) == pc' = "idle" /\ result' = res /\ UNCHANGED <<rev, i>>

\* The handler calls ApplyRevision (a negative revision is refused at once, and
\* has no effect).
ApplyRevision(r) ==
  /\ pc = "idle"
  /\ pc' = "create" /\ rev' = r /\ i' = 0 /\ result' = "none"
  /\ UNCHANGED tables

\* iptables -N ROUTESTACK-FWD, whatever it returns.
CreateChain ==
  /\ pc = "create"
  /\ exists' \in BOOLEAN /\ (exists => exists')
  /\ Goto("list")
  /\ UNCHANGED <<chain, docker, links, blind>>

\* Mutant: the chain is linked at every call.
LinkAnyway ==
  /\ pc = "list" /\ docker
  /\ Goto("link")
  /\ UNCHANGED tables

\* iptables -L DOCKER-USER shows whether the jump is there.
ListLinks ==
  /\ pc = "list" /\ docker
  /\ Goto(IF links > 0 THEN "flush" ELSE "link")
  /\ UNCHANGED tables

\* The listing fails, for which a missing chain is only one of the reasons.
ListFails ==
  /\ pc = "list"
  /\ blind' = (blind \/ docker)
  /\ Goto("create_docker")
  /\ UNCHANGED <<chain, exists, docker, links>>

\* iptables -N DOCKER-USER, whatever it returns.
CreateDockerUser ==
  /\ pc = "create_docker"
  /\ docker' \in BOOLEAN /\ (docker => docker')
  /\ Goto("link")
  /\ UNCHANGED <<chain, exists, links, blind>>

\* iptables -I DOCKER-USER 1 -j ROUTESTACK-FWD.
InsertLink ==
  /\ pc = "link" /\ docker /\ exists /\ links < MaxLinks
  /\ links' = links + 1
  /\ Goto("flush") \/ Return("error")
  /\ UNCHANGED <<chain, exists, docker, blind>>

\* Mutant: the chain is not flushed.
SkipFlush ==
  /\ pc = "flush" /\ exists
  /\ Goto("append")
  /\ UNCHANGED tables

\* iptables -F ROUTESTACK-FWD.
Flush ==
  /\ pc = "flush" /\ exists
  /\ chain' = <<>>
  /\ Goto("append") \/ Return("error")
  /\ UNCHANGED <<exists, docker, links, blind>>

More == i < Len(Rules(rev))

\* A rule without arguments is passed over.
SkipRule ==
  /\ pc = "append" /\ More /\ Rules(rev)[i + 1] = EmptyRule
  /\ i' = i + 1
  /\ UNCHANGED <<pc, rev, result, tables>>

\* iptables -A ROUTESTACK-FWD <rule>.
AppendRule ==
  /\ pc = "append" /\ More /\ Rules(rev)[i + 1] # EmptyRule
  /\ chain' = Append(chain, Rules(rev)[i + 1])
  /\ \/ i' = i + 1 /\ UNCHANGED <<pc, rev, result>>
     \/ Return("error")
  /\ UNCHANGED <<exists, docker, links, blind>>

\* Mutant: a call that has added some rules has a result of its own.
ReportPartial ==
  /\ pc \in {"link", "flush", "append"}
  /\ pc = "append" => More /\ Rules(rev)[i + 1] # EmptyRule
  /\ Return(IF i > 0 THEN "partial" ELSE "error")
  /\ UNCHANGED tables

\* Mutant: a rule that is refused is passed over, and only logged.
TolerateFailure ==
  /\ pc \in {"link", "flush", "append"}
  /\ pc = "append" => More
  /\ \/ pc # "append" /\ Return("error")
     \/ pc = "append" /\ i' = i + 1 /\ UNCHANGED <<pc, rev, result>>
  /\ UNCHANGED tables

\* A command whose result counts fails without an effect.
CommandFails ==
  /\ pc \in {"link", "flush", "append"}
  /\ pc = "append" => More /\ Rules(rev)[i + 1] # EmptyRule
  /\ Return("error")
  /\ UNCHANGED tables

\* All rules are in place.
Finish ==
  /\ pc = "append" /\ ~More
  /\ Return("ok")
  /\ UNCHANGED tables
-----------------------------------------------------------------------------
\* The process dies in the middle of a call.
Crash ==
  /\ pc # "idle"
  /\ Return("error")
  /\ UNCHANGED tables

\* The host reboots: the tables are empty until Docker and the agent fill them.
Reboot ==
  /\ chain' = <<>> /\ exists' = FALSE /\ docker' = FALSE /\ links' = 0
  /\ blind' = FALSE
  /\ Return("none")

\* Docker starts and creates its chain.
DockerStarts ==
  /\ ~docker /\ docker' = TRUE
  /\ UNCHANGED <<chain, exists, links, blind, call>>

Command ==
  \/ CreateChain \/ ListLinks \/ ListFails \/ CreateDockerUser \/ InsertLink
  \/ Flush \/ SkipRule \/ AppendRule \/ CommandFails \/ Finish

Next ==
  \/ \E r \in Revisions : ApplyRevision(r)
  \/ Command \/ Crash \/ Reboot \/ DockerStarts

Spec == Init /\ [][Next]_vars
-----------------------------------------------------------------------------
\* A call that succeeds leaves the revision installed: all of its rules, in their
\* order and nothing else, in a chain to which DOCKER-USER jumps; whatever earlier
\* calls that failed or were killed have left behind.  (A DOCKER-USER that the agent
\* has created itself sees no traffic before Docker starts.)
SuccessMeansInstalled ==
  result = "ok" => exists /\ links > 0 /\ chain = Effective(rev)

\* The rules of two revisions are never in the chain together: at any moment it
\* holds a beginning of one revision.
NoMixedRevisions ==
  \E r \in Revisions : IsPrefix(chain, Effective(r))

\* Traffic passes the chain once: calls that are repeated, fail half-way or are
\* killed never leave a second jump, unless a listing of DOCKER-USER failed although
\* it was there.
OneJump == links > 1 => blind
=============================================================================
