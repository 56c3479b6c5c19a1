---------------------------- MODULE Observation -----------------------------
(***************************************************************************)
(* internal/observe and the classification half of the supervisor's status *)
(* row (cmd/aa-server-status/engine.go): what one look at a process tree,   *)
(* or at the whole host, says about a server's declared ports.             *)
(*                                                                         *)
(* A look walks the tree: where the children of a member cannot be listed, *)
(* its descendants are missing from the walk and nothing says so.  It reads *)
(* each member it has reached.  A read is truthful ("true"), it fails      *)
(* ("error"), it succeeds and returns no rows although the member listens  *)
(* ("empty"), or the ports come back and the command line does not         *)
(* ("cmdline").  The host-wide scan that corroborates an empty read may    *)
(* fail or return no rows at all, and then it is not ok, or return only    *)
(* some of the rows.  Looking up the root may fail for a reason that does  *)
(* not say the root is gone ("transient").                                 *)
(***************************************************************************)
EXTENDS FiniteSets

Reads == {"true", "error", "empty", "cmdline"}
Roots == {"true", "transient"}

\* What a host-wide scan returns, and the whole of it.
Scans(listening) == {[ok |-> FALSE, rows |-> {}]} \cup [ok : {TRUE}, rows : SUBSET listening]
wholeScan(listening) == [ok |-> TRUE, rows |-> listening]

\* collectTreeProcesses: the members a walk may reach.
Walks(held) == {walk \in SUBSET DOMAIN held : "leader" \in walk}

\* listeningPorts: the ports one member's read returns.
listeningPorts(held, read) == IF read \in {"true", "cmdline"} THEN held ELSE {}

\* hostCorroboration.holdsListen: a row that a partial scan lacks reads as empty.
holdsListen(held, scan) ==
    CASE ~scan.ok -> "failed"
      [] scan.ok /\ held \cap scan.rows # {} -> "holds"
      [] OTHER -> "empty"

\* Fault: an empty read that the scan could not corroborate counts as empty.
NoCorroboration(held, scan) == holdsListen(held, scan) = "holds"

\* hostCorroboration.ambiguousEmptyReadIsDegraded: only a scan that worked and
\* found nothing makes an empty read an answer.
ambiguousEmptyReadIsDegraded(held, scan) == holdsListen(held, scan) # "empty"

\* Whether treeListenSet adds the member to Degraded.
degradedRead(held, read, scan) ==
    \/ read = "error"
    \/ read = "cmdline" /\ held # {}
    \/ /\ read # "error"
       /\ listeningPorts(held, read) = {}
       /\ ambiguousEmptyReadIsDegraded(held, scan)

\* treeListenSet over the members of the tree `held' (member -> ports) that the
\* walk has reached; alive says whether the root is a process at all.
treeListenSet(alive, held, look) ==
    [err      |-> CASE look.root = "transient" -> "unconfirmed"
                    [] look.root = "true" /\ ~alive -> "gone"
                    [] OTHER -> "none",
     holders  |-> UNION {listeningPorts(held[m], look.reads[m]) : m \in look.walk},
     degraded |-> {m \in look.walk : degradedRead(held[m], look.reads[m], look.scan)}]

\* observeOwnedTree: an error reads as an empty tree; only "gone" is confirmed.
observeOwnedTree(alive, held, look) ==
    LET obs == treeListenSet(alive, held, look)
    IN  [holders     |-> IF obs.err = "none" THEN obs.holders ELSE {},
         foreign     |-> {},
         degraded    |-> IF obs.err = "none" THEN obs.degraded ELSE {},
         unconfirmed |-> obs.err = "unconfirmed"]

\* hostObservationFor: every holder of a declared port is foreign; a scan that
\* fails reads as an empty host.
hostObservationFor(declared, scan) ==
    LET seen == declared \cap scan.rows
    IN  [holders |-> seen, foreign |-> seen, degraded |-> {}, unconfirmed |-> FALSE]

Classify(declared, obs) ==
    CASE obs.holders \ declared # {} -> "StrayPort"
      [] obs.holders \subseteq declared /\ declared \ obs.holders # {} -> "Partial"
      [] OTHER -> "CandidateUp"

isUnconfirmedObservation(isOurs, obs) ==
    isOurs /\ obs.holders = {} /\ (obs.unconfirmed \/ obs.degraded # {})

classifyOwned(class) ==
    CASE class = "StrayPort" -> "extra-listener"
      [] class = "Partial" -> "partial"
      [] OTHER -> "up"

\* statusForLocked: the STATE column.
statusState(declared, isOurs, detached, obs) ==
    LET class == Classify(declared, obs)
    IN  IF obs.holders = {} /\ ~isUnconfirmedObservation(isOurs, obs) THEN "down"
        ELSE IF isOurs /\ ~detached THEN classifyOwned(class)
        ELSE IF detached /\ class = "CandidateUp" THEN "up"
        ELSE IF obs.foreign # {} THEN "STRAY"
        ELSE IF class = "StrayPort" THEN "extra-listener"
        ELSE "partial"
============================================================================
