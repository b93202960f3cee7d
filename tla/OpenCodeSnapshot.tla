-------------------------- MODULE OpenCodeSnapshot --------------------------
(***************************************************************************)
(* What the OpenCode adapter makes of a session: of its messages and of    *)
(* their parts, as they are in the tables message and part of OpenCode's   *)
(* database, or in a snapshot that was exported from them.                 *)
(*                                                                         *)
(* messages[m]  whether message m is of a speaking role                    *)
(* parts[p]     [message, type, status] of part p                          *)
(*                                                                         *)
(* Messages and parts are known by their place in the order of             *)
(* (time_created, id).  The status of a text is "blank" or "written", of a *)
(* tool call "pending", "running", "completed" or "error", of any other    *)
(* part "plain".                                                           *)
(***************************************************************************)
EXTENDS Naturals, FiniteSets

CONSTANT MaxParts   \* bound: the places of parts

ASSUME PartsAssumption == MaxParts \in Nat

\* Mutant: a call that failed is not answered.
Completed(part) == part.status = "completed"

\* TOOL_RESULT_STATUSES
Finished(part) == part.status \in {"completed", "error"}

PartEventId(p, kind) == <<p, kind>>

\* normalizePart: the kinds of the events of a part of a message that is known,
\* in order.
KindsOfPart(part, speaking) ==
    CASE part.type = "text"  -> IF speaking /\ part.status # "blank" THEN <<"message">> ELSE <<>>
      [] part.type = "tool"  -> IF Finished(part) THEN <<"tool_call", "tool_result">>
                                                  ELSE <<"tool_call">>
      [] part.type = "other" -> <<"unknown">>

\* Parts are sorted within their message, messages among each other.  A part of
\* a message that was not read has no place.
PartRank(parts, p, i) == 2 * (parts[p].message * (MaxParts + 1) + p) + i

\* normalizeOpenCodeSnapshot
SnapshotListing(messages, parts) ==
    LET kinds(p) == KindsOfPart(parts[p], messages[parts[p].message])
        placed == {p \in DOMAIN parts : parts[p].message \in DOMAIN messages}
        ids == UNION {{PartEventId(p, kinds(p)[i]) : i \in DOMAIN kinds(p)} : p \in placed}
    IN  [id \in ids |->
           LET p == id[1]
           IN  PartRank(parts, p, CHOOSE i \in DOMAIN kinds(p) : kinds(p)[i] = id[2])]
=============================================================================
