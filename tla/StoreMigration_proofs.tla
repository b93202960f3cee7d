----------------------- MODULE StoreMigration_proofs -----------------------
(***************************************************************************)
(* The migration of a store, for any number of processes, Works and        *)
(* executions: Inv of StoreMigration is inductive.                         *)
(***************************************************************************)
EXTENDS StoreMigration, ListingLemmas, TLAPS

\* The Work that a rebuilt source session goes to has the execution.
LEMMA OwnerHas ==
    ASSUME Inv, NEW e, WorksOf(e) # {}
    PROVE  Owner(e) \in WorksOf(e)
<1>1. WorksOf(e) \in SUBSET Nat
  BY MigrationAssumption DEF Inv, TypeOK, WorksOf
<1>2. \E m \in WorksOf(e) : \A n \in WorksOf(e) : m <= n
  BY <1>1, NatLeast
<1> QED
  BY <1>2 DEF Owner, Min

\* The tables only move on.
Onward == \A t \in Tables : /\ shape[t] = "current" => shape'[t] = "current"
                            /\ shape[t] # "absent" => shape'[t] # "absent"
                            /\ shape[t] # "legacy" => shape'[t] # "legacy"

\* Only p moves.
Moves(p) == /\ pc' = [pc EXCEPT ![p] = pc'[p]]
            /\ saw' = [saw EXCEPT ![p] = saw'[p]]

\* What the others know stays true.
LEMMA OthersKnow ==
    ASSUME Inv, NEW p \in Procs, Moves(p), Onward, NEW q \in Procs, q # p
    PROVE  Known(q)'
<1>1. pc'[q] = pc[q] /\ saw'[q] = saw[q]
  BY DEF Moves, Inv, TypeOK
<1>2. Known(q)
  BY DEF Inv
<1>3. Core \subseteq Tables /\ "checkpoints" \in Tables
  BY DEF Core, Tables
<1>4. shape \in [Tables -> {"absent", "legacy", "current"}]
  BY DEF Inv, TypeOK
<1> QED
  BY <1>1, <1>2, <1>3, <1>4 DEF Known, Onward

\* What a step of p has to keep, when the others only keep what they know.
Good(p) == /\ Moves(p) /\ Onward
           /\ TypeOK' /\ StampsHonest' /\ KeysHold'
           /\ (shape["source_sessions"] = "absent" => sessions = {})'
           /\ Known(p)'

\* A step that does so keeps Inv.
LEMMA GoodKeeps == ASSUME Inv, NEW p \in Procs, Good(p) PROVE Inv'
<1>1. \A q \in Procs : Known(q)'
  <2> TAKE q \in Procs
  <2>1. CASE q = p
    BY <2>1 DEF Good
  <2>2. CASE q # p
    BY <2>2, OthersKnow DEF Good
  <2> QED
    BY <2>1, <2>2
<1> QED
  BY <1>1 DEF Good, Inv

-----------------------------------------------------------------------------
(* One step at a time. *)

\* The shapes a table can have.
Shapes == {"absent", "legacy", "current"}

\* Steps that only read, or end: the tables stay as they are.
LEMMA ReadStep ==
    ASSUME Inv, NEW p \in Procs, UNCHANGED tables, started' \in 0..MaxCommands,
           Moves(p), pc'[p] \in Steps, saw'[p] \in [Tables -> Shapes],
           writer' \in Procs \cup {None}, \A q \in Procs : writer' = q <=> pc'[q] = "rebuild",
           Known(p)'
    PROVE  Inv'
<1>1. /\ shape' = shape /\ odd' = odd /\ works' = works /\ execs' = execs
      /\ sessions' = sessions /\ events' = events /\ ckpts' = ckpts /\ stamps' = stamps
  BY DEF tables
<1>2. TypeOK
  BY DEF Inv
<1>3. pc' \in [Procs -> Steps] /\ saw' \in [Procs -> [Tables -> Shapes]]
  BY <1>2 DEF TypeOK, Moves, Shapes
<1>4. TypeOK'
  BY <1>1, <1>2, <1>3 DEF TypeOK, Shapes
<1>5. StampsHonest' /\ KeysHold' /\ (shape["source_sessions"] = "absent" => sessions = {})'
  BY <1>1 DEF Inv, StampsHonest, KeysHold, WorksOf
<1>6. Onward
  BY <1>1 DEF Onward
<1> QED
  BY <1>4, <1>5, <1>6, GoodKeeps DEF Good

\* What an update of pc alone says.
LEMMA GotoMoves ==
    ASSUME Inv, NEW p \in Procs, NEW step \in Steps, Goto(p, step), UNCHANGED saw
    PROVE  /\ Moves(p) /\ pc'[p] = step /\ saw'[p] = saw[p]
           /\ saw'[p] \in [Tables -> Shapes]
           /\ \A q \in Procs : q # p => pc'[q] = pc[q]
           /\ pc' \in [Procs -> Steps] /\ saw' \in [Procs -> [Tables -> Shapes]]
BY DEF Goto, Inv, TypeOK, Moves, Shapes

\* A command starts.
LEMMA StartStep == ASSUME Inv, NEW p \in Procs, Start(p) PROVE Inv'
<1>1. Goto(p, "open") /\ UNCHANGED saw /\ UNCHANGED tables /\ UNCHANGED writer /\ pc[p] = "idle"
  BY DEF Start, Goto
<1>2. started' \in 0..MaxCommands
  BY MigrationAssumption DEF Start, Inv, TypeOK
<1>3. "open" \in Steps
  BY DEF Steps
<1>4. Known(p)'
  BY <1>1, <1>3, GotoMoves DEF Known
<1>5. \A q \in Procs : writer' = q <=> pc'[q] = "rebuild"
  BY <1>1, <1>3, GotoMoves DEF Inv, TypeOK
<1>6. writer' \in Procs \cup {None}
  BY <1>1 DEF Inv, TypeOK
<1> QED
  BY <1>1, <1>2, <1>3, <1>4, <1>5, <1>6, GotoMoves, ReadStep

\* A process exits.
LEMMA LeaveStep == ASSUME Inv, NEW p \in Procs, Leave(p) PROVE Inv'
<1>1. /\ pc' = [pc EXCEPT ![p] = "idle"] /\ UNCHANGED tables /\ started' = started
      /\ saw' = [saw EXCEPT ![p] = [t \in Tables |-> "absent"]]
      /\ writer' = IF writer = p THEN None ELSE writer
  BY DEF Leave, Goto
<1>2. /\ Moves(p) /\ pc'[p] = "idle" /\ saw'[p] \in [Tables -> Shapes]
      /\ \A q \in Procs : q # p => pc'[q] = pc[q]
  BY <1>1 DEF Inv, TypeOK, Moves, Shapes
<1>3. started' \in 0..MaxCommands /\ writer' \in Procs \cup {None}
  BY <1>1 DEF Inv, TypeOK
<1>4. \A q \in Procs : writer' = q <=> pc'[q] = "rebuild"
  BY <1>1, <1>2, MigrationAssumption DEF Inv, TypeOK
<1>5. Known(p)'
  BY <1>2 DEF Known
<1>6. "idle" \in Steps
  BY DEF Steps
<1> QED
  BY <1>1, <1>2, <1>3, <1>4, <1>5, <1>6, ReadStep

\* sqlite_master is read for the core tables.
LEMMA LookStep == ASSUME Inv, NEW p \in Procs, Look(p) PROVE Inv'
<1> DEFINE s == [t \in Tables |-> IF t \in Core THEN shape[t] ELSE "absent"]
<1>1. /\ pc[p] = "look" /\ pc' = [pc EXCEPT ![p] = "lookCkpt"] /\ UNCHANGED tables
      /\ started' = started /\ writer' = writer /\ saw' = [saw EXCEPT ![p] = s]
  BY DEF Look, Goto
<1>2. s \in [Tables -> Shapes] /\ Core \subseteq Tables
  BY DEF Inv, TypeOK, Core, Tables, Shapes
<1>3. /\ Moves(p) /\ pc'[p] = "lookCkpt" /\ saw'[p] = s
      /\ \A q \in Procs : q # p => pc'[q] = pc[q]
  BY <1>1 DEF Inv, TypeOK, Moves, Shapes
<1>4. started' \in 0..MaxCommands /\ writer' \in Procs \cup {None}
  BY <1>1 DEF Inv, TypeOK
<1>5. \A q \in Procs : writer' = q <=> pc'[q] = "rebuild"
  BY <1>1, <1>3 DEF Inv, TypeOK
<1>6. shape' = shape /\ shape \in [Tables -> Shapes] /\ \A t \in Core : shape[t] # "absent"
  BY <1>1 DEF Inv, TypeOK, Known, tables, Shapes
<1>7. Known(p)'
  BY <1>2, <1>3, <1>6 DEF Known, Shapes
<1>8. "lookCkpt" \in Steps
  BY DEF Steps
<1> QED
  BY <1>1, <1>2, <1>3, <1>4, <1>5, <1>7, <1>8, ReadStep

\* sqlite_master is read for the checkpoints, and it is decided what to rebuild.
LEMMA LookCheckpointsStep == ASSUME Inv, NEW p \in Procs, LookCheckpoints(p) PROVE Inv'
<1>1. PICK step \in {"derive", "begin"} :
        /\ pc[p] = "lookCkpt" /\ pc' = [pc EXCEPT ![p] = step] /\ UNCHANGED tables
        /\ started' = started /\ writer' = writer
        /\ saw' = [saw EXCEPT ![p]["checkpoints"] = shape["checkpoints"]]
        /\ step = "derive" => \A t \in Tables : saw'[p][t] # "legacy"
  BY DEF LookCheckpoints, Goto, Needs
<1>2. Core \subseteq Tables /\ "checkpoints" \in Tables /\ "checkpoints" \notin Core
  BY DEF Core, Tables
<1>3. shape \in [Tables -> Shapes] /\ saw[p] \in [Tables -> Shapes] /\ shape' = shape
  BY <1>1 DEF Inv, TypeOK, Shapes, tables
<1>4. /\ saw'[p] \in [Tables -> Shapes] /\ saw'[p]["checkpoints"] = shape["checkpoints"]
      /\ \A t \in Core : saw'[p][t] = saw[p][t]
  BY <1>1, <1>2, <1>3 DEF Inv, TypeOK
<1>5. /\ Moves(p) /\ pc'[p] = step
      /\ \A q \in Procs : q # p => pc'[q] = pc[q]
  BY <1>1 DEF Inv, TypeOK, Moves
<1>6. started' \in 0..MaxCommands /\ writer' \in Procs \cup {None}
  BY <1>1 DEF Inv, TypeOK
<1>7. \A q \in Procs : writer' = q <=> pc'[q] = "rebuild"
  BY <1>1, <1>5 DEF Inv, TypeOK
<1>8. /\ \A t \in Core : shape[t] # "absent"
      /\ \A t \in Core : saw[p][t] # "legacy" => shape[t] = "current"
  BY <1>1 DEF Inv, Known
<1>9. Known(p)'
  <2>1. CASE step = "begin"
    BY <2>1, <1>3, <1>4, <1>5, <1>8 DEF Known
  <2>2. CASE step = "derive"
    BY <2>2, <1>1, <1>2, <1>3, <1>4, <1>5, <1>8 DEF Known
  <2> QED
    BY <2>1, <2>2
<1>10. step \in Steps
  BY DEF Steps
<1> QED
  BY <1>1, <1>4, <1>5, <1>6, <1>7, <1>9, <1>10, ReadStep

\* BEGIN IMMEDIATE.
LEMMA BeginStep == ASSUME Inv, NEW p \in Procs, BeginMigration(p) PROVE Inv'
<1>1. /\ pc[p] = "begin" /\ writer = None /\ writer' = p
      /\ Goto(p, "rebuild") /\ UNCHANGED saw /\ UNCHANGED tables /\ started' = started
  BY DEF BeginMigration
<1>2. "rebuild" \in Steps
  BY DEF Steps
<1>3. /\ Moves(p) /\ pc'[p] = "rebuild" /\ saw'[p] = saw[p] /\ saw'[p] \in [Tables -> Shapes]
      /\ \A q \in Procs : q # p => pc'[q] = pc[q]
  BY <1>1, <1>2, GotoMoves
<1>4. \A q \in Procs : writer' = q <=> pc'[q] = "rebuild"
  BY <1>1, <1>3, MigrationAssumption DEF Inv, TypeOK
<1>5. Known(p)'
  BY <1>1, <1>3 DEF Inv, Known, tables
<1>6. started' \in 0..MaxCommands /\ writer' \in Procs \cup {None}
  BY <1>1 DEF Inv, TypeOK
<1> QED
  BY <1>1, <1>2, <1>3, <1>4, <1>5, <1>6, ReadStep

-----------------------------------------------------------------------------
(* Steps that write. *)

\* Sets of tables.
LEMMA TableSets == Core \subseteq Tables /\ "checkpoints" \in Tables /\ "checkpoints" \notin Core
                     /\ "source_sessions" \in Core /\ Tables = Core \cup {"checkpoints"}
BY DEF Core, Tables

\* CREATE TABLE IF NOT EXISTS adds tables in the current shape, all of them empty.
LEMMA CreatedStep ==
    ASSUME Inv, NEW p \in Procs, NEW ts, ts = Core \/ ts = {"checkpoints"},
           NEW step \in Steps, step # "rebuild", pc[p] # "rebuild", Goto(p, step),
           shape' = Created(ts), UNCHANGED saw, started' = started, writer' = writer,
           UNCHANGED <<odd, works, execs, sessions, events, ckpts, stamps>>,
           ts = Core => step = "look",
           ts = {"checkpoints"} => step = "stamp" /\ pc[p] = "derive"
    PROVE  Inv'
<1>1. /\ Moves(p) /\ pc'[p] = step /\ \A q \in Procs : q # p => pc'[q] = pc[q]
      /\ pc' \in [Procs -> Steps] /\ saw' \in [Procs -> [Tables -> Shapes]]
  BY GotoMoves
<1>2. shape \in [Tables -> Shapes]
  BY DEF Inv, TypeOK, Shapes
<1>3. /\ shape' \in [Tables -> Shapes]
      /\ \A t \in Tables : shape'[t] = IF t \in ts /\ shape[t] = "absent" THEN "current"
                                                                          ELSE shape[t]
  BY <1>2 DEF Created, Shapes
<1>4. Onward
  BY <1>3 DEF Onward
<1>5. TypeOK'
  <2>1. \A q \in Procs : writer' = q <=> pc'[q] = "rebuild"
    BY <1>1 DEF Inv, TypeOK
  <2> QED
    BY <1>1, <1>3, <2>1 DEF Inv, TypeOK, Shapes
<1>6. StampsHonest'
  BY <1>3, TableSets DEF Inv, StampsHonest
<1>7. /\ shape["source_sessions"] # "absent" => shape'["source_sessions"] = shape["source_sessions"]
      /\ shape["source_sessions"] = "absent" => sessions = {}
  BY <1>3, TableSets DEF Inv
<1>8. KeysHold'
  BY <1>7 DEF Inv, KeysHold, WorksOf
<1>9. Known(p)'
  <2>1. CASE ts = Core
    <3>1. \A t \in Core : shape'[t] # "absent"
      BY <1>3, <2>1, TableSets
    <3> QED
      BY <1>1, <2>1, <3>1 DEF Known
  <2>2. CASE ts = {"checkpoints"}
    <3>1. (\A t \in Core : shape[t] = "current") /\ shape["checkpoints"] # "legacy"
      BY <2>2 DEF Inv, Known
    <3>2. \A t \in Tables : shape'[t] = "current"
      BY <1>2, <1>3, <2>2, <3>1, TableSets DEF Shapes
    <3>3. \A t \in Core : shape'[t] # "absent"
      BY <3>2, TableSets
    <3> QED
      BY <1>1, <2>2, <3>2, <3>3 DEF Known
  <2> QED
    BY <2>1, <2>2
<1>10. (shape["source_sessions"] = "absent" => sessions = {})'
  BY <1>7
<1> QED
  BY <1>1, <1>4, <1>5, <1>6, <1>8, <1>9, <1>10, GoodKeeps DEF Good

\* openStore creates the core tables that are missing.
LEMMA OpenStep == ASSUME Inv, NEW p \in Procs, Open(p) PROVE Inv'
<1>1. "look" \in Steps
  BY DEF Steps
<1>2. /\ pc[p] = "open" /\ Goto(p, "look") /\ shape' = Created(Core) /\ UNCHANGED saw
      /\ started' = started /\ writer' = writer
      /\ UNCHANGED <<odd, works, execs, sessions, events, ckpts, stamps>>
  BY DEF Open
<1>3. Core # {"checkpoints"}
  BY TableSets
<1> QED
  BY <1>1, <1>2, <1>3, CreatedStep

\* ensureDerivedSchema creates the checkpoints table when it is missing.
LEMMA CreateCheckpointsStep == ASSUME Inv, NEW p \in Procs, CreateCheckpoints(p) PROVE Inv'
<1>1. "stamp" \in Steps
  BY DEF Steps
<1>2. /\ pc[p] = "derive" /\ Goto(p, "stamp") /\ shape' = Created({"checkpoints"}) /\ UNCHANGED saw
      /\ started' = started /\ writer' = writer
      /\ UNCHANGED <<odd, works, execs, sessions, events, ckpts, stamps>>
  BY DEF CreateCheckpoints
<1>3. Core # {"checkpoints"}
  BY TableSets
<1> QED
  BY <1>1, <1>2, <1>3, CreatedStep

\* The legacy tables are rebuilt, whatever has become of them since p looked.
LEMMA RebuildStep == ASSUME Inv, NEW p \in Procs, Rebuild(p) PROVE Inv'
<1> DEFINE found == {t \in Tables : saw[p][t] = "legacy"}
<1>1. /\ pc[p] = "rebuild"
      /\ shape' = [t \in Tables |-> IF t \in found THEN "current" ELSE shape[t]]
      /\ execs' = execs
      /\ sessions' = IF "source_sessions" \in found THEN RebuiltSessions ELSE sessions
      /\ stamps' = stamps \cup (IF found \cap Core # {} THEN {1} ELSE {})
                          \cup (IF "checkpoints" \in found THEN {2} ELSE {})
      /\ writer' = None /\ Goto(p, "derive") /\ UNCHANGED saw
      /\ odd' = odd /\ works' = works /\ events' = events /\ ckpts' = ckpts /\ started' = started
  BY DEF Rebuild, RebuiltExecutions
<1>2. "derive" \in Steps
  BY DEF Steps
<1>3. /\ Moves(p) /\ pc'[p] = "derive" /\ \A q \in Procs : q # p => pc'[q] = pc[q]
      /\ pc' \in [Procs -> Steps] /\ saw' \in [Procs -> [Tables -> Shapes]]
  BY <1>1, <1>2, GotoMoves
<1>4. shape \in [Tables -> Shapes] /\ saw[p] \in [Tables -> Shapes]
  BY DEF Inv, TypeOK, Shapes
<1>5. /\ shape' \in [Tables -> Shapes]
      /\ \A t \in Tables : shape'[t] = IF t \in found THEN "current" ELSE shape[t]
  BY <1>1, <1>4 DEF Shapes
<1>6. /\ \A t \in Core : saw[p][t] # "legacy" => shape[t] = "current"
      /\ saw[p]["checkpoints"] # "legacy" => shape["checkpoints"] # "legacy"
  BY <1>1 DEF Inv, Known
<1>7. /\ \A t \in Core : shape'[t] = "current"
      /\ shape'["checkpoints"] # "legacy"
  BY <1>5, <1>6, TableSets
<1>8. Onward
  BY <1>5 DEF Onward
<1>9. RebuiltSessions \subseteq execs
  BY OwnerHas DEF RebuiltSessions, WorksOf
<1>10. sessions' \subseteq execs
  BY <1>1, <1>6, <1>9, TableSets DEF Inv, KeysHold
<1>11. KeysHold'
  BY <1>1, <1>7, <1>10, TableSets DEF Inv, KeysHold
<1>12. StampsHonest'
  BY <1>7 DEF StampsHonest
<1>13. \A q \in Procs : writer' = q <=> pc'[q] = "rebuild"
  BY <1>1, <1>3, MigrationAssumption DEF Inv, TypeOK
<1>14. stamps' \subseteq Versions
  BY <1>1 DEF Inv, TypeOK, Versions
<1>15. execs \subseteq Works \X Executions
  BY DEF Inv, TypeOK
<1>16. TypeOK'
  <2>1. sessions' \subseteq (Works \cup {None}) \X Executions
    BY <1>10, <1>15
  <2> QED
    BY <1>1, <1>3, <1>5, <1>13, <1>14, <2>1 DEF Inv, TypeOK, Shapes
<1>17. Known(p)'
  BY <1>3, <1>7 DEF Known
<1>18. (shape["source_sessions"] = "absent" => sessions = {})'
  BY <1>7, TableSets
<1> QED
  BY <1>3, <1>8, <1>11, <1>12, <1>16, <1>17, <1>18, GoodKeeps DEF Good

\* The versions are stamped when every table has its current shape.
LEMMA StampStep == ASSUME Inv, NEW p \in Procs, StampAll(p) PROVE Inv'
<1>1. /\ pc[p] = "stamp" /\ stamps' = Versions /\ Goto(p, "ready") /\ UNCHANGED saw
      /\ shape' = shape /\ odd' = odd /\ works' = works /\ execs' = execs
      /\ sessions' = sessions /\ events' = events /\ ckpts' = ckpts
      /\ writer' = writer /\ started' = started
  BY DEF StampAll
<1>2. "ready" \in Steps
  BY DEF Steps
<1>3. /\ Moves(p) /\ pc'[p] = "ready" /\ \A q \in Procs : q # p => pc'[q] = pc[q]
      /\ pc' \in [Procs -> Steps] /\ saw' \in [Procs -> [Tables -> Shapes]]
  BY <1>1, <1>2, GotoMoves
<1>4. \A t \in Tables : shape[t] = "current"
  BY <1>1 DEF Inv, Known
<1>5. StampsHonest' /\ Known(p)' /\ Onward
  BY <1>1, <1>3, <1>4, TableSets DEF StampsHonest, Known, Onward
<1>6. KeysHold' /\ (shape["source_sessions"] = "absent" => sessions = {})'
  BY <1>1 DEF Inv, KeysHold, WorksOf
<1>7. \A q \in Procs : writer' = q <=> pc'[q] = "rebuild"
  BY <1>1, <1>3 DEF Inv, TypeOK
<1>8. TypeOK'
  BY <1>1, <1>3, <1>7 DEF Inv, TypeOK, Shapes
<1> QED
  BY <1>3, <1>5, <1>6, <1>8, GoodKeeps DEF Good

\* An import or a fork adds, to tables that all have the current shape, rows of
\* executions, sessions and events that belong together.
LEMMA WriteStep ==
    ASSUME Inv, NEW p \in Procs, pc[p] = "ready", Goto(p, "idle"), UNCHANGED saw,
           shape' = shape, odd' = odd, stamps' = stamps, writer' = writer, started' = started,
           works \subseteq works', works' \subseteq Works,
           NEW ex \in SUBSET (works' \X Executions), NEW se \in SUBSET ex, NEW ev \in SUBSET ex,
           execs' = execs \cup ex, sessions' = sessions \cup se, events' = events \cup ev,
           ckpts \subseteq ckpts', ckpts' \subseteq works'
    PROVE  Inv'
<1>1. "idle" \in Steps
  BY DEF Steps
<1>2. /\ Moves(p) /\ pc'[p] = "idle" /\ \A q \in Procs : q # p => pc'[q] = pc[q]
      /\ pc' \in [Procs -> Steps] /\ saw' \in [Procs -> [Tables -> Shapes]]
  BY <1>1, GotoMoves
<1>3. \A t \in Tables : shape[t] = "current"
  BY DEF Inv, Known
<1>4. shape["source_sessions"] = "current"
  BY <1>3, TableSets
<1>5. StampsHonest' /\ Known(p)' /\ Onward
  BY <1>2, <1>3, TableSets DEF StampsHonest, Known, Onward
<1>6. KeysHold'
  <2>1. \A x \in ex : x[1] \in works'
    OBVIOUS
  <2>2. /\ \A x \in execs \cup events : x[1] \in works'
        /\ events \subseteq execs /\ sessions \subseteq execs
    BY <1>4 DEF Inv, KeysHold
  <2> QED
    BY <1>4, <2>1, <2>2 DEF KeysHold
<1>7. \A q \in Procs : writer' = q <=> pc'[q] = "rebuild"
  BY <1>2 DEF Inv, TypeOK
<1>8. ex \subseteq Works \X Executions
  OBVIOUS
<1>9. TypeOK'
  <2>1. /\ execs' \subseteq Works \X Executions
        /\ sessions' \subseteq (Works \cup {None}) \X Executions
        /\ events' \subseteq Works \X Executions
    BY <1>8 DEF Inv, TypeOK
  <2> QED
    BY <1>2, <1>7, <2>1 DEF Inv, TypeOK, Shapes
<1>10. (shape["source_sessions"] = "absent" => sessions = {})'
  BY <1>4
<1> QED
  BY <1>2, <1>5, <1>6, <1>9, <1>10, GoodKeeps DEF Good

\* persistObservedWork.
LEMMA ImportStepOf ==
    ASSUME Inv, NEW p \in Procs, NEW w \in Works, NEW e \in Executions, Import(p, w, e)
    PROVE  Inv'
<1> DEFINE new == {<<w, e>>}
<1>1. /\ new \in SUBSET (works' \X Executions) /\ works \subseteq works' /\ works' \subseteq Works
      /\ ckpts' = ckpts /\ ckpts' \subseteq works'
  BY DEF Import, Inv, TypeOK, KeysHold
<1>2. /\ pc[p] = "ready" /\ Goto(p, "idle") /\ UNCHANGED saw
      /\ shape' = shape /\ odd' = odd /\ stamps' = stamps /\ writer' = writer /\ started' = started
      /\ execs' = execs \cup new /\ sessions' = sessions \cup new /\ events' = events \cup new
  BY DEF Import
<1> HIDE DEF new
<1> QED
  BY <1>1, <1>2, WriteStep

\* createFork.
LEMMA ForkStepOf ==
    ASSUME Inv, NEW p \in Procs, NEW w \in Works, NEW c \in Works, Fork(p, w, c)
    PROVE  Inv'
<1> DEFINE ex == {<<c, e>> : e \in {x \in Executions : <<w, x>> \in execs}}
           se == {<<c, e>> : e \in {x \in Executions : <<w, x>> \in sessions}}
           ev == {<<c, e>> : e \in {x \in Executions : <<w, x>> \in events}}
<1>1. pc[p] = "ready"
  BY DEF Fork
<1>2. shape["source_sessions"] = "current"
  BY <1>1, TableSets DEF Inv, Known
<1>3. sessions \subseteq execs /\ events \subseteq execs
  BY <1>2 DEF Inv, KeysHold
<1>4. /\ works' = works \cup {c} /\ works' \subseteq Works
      /\ ckpts' = ckpts /\ ckpts' \subseteq works'
  BY DEF Fork, Inv, TypeOK, KeysHold
<1>5. ex \in SUBSET (works' \X Executions) /\ se \in SUBSET ex /\ ev \in SUBSET ex
  <2>1. ex \subseteq works' \X Executions
    <3>1. c \in works'
      BY <1>4
    <3>2. SUFFICES ASSUME NEW x \in ex PROVE x \in works' \X Executions
      OBVIOUS
    <3>3. PICK e \in Executions : x = <<c, e>>
      OBVIOUS
    <3> QED
      BY <3>1, <3>3
  <2>2. se \subseteq ex
    BY <1>3
  <2>3. ev \subseteq ex
    BY <1>3
  <2> QED
    BY <2>1, <2>2, <2>3
<1>6. /\ Goto(p, "idle") /\ UNCHANGED saw
      /\ shape' = shape /\ odd' = odd /\ stamps' = stamps /\ writer' = writer /\ started' = started
      /\ execs' = execs \cup ex /\ sessions' = sessions \cup se /\ events' = events \cup ev
  BY DEF Fork
<1> HIDE DEF ex, se, ev
<1> QED
  BY <1>1, <1>4, <1>5, <1>6, WriteStep

\* createCheckpoint.
LEMMA CheckpointStepOf ==
    ASSUME Inv, NEW p \in Procs, NEW w \in Works, Checkpoint(p, w)
    PROVE  Inv'
<1>1. /\ pc[p] = "ready" /\ Goto(p, "idle") /\ UNCHANGED saw
      /\ shape' = shape /\ odd' = odd /\ stamps' = stamps /\ writer' = writer /\ started' = started
      /\ execs' = execs \cup {} /\ sessions' = sessions \cup {} /\ events' = events \cup {}
      /\ works' = works /\ works' \subseteq Works
      /\ ckpts \subseteq ckpts' /\ ckpts' \subseteq works'
  BY DEF Checkpoint, Inv, TypeOK, KeysHold
<1>2. {} \in SUBSET (works' \X Executions) /\ {} \in SUBSET {}
  OBVIOUS
<1> QED
  BY <1>1, <1>2, WriteStep

-----------------------------------------------------------------------------
(* The invariant. *)

\* The stores that earlier versions leave are ones that the migration can start
\* from.
LEMMA InitInv == ASSUME Init PROVE Inv
<1>1. /\ writer = None /\ pc = [p \in Procs |-> "idle"] /\ started = 0
      /\ saw = [p \in Procs |-> [t \in Tables |-> "absent"]]
      /\ works \in SUBSET Works /\ execs \in SUBSET (works \X Executions) /\ events = execs
      /\ StampsHonest /\ stamps \in {{}, {1}, {1, 2}}
      /\ (\A t \in odd : shape[t] = "legacy") /\ odd \in {{}, {"events"}, {"checkpoints"}}
  BY DEF Init
<1>2. PICK core \in CoreShapes : \E k \in CkptShape(core) :
        shape = [t \in Tables |-> IF t \in Core THEN core[t] ELSE k]
  BY DEF Init
<1>3. PICK k \in CkptShape(core) : shape = [t \in Tables |-> IF t \in Core THEN core[t] ELSE k]
  BY <1>2
<1>4. core \in [Core -> Shapes] /\ k \in Shapes
  BY DEF CoreShapes, CkptShape, All, Core, Shapes
<1>5. shape \in [Tables -> Shapes]
  BY <1>3, <1>4
<1>6. sessions = IF shape["source_sessions"] = "legacy" THEN {<<None, ex[2]>> : ex \in execs}
                                                        ELSE execs
  BY DEF Init
<1>7. ckpts \subseteq works
  BY DEF Init
<1>8. sessions \subseteq (Works \cup {None}) \X Executions
  BY <1>1, <1>6
<1>9. TypeOK
  <2>1. odd \subseteq Tables
    BY <1>1 DEF Core, Tables
  <2>2. pc \in [Procs -> Steps] /\ saw \in [Procs -> [Tables -> Shapes]]
    BY <1>1 DEF Steps, Shapes
  <2>3. stamps \subseteq Versions
    BY <1>1 DEF Versions
  <2>4. \A p \in Procs : writer = p <=> pc[p] = "rebuild"
    BY <1>1, MigrationAssumption
  <2>5. started \in 0..MaxCommands
    BY <1>1, MigrationAssumption
  <2> QED
    BY <1>1, <1>5, <1>7, <1>8, <2>1, <2>2, <2>3, <2>4, <2>5 DEF TypeOK, Shapes
<1>10. KeysHold
  <2>1. \A ex \in execs : ex[1] \in works /\ ex[1] \in WorksOf(ex[2])
    BY <1>1 DEF WorksOf
  <2>2. shape["source_sessions"] = "legacy" => \A s \in sessions : WorksOf(s[2]) # {}
    BY <1>6, <2>1
  <2>3. shape["source_sessions"] = "current" => sessions \subseteq execs
    BY <1>6
  <2> QED
    BY <1>1, <1>7, <2>1, <2>2, <2>3 DEF KeysHold
<1>11. shape["source_sessions"] = "absent" => sessions = {}
  <2>1. SUFFICES ASSUME shape["source_sessions"] = "absent" PROVE sessions = {}
    OBVIOUS
  <2>2. core["source_sessions"] = "absent"
    BY <1>3, <2>1, TableSets
  <2>3. core = All("absent")
    BY <2>2, <1>2 DEF CoreShapes, All, Core
  <2>4. shape["executions"] = "absent"
    BY <1>3, <2>3 DEF All, Core, Tables
  <2>5. works = {}
    BY <2>4 DEF Init
  <2> QED
    BY <1>1, <1>6, <2>1, <2>5
<1>12. \A p \in Procs : Known(p)
  BY <1>1 DEF Known
<1> QED
  BY <1>1, <1>9, <1>10, <1>11, <1>12 DEF Inv

\* Every step of every command keeps it.
LEMMA NextInv == ASSUME Inv, [Next]_vars PROVE Inv'
<1>1. ASSUME NEW p \in Procs, Start(p) PROVE Inv'
  BY <1>1, StartStep
<1>2. ASSUME NEW p \in Procs, Open(p) PROVE Inv'
  BY <1>2, OpenStep
<1>3. ASSUME NEW p \in Procs, Look(p) PROVE Inv'
  BY <1>3, LookStep
<1>4. ASSUME NEW p \in Procs, LookCheckpoints(p) PROVE Inv'
  BY <1>4, LookCheckpointsStep
<1>5. ASSUME NEW p \in Procs, RejectShape(p) PROVE Inv'
  BY <1>5, LeaveStep DEF RejectShape
<1>6. ASSUME NEW p \in Procs, BeginMigration(p) PROVE Inv'
  BY <1>6, BeginStep
<1>7. ASSUME NEW p \in Procs, Rebuild(p) PROVE Inv'
  BY <1>7, RebuildStep
<1>8. ASSUME NEW p \in Procs, CreateCheckpoints(p) PROVE Inv'
  BY <1>8, CreateCheckpointsStep
<1>9. ASSUME NEW p \in Procs, StampAll(p) PROVE Inv'
  BY <1>9, StampStep
<1>10. ASSUME NEW p \in Procs, NEW w \in Works, NEW e \in Executions, Import(p, w, e) PROVE Inv'
  BY <1>10, ImportStepOf
<1>11. ASSUME NEW p \in Procs, NEW w \in Works, NEW c \in Works, Fork(p, w, c) PROVE Inv'
  BY <1>11, ForkStepOf
<1>12. ASSUME NEW p \in Procs, NEW w \in Works, Checkpoint(p, w) PROVE Inv'
  BY <1>12, CheckpointStepOf
<1>13. ASSUME NEW p \in Procs, Fail(p) PROVE Inv'
  BY <1>13, LeaveStep DEF Fail
<1>14. CASE UNCHANGED vars
  BY <1>14 DEF vars, tables, Inv, TypeOK, StampsHonest, KeysHold, WorksOf, Known
<1> QED
  BY <1>1, <1>2, <1>3, <1>4, <1>5, <1>6, <1>7, <1>8, <1>9, <1>10, <1>11, <1>12, <1>13, <1>14
  DEF Next

\* The inductive invariant: what a process has seen of sqlite_master may be old,
\* but the tables have only moved on since (ensureDerivedSchema).
THEOREM Invariance == Spec => []Inv
<1>1. Init => Inv
  BY InitInv
<1>2. Inv /\ [Next]_vars => Inv'
  BY NextInv
<1> QED
  BY <1>1, <1>2, PTL DEF Spec

\* Types, and that the write lock is held by the process that rebuilds.
THEOREM MigrationTypeCorrect == Spec => []TypeOK
<1>1. Inv => TypeOK
  BY DEF Inv
<1> QED
  BY <1>1, Invariance, PTL

\* No crash leaves a store that is stamped with a version whose rebuild it has
\* not had (stampSchemaVersions).
THEOREM StampsStayHonest == Spec => []StampsHonest
<1>1. Inv => StampsHonest
  BY DEF Inv
<1> QED
  BY <1>1, Invariance, PTL

\* A command only uses a Work once every table has the current shape, whatever
\* other processes do to the tables between its look and its transaction
\* (migratePerWorkIdentity).
THEOREM ReadyMeansCurrent == Spec => []ReadyCurrent
<1>1. Inv => ReadyCurrent
  BY DEF Inv, Known, ReadyCurrent
<1> QED
  BY <1>1, Invariance, PTL

\* The foreign keys hold although the rebuild switches their enforcement off.
THEOREM KeysAlwaysHold == Spec => []KeysHold
<1>1. Inv => KeysHold
  BY DEF Inv
<1> QED
  BY <1>1, Invariance, PTL

\* No rebuild loses a row that another process has written since the look, except
\* that the Works of a source session may become fewer (persist.ts rebuilds the
\* tables from what they hold by then).
THEOREM RowsAreKept == Spec => RowsKept
<1> DEFINE Kept == /\ works \subseteq works' /\ execs \subseteq execs'
                   /\ events \subseteq events' /\ ckpts \subseteq ckpts'
                   /\ {s[2] : s \in sessions} \subseteq {s[2] : s \in sessions'}
<1>1. ASSUME Inv, [Next]_vars PROVE [Kept]_vars
  <2>1. ASSUME UNCHANGED <<works, execs, events, ckpts, sessions>> PROVE Kept
    BY <2>1
  <2>2. ASSUME NEW p \in Procs, Rebuild(p) PROVE Kept
    <3>1. /\ works' = works /\ execs' = execs /\ events' = events /\ ckpts' = ckpts
          /\ sessions' = sessions \/ sessions' = RebuiltSessions
      BY <2>2 DEF Rebuild, RebuiltExecutions
    <3>2. ASSUME NEW s \in sessions PROVE WorksOf(s[2]) # {} /\ s[2] \in Executions
      <4>1. shape["source_sessions"] \in {"legacy", "current", "absent"}
        <5>1. shape \in [Tables -> {"absent", "legacy", "current"}] /\ "source_sessions" \in Tables
          BY <1>1, TableSets DEF Inv, TypeOK
        <5> QED
          BY <5>1
      <4>2. CASE shape["source_sessions"] = "current"
        <5>1. s \in execs
          BY <1>1, <3>2, <4>2 DEF Inv, KeysHold
        <5>2. s \in Works \X Executions /\ s[1] \in works
          BY <1>1, <5>1 DEF Inv, TypeOK, KeysHold
        <5> QED
          BY <5>1, <5>2 DEF WorksOf
      <4>3. CASE shape["source_sessions"] = "legacy"
        BY <1>1, <3>2, <4>3 DEF Inv, KeysHold, TypeOK
      <4> QED
        BY <1>1, <3>2, <4>1, <4>2, <4>3 DEF Inv
    <3>3. CASE sessions' = RebuiltSessions
      <4>1. ASSUME NEW s \in sessions PROVE \E r \in RebuiltSessions : r[2] = s[2]
        <5>1. <<Owner(s[2]), s[2]>> \in RebuiltSessions
          BY <3>2, <4>1 DEF RebuiltSessions
        <5> QED
          BY <5>1
      <4> QED
        BY <3>1, <3>3, <4>1
    <3>4. CASE sessions' = sessions
      BY <3>1, <3>4
    <3> QED
      BY <3>1, <3>3, <3>4
  <2>3. ASSUME NEW p \in Procs, NEW w \in Works, NEW e \in Executions, Import(p, w, e) PROVE Kept
    BY <2>3 DEF Import
  <2>4. ASSUME NEW p \in Procs, NEW w \in Works, NEW c \in Works, Fork(p, w, c) PROVE Kept
    BY <2>4 DEF Fork
  <2>5. ASSUME NEW p \in Procs, NEW w \in Works, Checkpoint(p, w) PROVE Kept
    BY <2>5 DEF Checkpoint
  <2>6. ASSUME NEW p \in Procs,
               \/ Start(p) \/ Open(p) \/ Look(p) \/ LookCheckpoints(p) \/ RejectShape(p)
               \/ BeginMigration(p) \/ CreateCheckpoints(p) \/ StampAll(p) \/ Fail(p)
        PROVE  UNCHANGED <<works, execs, events, ckpts, sessions>>
    BY <2>6 DEF Start, Open, Look, LookCheckpoints, RejectShape, BeginMigration,
                CreateCheckpoints, StampAll, Fail, Leave, tables
  <2> QED
    BY <1>1, <2>1, <2>2, <2>3, <2>4, <2>5, <2>6 DEF Next
<1> QED
  BY <1>1, Invariance, PTL DEF Spec, RowsKept
=============================================================================
