------------------------------ MODULE StoreFile ------------------------------
(***************************************************************************)
(* The file that holds the store, under commands that write, back up and   *)
(* restore it.                                                             *)
(*                                                                         *)
(* A path names a file, a command keeps the file that it has opened, and   *)
(* the rollback journal of SQLite lies next to the path, whatever file the *)
(* path names.  A file says which schema version it is stamped with and    *)
(* which writes it holds; it is torn while only some of its pages have     *)
(* been written.  Opening or reading a store whose journal has been        *)
(* flushed, and that nobody has locked, plays the journal back.            *)
(***************************************************************************)
EXTENDS Naturals, FiniteSets

CONSTANTS Procs,        \* slots for commands that run at the same time
          Kinds,        \* the commands that may run
          MaxCommands,  \* bound: commands started in a behaviour
          MaxCrashes,   \* bound: processes killed in a behaviour
          None

Supported == 2                  \* CURRENT_SCHEMA_VERSION
Versions == {0, Supported, 3}   \* legacy, current, written by a newer CLI
Files == 1..(MaxCommands + 2)
Writes == 1..MaxCommands        \* the n-th command writes n
Contents == [ver : Versions, writes : SUBSET Writes, torn : BOOLEAN]
Journals == [of : Files, was : Contents, hot : BOOLEAN]

ASSUME FileAssumption ==
    /\ Kinds \subseteq {"write", "backup", "restore"}
    /\ MaxCommands \in Nat /\ MaxCrashes \in Nat
    /\ None \notin Procs /\ None \notin Nat /\ None \notin Journals

VARIABLES
  content,  \* content[f]: what file f holds
  live,     \* the file that harnie.db names
  bak,      \* the file that the path of the backups names, or None
  journal,  \* harnie.db-journal: the file it is of, what that held, and whether
            \* the journal has been flushed; or None
  pc,       \* each process: its next step
  no,       \* the number of its command
  conn,     \* the file it has open, or None
  was,      \* what that held when its transaction began
  force,    \* --force
  srcVer,   \* the schema version of the backup it restores
  started, crashes,
  acked,    \* writes that are committed, of the store that live names
  since,    \* since[p]: acked when the command of p started
  careful   \* no restore has run beside another command, or has left the
            \* journal of the store that it replaced

process == <<pc, no, conn, was, force, srcVer, since>>
vars == <<content, live, bak, journal, process, started, crashes, acked, careful>>

Goto(p, step) == pc' = [pc EXCEPT ![p] = step]

Running == {p \in Procs : pc[p] # "idle"}
Restoring == {"inspect", "guard", "copy", "rename", "sweep", "reopen"}

Fresh(v) == [ver |-> v, writes |-> {}, torn |-> FALSE]
Partial == [ver |-> 0, writes |-> {}, torn |-> TRUE]

Init ==
    /\ \E v, b \in Versions : content = [f \in Files |-> Fresh(IF f = 1 THEN v ELSE b)]
    /\ live = 1
    /\ bak \in {2, None}
    /\ journal = None
    /\ pc = [p \in Procs |-> "idle"]
    /\ no = [p \in Procs |-> 0]
    /\ conn = [p \in Procs |-> None]
    /\ was = [p \in Procs |-> Partial]
    /\ force = [p \in Procs |-> FALSE]
    /\ srcVer = [p \in Procs |-> 0]
    /\ started = 0 /\ crashes = 0
    /\ acked = {}
    /\ since = [p \in Procs |-> {}]
    /\ careful = TRUE

\* The process ends, and forgets.
Leave(p) ==
    /\ Goto(p, "idle")
    /\ no' = [no EXCEPT ![p] = 0]
    /\ conn' = [conn EXCEPT ![p] = None]
    /\ was' = [was EXCEPT ![p] = Partial]
    /\ force' = [force EXCEPT ![p] = FALSE]
    /\ srcVer' = [srcVer EXCEPT ![p] = 0]
    /\ since' = [since EXCEPT ![p] = {}]

\* The file that the command of p creates: its temporary file, then renamed.
Temp(p) == no[p] + 2
-----------------------------------------------------------------------------
(* What SQLite does with locks and the journal. *)

\* RESERVED or EXCLUSIVE on f.
Held(f) == \E q \in Procs : conn[q] = f /\ pc[q] \in {"reserved", "flushed"}

\* SHARED on f for as long as a statement runs.
Reads(f) == \E q \in Procs : conn[q] = f /\ pc[q] = "vacuum"

Hot(f) == journal # None /\ journal.hot /\ ~Held(f)

\* Pages of one file written into another leave it torn.
Played(f) == IF ~Hot(f) THEN content
             ELSE [content EXCEPT ![f] = IF journal.of = f THEN journal.was
                                                           ELSE [@ EXCEPT !.torn = TRUE]]

\* p reads f: no commit is under way, and a hot journal is played back and removed.
Access(p, f) ==
    /\ \A q \in Procs : ~(conn[q] = f /\ pc[q] = "flushed")
    /\ Hot(f) => ~Reads(f)
    /\ journal' = IF Hot(f) THEN None ELSE journal
-----------------------------------------------------------------------------
(* Commands. *)

Start(p, kind) ==
    /\ pc[p] = "idle" /\ started < MaxCommands
    /\ started' = started + 1
    /\ no' = [no EXCEPT ![p] = started + 1]
    /\ Goto(p, CASE kind = "write" -> "openWrite" [] kind = "backup" -> "openBackup"
                 [] kind = "restore" -> "inspect")
    /\ \E b \in BOOLEAN : force' = [force EXCEPT ![p] = b /\ kind = "restore"]
    /\ since' = [since EXCEPT ![p] = acked]
    /\ careful' = /\ careful
                  /\ kind = "restore" => Running = {}
                  /\ \A q \in Procs : pc[q] \notin Restoring
    /\ UNCHANGED <<content, live, bak, journal, conn, was, srcVer, crashes, acked>>

\* openStore.
Open(p) ==
    /\ pc[p] \in {"openWrite", "openBackup"}
    /\ Access(p, live)
    /\ content' = Played(live)
    /\ conn' = [conn EXCEPT ![p] = live]
    /\ Goto(p, IF pc[p] = "openWrite" THEN "begin" ELSE "vacuumInto")
    /\ UNCHANGED <<live, bak, no, was, force, srcVer, since, started, crashes, acked, careful>>

\* BEGIN IMMEDIATE and the first statement that writes.  SQLite refuses to write to
\* a file that its path no longer names.
Begin(p) ==
    /\ pc[p] = "begin" /\ conn[p] = live /\ ~Held(live)
    /\ \A q \in Procs : ~(conn[q] = live /\ pc[q] = "flushed")
    /\ Hot(live) => ~Reads(live)
    /\ content' = Played(live)
    /\ journal' = [of |-> live, was |-> Played(live)[live], hot |-> FALSE]
    /\ was' = [was EXCEPT ![p] = Played(live)[live]]
    /\ Goto(p, "reserved")
    /\ UNCHANGED <<live, bak, no, conn, force, srcVer, since, started, crashes, acked, careful>>

Stamped(v) == IF v < Supported THEN Supported ELSE v

\* COMMIT flushes the journal, then writes pages.
Flush(p) ==
    /\ pc[p] = "reserved" /\ ~Reads(conn[p])
    /\ journal' = IF journal # None /\ journal.of = conn[p] THEN [journal EXCEPT !.hot = TRUE]
                                                            ELSE journal
    /\ content' = [content EXCEPT ![conn[p]] = [ver |-> Stamped(was[p].ver),
                                                writes |-> was[p].writes \cup {no[p]},
                                                torn |-> TRUE]]
    /\ Goto(p, "flushed")
    /\ UNCHANGED <<live, bak, no, conn, was, force, srcVer, since, started, crashes, acked, careful>>

\* All pages are written; the transaction is committed when the journal is gone.
Commit(p) ==
    /\ pc[p] = "flushed"
    /\ content' = [content EXCEPT ![conn[p]].torn = was[p].torn]
    /\ journal' = None
    /\ acked' = IF conn[p] = live THEN acked \cup {no[p]} ELSE acked
    /\ Leave(p)
    /\ UNCHANGED <<live, bak, started, crashes, careful>>
-----------------------------------------------------------------------------
(* backupHarnieStore. *)

\* Mutant: the snapshot is written to the destination itself.
VacuumInPlace(p) ==
    /\ pc[p] = "vacuumInto"
    /\ Access(p, conn[p])
    /\ content' = [Played(conn[p]) EXCEPT ![Temp(p)] = Partial]
    /\ bak' = Temp(p)
    /\ Goto(p, "vacuum")
    /\ UNCHANGED <<live, no, conn, was, force, srcVer, since, started, crashes, acked, careful>>

\* Mutant: copyFileSync of the live path.
CopyLive(p) ==
    /\ pc[p] = "vacuumInto"
    /\ content' = [content EXCEPT ![Temp(p)] = content[conn[p]]]
    /\ Goto(p, "publish")
    /\ UNCHANGED <<live, bak, journal, no, conn, was, force, srcVer, since, started, crashes, acked,
                   careful>>

\* VACUUM INTO a file of its own; others do not commit meanwhile.
VacuumInto(p) ==
    /\ pc[p] = "vacuumInto"
    /\ Access(p, conn[p])
    /\ content' = [Played(conn[p]) EXCEPT ![Temp(p)] = Partial]
    /\ Goto(p, "vacuum")
    /\ UNCHANGED <<live, bak, no, conn, was, force, srcVer, since, started, crashes, acked, careful>>

VacuumEnd(p) ==
    /\ pc[p] = "vacuum"
    /\ content' = [content EXCEPT ![Temp(p)] = content[conn[p]]]
    /\ Goto(p, "publish")
    /\ UNCHANGED <<live, bak, journal, no, conn, was, force, srcVer, since, started, crashes, acked,
                   careful>>

\* renameSync(tmp, dest).
Publish(p) ==
    /\ pc[p] = "publish"
    /\ bak' = Temp(p)
    /\ Leave(p)
    /\ UNCHANGED <<content, live, journal, started, crashes, acked, careful>>
-----------------------------------------------------------------------------
(* restoreHarnieStore. *)

\* inspectHarnieStoreFile(src): a whole store of a version that is supported.
InspectSource(p) ==
    /\ pc[p] = "inspect"
    /\ bak # None /\ ~content[bak].torn /\ content[bak].ver <= Supported
    /\ srcVer' = [srcVer EXCEPT ![p] = content[bak].ver]
    /\ Goto(p, "guard")
    /\ UNCHANGED <<content, live, bak, journal, no, conn, was, force, since, started, crashes, acked,
                   careful>>

\* readStoreVersionIfValid(live) gives a version: the store is of a supported
\* version, nobody commits to it, and no journal waits, which a connection that is
\* read-only cannot play back.
Readable == /\ content[live].ver <= Supported
            /\ ~Hot(live)
            /\ \A q \in Procs : ~(conn[q] = live /\ pc[q] = "flushed")

Newer(p) == content[live].ver > srcVer[p]

\* A store that cannot be read is taken for one that has nothing to protect.
Guard(p) ==
    /\ pc[p] = "guard"
    /\ Readable => force[p] \/ ~Newer(p)
    /\ Goto(p, "copy")
    /\ UNCHANGED <<content, live, bak, journal, no, conn, was, force, srcVer, since, started, crashes,
                   acked, careful>>

\* copyFileSync(src, tmp).
CopySource(p) ==
    /\ pc[p] = "copy"
    /\ bak # None
    /\ content' = [content EXCEPT ![Temp(p)] = content[bak]]
    /\ Goto(p, "rename")
    /\ UNCHANGED <<live, bak, journal, no, conn, was, force, srcVer, since, started, crashes, acked,
                   careful>>

\* renameSync(tmp, live).
Replace(p) ==
    /\ pc[p] = "rename"
    /\ live' = Temp(p)
    /\ acked' = content[Temp(p)].writes
    /\ Goto(p, "sweep")
    /\ UNCHANGED <<content, bak, journal, no, conn, was, force, srcVer, since, started, crashes,
                   careful>>

\* Mutant: the sidecars stay.
NoSweep(p) ==
    /\ pc[p] = "sweep"
    /\ Goto(p, "reopen")
    /\ UNCHANGED <<content, live, bak, journal, no, conn, was, force, srcVer, since, started, crashes,
                   acked, careful>>

\* rmSync(live-journal); where it fails, the restore goes on all the same.
Sweep(p) ==
    /\ pc[p] = "sweep"
    /\ \/ journal' = None /\ UNCHANGED careful
       \/ UNCHANGED journal /\ careful' = (careful /\ journal = None)
    /\ Goto(p, "reopen")
    /\ UNCHANGED <<content, live, bak, no, conn, was, force, srcVer, since, started, crashes, acked>>

\* initHarnieStore, close.
Reopen(p) ==
    /\ pc[p] = "reopen"
    /\ Access(p, live)
    /\ content' = Played(live)
    /\ Leave(p)
    /\ UNCHANGED <<live, bak, started, crashes, acked, careful>>
-----------------------------------------------------------------------------
(* A statement or a call fails, a check refuses: the command gives up, and a
   transaction that has written no page is rolled back.                      *)
GiveUp(p) ==
    /\ pc[p] \notin {"idle", "flushed", "sweep"}
    /\ journal' = IF pc[p] = "reserved" THEN None ELSE journal
    /\ Leave(p)
    /\ UNCHANGED <<content, live, bak, started, crashes, acked, careful>>

\* The process is killed: what it has written stays, the journal too.
Crash(p) ==
    /\ pc[p] # "idle" /\ crashes < MaxCrashes
    /\ crashes' = crashes + 1
    /\ Leave(p)
    /\ careful' = (careful /\ ~(pc[p] = "sweep" /\ journal # None))
    /\ UNCHANGED <<content, live, bak, journal, started, acked>>

Next == \E p \in Procs :
          \/ \E kind \in Kinds : Start(p, kind)
          \/ Open(p) \/ Begin(p) \/ Flush(p) \/ Commit(p)
          \/ VacuumInto(p) \/ VacuumEnd(p) \/ Publish(p)
          \/ InspectSource(p) \/ Guard(p) \/ CopySource(p) \/ Replace(p) \/ Sweep(p) \/ Reopen(p)
          \/ GiveUp(p) \/ Crash(p)

Spec == Init /\ [][Next]_vars
-----------------------------------------------------------------------------
(* Properties. *)

\* What the next command finds in the store, once the journal is played back.
Recovered == IF journal # None /\ journal.hot /\ journal.of = live THEN journal.was
                                                                   ELSE content[live]

\* As long as restores run alone, and remove the journal once they have renamed
\* (are not killed there, and rmSync succeeds), a store is whole, and holds exactly what commands have
\* committed to it, whichever processes were killed, when, and whichever journal
\* they have left.
Durable == careful => ~Recovered.torn /\ Recovered.writes = acked

\* A backup is a whole store whenever anybody looks, although commands write while
\* it is taken, and although backups fail and replace older ones.
BackupWhole == careful /\ bak # None => ~content[bak].torn

\* A new backup holds every write that was committed before it was asked for.
BackupIsRecent ==
    [][\A p \in Procs : careful /\ pc[p] = "publish" /\ pc'[p] = "idle" /\ bak' # bak =>
         since[p] \subseteq content[bak'].writes /\ content[bak'].writes \subseteq acked]_vars

-----------------------------------------------------------------------------
(* What the docs promise of a restore. *)

\* backup.ts: "a newer destination store is only overwritten with { force: true }".
NewerKept ==
    [][\A p \in Procs : pc[p] = "rename" /\ pc'[p] = "sweep" /\ ~force[p] =>
         content[live].ver <= content[live'].ver]_vars

\* BACKUP-RECOVERY.md: "a failed restore never leaves a half-written live database".
NeverHalfWritten == ~Recovered.torn
=============================================================================
