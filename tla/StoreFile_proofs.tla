--------------------------- MODULE StoreFile_proofs ---------------------------
(***************************************************************************)
(* Whatever processes are killed, a store is whole and holds exactly what  *)
(* was committed to it, and backups are whole and recent, as long as       *)
(* restores run alone and end once they have replaced the store: for any   *)
(* set of processes and any numbers of commands and kills.                 *)
(***************************************************************************)
EXTENDS StoreFile, TLAPS

Steps == {"idle", "openWrite", "begin", "reserved", "flushed",
          "openBackup", "vacuumInto", "vacuum", "publish"} \cup Restoring

TypeOK ==
    /\ content \in [Files -> Contents]
    /\ live \in Files /\ bak \in Files \cup {None}
    /\ journal \in Journals \cup {None}
    /\ pc \in [Procs -> Steps]
    /\ no \in [Procs -> {0} \cup Writes]
    /\ conn \in [Procs -> Files \cup {None}]
    /\ was \in [Procs -> Contents]
    /\ since \in [Procs -> SUBSET Writes]
    /\ started \in {0} \cup Writes
    /\ acked \subseteq Writes
    /\ careful \in BOOLEAN

\* The commands that have the store open.
Connected == {"begin", "reserved", "flushed", "vacuumInto", "vacuum", "publish"}

\* The file that a command makes is its own until it gives it a name.
Nameless == {"openWrite", "begin", "reserved", "flushed", "openBackup", "vacuumInto", "vacuum",
             "publish", "inspect", "guard", "copy", "rename"}

Names ==
    /\ live <= started + 2
    /\ bak # None => bak <= started + 2 /\ bak # live
    /\ \A p \in Procs :
         /\ no[p] <= started
         /\ pc[p] = "idle" => no[p] = 0 /\ conn[p] = None /\ since[p] = {}
         /\ pc[p] \in Connected => conn[p] # None
         /\ pc[p] # "idle" => /\ no[p] # 0
                              /\ \A q \in Procs \ {p} : no[q] # no[p]
         /\ pc[p] \in Nameless => Temp(p) # live /\ Temp(p) # bak

\* A restore is alone, so that everybody has the store open that there is.
Alone ==
    \A p \in Procs :
      /\ pc[p] \in Restoring => \A q \in Procs \ {p} : pc[q] = "idle"
      /\ pc[p] \in Connected => conn[p] = live
      /\ pc[p] \notin Connected => conn[p] = None

\* Who is in a transaction is so alone, and the journal can undo it.
InTransaction == {"reserved", "flushed"}

Undone ==
    /\ \A p, q \in Procs : pc[p] \in InTransaction /\ pc[q] \in InTransaction => p = q
    /\ \A p \in Procs :
         /\ pc[p] \in InTransaction => ~ was[p].torn
         /\ pc[p] = "reserved" => /\ journal = [of |-> live, was |-> was[p], hot |-> FALSE]
                                  /\ content[live] = was[p]
         /\ pc[p] = "flushed" => /\ journal = [of |-> live, was |-> was[p], hot |-> TRUE]
                                 /\ content[live].writes = was[p].writes \cup {no[p]}
         /\ pc[p] = "sweep" /\ journal # None => journal.of # live
         /\ pc[p] = "reopen" => journal = None
    /\ journal # None => journal.of = live \/ \E p \in Procs : pc[p] = "sweep"

\* What a command copies is whole and recent.
Copied ==
    \A p \in Procs :
      /\ pc[p] \notin Restoring => since[p] \subseteq acked
      /\ pc[p] = "vacuum" /\ journal # None => ~ journal.hot
      /\ pc[p] \in {"publish", "rename"} => ~ content[Temp(p)].torn
      /\ pc[p] = "publish" => /\ since[p] \subseteq content[Temp(p)].writes
                              /\ content[Temp(p)].writes \subseteq acked

Inv == /\ TypeOK
       /\ Names
       /\ careful => Alone /\ Undone /\ Copied /\ Durable /\ BackupWhole
-----------------------------------------------------------------------------
(* Files and journals. *)

\* Playing a journal back leaves a store, and every other file, as it is.
LEMMA PlayedType ==
    ASSUME TypeOK, NEW f \in Files
    PROVE  /\ Played(f) \in [Files -> Contents]
           /\ \A g \in Files \ {f} : Played(f)[g] = content[g]
<1>1. CASE Hot(f)
  <2> DEFINE c == IF journal.of = f THEN journal.was ELSE [content[f] EXCEPT !.torn = TRUE]
  <2>1. content[f] \in Contents /\ (journal # None => journal \in Journals)
    BY DEF TypeOK
  <2>2. c \in Contents
    BY <1>1, <2>1 DEF Hot, Journals, Contents
  <2>3. Played(f) = [content EXCEPT ![f] = c]
    BY <1>1 DEF Played
  <2> QED
    BY <2>2, <2>3 DEF TypeOK
<1>2. CASE ~ Hot(f)
  BY <1>2 DEF Played, TypeOK
<1> QED
  BY <1>1, <1>2

\* What is written to a file is of its type,
LEMMA ContentType ==
    ASSUME NEW v \in Versions, NEW w \in SUBSET Writes, NEW t \in BOOLEAN
    PROVE  [ver |-> v, writes |-> w, torn |-> t] \in Contents
BY DEF Contents

\* and what is read from it.
LEMMA ContentFields ==
    ASSUME NEW c \in Contents
    PROVE  /\ c.ver \in Versions /\ Stamped(c.ver) \in Versions
           /\ c.writes \in SUBSET Writes /\ c.torn \in BOOLEAN
BY DEF Contents, Versions, Stamped, Supported

\* So is a journal, which is there.
LEMMA JournalType ==
    ASSUME NEW f \in Files, NEW c \in Contents, NEW h \in BOOLEAN
    PROVE  /\ [of |-> f, was |-> c, hot |-> h] \in Journals
           /\ [of |-> f, was |-> c, hot |-> h] # None
BY FileAssumption DEF Journals

\* A process that ends forgets.
LEMMA LeaveType ==
    ASSUME TypeOK, NEW p \in Procs, Leave(p)
    PROVE  /\ pc' \in [Procs -> Steps] /\ no' \in [Procs -> {0} \cup Writes]
           /\ conn' \in [Procs -> Files \cup {None}] /\ was' \in [Procs -> Contents]
           /\ since' \in [Procs -> SUBSET Writes]
<1>1. Partial \in Contents
  BY DEF Partial, Contents, Versions
<1> QED
  BY <1>1 DEF TypeOK, Leave, Goto, Steps

\* The file of a command is one of the files.
LEMMA TempType ==
    ASSUME Inv, NEW p \in Procs
    PROVE  Temp(p) \in Files /\ (pc[p] # "idle" => no[p] \in Writes)
BY FileAssumption DEF Inv, TypeOK, Names, Temp, Files, Writes

\* Nobody but a restore that is alone finds the journal of another file.
LEMMA JournalOfLive ==
    ASSUME Inv, careful, NEW p \in Procs, pc[p] # "idle", pc[p] \notin Restoring, journal # None
    PROVE  journal.of = live
BY DEF Inv, Alone, Undone, Restoring

\* Whoever reads the store plays back what was cut off, and nothing else.
LEMMA PlayedBack ==
    ASSUME Inv, careful, NEW p \in Procs, pc[p] # "idle", pc[p] \notin Restoring,
           \A q \in Procs : ~ (conn[q] = live /\ pc[q] = "flushed")
    PROVE  /\ \A q \in Procs : pc[q] # "flushed"
           /\ Played(live)[live] = Recovered
           /\ ~ Played(live)[live].torn
           /\ Played(live)[live].writes = acked
           /\ journal # None /\ ~ Hot(live) => ~ journal.hot
<1>1. \A q \in Procs : pc[q] # "flushed"
  BY DEF Inv, Alone, Connected
<1>2. journal # None => journal.of = live
  BY JournalOfLive
<1>3. Held(live) => (journal # None => ~ journal.hot)
  BY <1>1 DEF Inv, Undone, InTransaction, Held
<1>4. Hot(live) <=> journal # None /\ journal.hot
  BY <1>3 DEF Hot
<1>5. Played(live)[live] = Recovered
  BY <1>2, <1>4 DEF Inv, TypeOK, Played, Recovered
<1> QED
  BY <1>1, <1>4, <1>5 DEF Inv, Durable

\* The files that commands make are not the store, and not each other's.
LEMMA OwnFile ==
    ASSUME Inv, NEW p \in Procs, pc[p] # "idle", NEW q \in Procs \ {p}, pc[q] # "idle"
    PROVE  /\ Temp(q) \in Files \ {Temp(p)}
           /\ pc[q] \in Nameless => Temp(q) \in Files \ {live, Temp(p)}
<1>1. no[p] # no[q] /\ no[p] \in Nat /\ no[q] \in Nat
  BY FileAssumption DEF Inv, TypeOK, Names, Writes
<1> QED
  BY <1>1, TempType DEF Inv, Names, Temp
-----------------------------------------------------------------------------
(* One step after another. *)

\* The store that there is is whole, and nobody has it open.
LEMMA InitOK == ASSUME Init PROVE Inv
<1>1. PICK v \in Versions, b \in Versions :
        content = [f \in Files |-> Fresh(IF f = 1 THEN v ELSE b)]
  BY DEF Init
<1>2. \A u \in Versions : Fresh(u) \in Contents /\ Fresh(u).writes = {} /\ ~ Fresh(u).torn
  BY DEF Fresh, Contents
<1>3. /\ content \in [Files -> Contents]
      /\ \A f \in Files : content[f].writes = {} /\ ~ content[f].torn
  BY <1>1, <1>2
<1>4. Partial \in Contents
  BY DEF Partial, Contents, Versions
<1>5. TypeOK
  BY <1>3, <1>4, FileAssumption DEF Init, TypeOK, Steps, Files
<1>6. Names /\ Alone /\ Undone /\ Copied
  BY <1>3, FileAssumption DEF Init, Names, Alone, Undone, Copied, Connected, InTransaction,
     Nameless, Files
<1>7. Durable /\ BackupWhole
  BY <1>3, <1>5 DEF Init, TypeOK, Durable, BackupWhole, Recovered
<1> QED
  BY <1>5, <1>6, <1>7 DEF Inv

\* A command that starts will copy to a file that no other has.
LEMMA StartStep == ASSUME Inv, NEW p \in Procs, NEW kind \in Kinds, Start(p, kind) PROVE Inv'
<1> USE DEF Goto
<1>0. /\ pc'[p] \in {"openWrite", "openBackup", "inspect"} /\ pc[p] = "idle"
      /\ pc' = [pc EXCEPT ![p] = pc'[p]]
      /\ careful' => (pc'[p] = "inspect" => \A q \in Procs \ {p} : pc[q] = "idle")
      /\ careful' => careful /\ \A q \in Procs : pc[q] \notin Restoring
  BY FileAssumption DEF Start, Inv, TypeOK, Running, Steps
<1>1. TypeOK'
  BY <1>0, FileAssumption DEF Inv, TypeOK, Steps, Restoring, Start, Writes
<1>2. Names'
  BY <1>0, FileAssumption DEF Inv, TypeOK, Names, Connected, Start, Temp, Files, Writes
<1>3. ASSUME careful' PROVE Alone'
  <2>1. /\ \A q \in Procs \ {p} : pc'[q] = pc[q] /\ pc[q] \notin Restoring
        /\ conn' = conn /\ live' = live /\ conn[p] = None
        /\ pc'[p] \in Restoring => \A q \in Procs \ {p} : pc[q] = "idle"
    BY <1>0, <1>3 DEF Inv, TypeOK, Names, Restoring, Start
  <2> QED
    BY <1>0, <1>3, <2>1 DEF Inv, Alone, Connected
<1>4. ASSUME careful' PROVE Undone'
  BY <1>0, <1>4, FileAssumption DEF Inv, TypeOK, Undone, InTransaction, Start
<1>5. ASSUME careful' PROVE Copied'
  BY <1>0, <1>5 DEF Inv, TypeOK, Copied, Start, Temp
<1>6. ASSUME careful' PROVE Durable' /\ BackupWhole'
  BY <1>0, <1>6 DEF Inv, Durable, BackupWhole, Recovered, Start
<1> QED
  BY <1>1, <1>2, <1>0, <1>3, <1>4, <1>5, <1>6 DEF Inv

\* A store that is opened is one that is whole.
LEMMA OpenStep == ASSUME Inv, NEW p \in Procs, Open(p) PROVE Inv'
<1> USE DEF Goto
<1>1. TypeOK'
  BY PlayedType, ContentType, ContentFields, JournalType, TempType DEF Inv, TypeOK, Steps, Open,
     Played, Hot, Access
<1>2. Names'
  BY FileAssumption DEF Inv, TypeOK, Names, Nameless, Open, Temp, Played, Hot, Access, Files, Writes
<1>3. ASSUME careful' PROVE careful
  BY <1>3 DEF Open, Played, Hot, Access
<1>4. ASSUME careful' PROVE Alone'
  BY <1>3, <1>4, FileAssumption DEF Inv, TypeOK, Alone, Connected, Restoring, Open, Played, Hot,
     Access, Files
<1>5. ASSUME careful' PROVE Undone'
  BY <1>3, <1>5 DEF Inv, TypeOK, Alone, Undone, InTransaction, Connected, Open, Played, Hot, Access,
     Held
<1>6. ASSUME careful' PROVE Copied'
  BY <1>3, <1>6 DEF Inv, Alone, Undone, InTransaction, Restoring, Copied, Durable, BackupWhole,
     Recovered, Open, Played, Hot, Access, Temp, Held
<1>7. ASSUME careful' PROVE Durable' /\ BackupWhole'
  BY <1>3, <1>7 DEF Inv, TypeOK, Alone, Undone, InTransaction, Restoring, Copied, Durable,
     BackupWhole, Recovered, Open, Played, Hot, Access, Held
<1> QED
  BY <1>1, <1>2, <1>3, <1>4, <1>5, <1>6, <1>7 DEF Inv

\* A transaction begins with what was committed.
LEMMA BeginStep == ASSUME Inv, NEW p \in Procs, Begin(p) PROVE Inv'
<1> USE DEF Goto
<1>0. careful => /\ \A q \in Procs : pc[q] # "flushed"
                  /\ ~ Played(live)[live].torn
  BY PlayedBack DEF Begin, Restoring
<1>1. TypeOK'
  <2>1. Played(live) \in [Files -> Contents] /\ Played(live)[live] \in Contents
    BY PlayedType DEF Inv, TypeOK
  <2>2. journal' \in Journals
    BY <2>1 DEF Begin, Journals, Inv, TypeOK
  <2> QED
    BY <2>1, <2>2 DEF Begin, Inv, TypeOK, Steps
<1>2. Names'
  BY FileAssumption DEF Inv, Names, Nameless, Connected, Begin, Temp, Files, Writes
<1>3. ASSUME careful' PROVE careful
  BY <1>3 DEF Begin
<1>4. ASSUME careful' PROVE Alone'
  BY <1>3, <1>4, FileAssumption DEF Inv, Alone, Connected, Restoring, Begin, Files
<1>5. ASSUME careful' PROVE Undone'
  <2>1. /\ journal' = [of |-> live, was |-> was'[p], hot |-> FALSE]
        /\ was'[p] = content'[live] /\ live' = live
        /\ \A q \in Procs \ {p} : was'[q] = was[q] /\ pc'[q] = pc[q]
        /\ pc'[p] = "reserved"
    BY DEF Begin, Inv, TypeOK
  <2>2. ~ was'[p].torn /\ journal'.of = live
    BY <1>0, <1>3, <1>5, <2>1 DEF Begin
  <2>3. \A q \in Procs \ {p} : pc[q] \notin InTransaction /\ pc[q] \notin {"sweep", "reopen"}
    BY <1>3, <1>5 DEF Begin, Inv, Alone, Connected, InTransaction, Restoring, Held
  <2> QED
    BY <2>1, <2>2, <2>3 DEF Undone, InTransaction
<1>6. ASSUME careful' PROVE Copied'
  BY <1>3, <1>6 DEF Inv, Alone, Undone, InTransaction, Restoring, Copied, Durable, BackupWhole,
     Recovered, Begin, Temp, Hot, Held, Played
<1>7. ASSUME careful' PROVE Durable' /\ BackupWhole'
  BY <1>3, <1>7 DEF Inv, TypeOK, Alone, Undone, InTransaction, Restoring, Copied, Durable,
     BackupWhole, Recovered, Begin, Hot, Held, Played
<1> QED
  BY <1>1, <1>2, <1>3, <1>4, <1>5, <1>6, <1>7 DEF Inv

\* From here on a kill is undone by the journal.
LEMMA FlushStep == ASSUME Inv, NEW p \in Procs, Flush(p) PROVE Inv'
<1> USE DEF Goto
<1>0. careful =>
        /\ journal' = [of |-> live, was |-> was[p], hot |-> TRUE]
        /\ journal' # None
        /\ content'[live].writes = was[p].writes \cup {no[p]}
        /\ ~ was[p].torn /\ was[p].writes = acked
        /\ \A f \in Files \ {live} : content'[f] = content[f]
        /\ live' = live /\ bak' = bak /\ acked' = acked /\ was' = was /\ no' = no /\ since' = since
        /\ \A q \in Procs \ {p} : /\ pc'[q] = pc[q] /\ pc[q] \notin Restoring
                                 /\ pc[q] \notin {"reserved", "flushed", "vacuum"}
        /\ pc'[p] = "flushed"
  <2> SUFFICES ASSUME careful PROVE <1>0!2
    OBVIOUS
  <2>1. /\ pc[p] = "reserved" /\ conn[p] = live
        /\ journal = [of |-> live, was |-> was[p], hot |-> FALSE]
        /\ content[live] = was[p] /\ ~ was[p].torn
    BY DEF Flush, Inv, Alone, Undone, Connected, InTransaction
  <2>2. journal # None /\ journal.of = conn[p]
    BY <2>1, JournalType DEF Inv, TypeOK
  <2>3. journal' = [of |-> live, was |-> was[p], hot |-> TRUE]
    BY <2>1, <2>2 DEF Flush
  <2>4. journal' # None
    BY <2>3, JournalType DEF Inv, TypeOK
  <2>5. was[p].writes = acked
    BY <2>1 DEF Inv, Durable, Recovered
  <2>6. \A q \in Procs \ {p} : /\ pc'[q] = pc[q] /\ pc[q] \notin Restoring
                              /\ pc[q] \notin {"reserved", "flushed", "vacuum"}
    BY <2>1 DEF Flush, Inv, Alone, Undone, InTransaction, Connected, Reads
  <2> QED
    BY <2>1, <2>3, <2>4, <2>5, <2>6 DEF Flush, Inv, TypeOK
<1>1. TypeOK'
  <2>1. /\ was[p] \in Contents /\ was[p].writes \cup {no[p]} \in SUBSET Writes
        /\ Stamped(was[p].ver) \in Versions
    BY TempType, ContentFields DEF Flush, Inv, TypeOK
  <2>2. [ver |-> Stamped(was[p].ver), writes |-> was[p].writes \cup {no[p]}, torn |-> TRUE]
          \in Contents
    BY <2>1, ContentType
  <2>3. journal' \in Journals \cup {None}
    BY DEF Flush, Inv, TypeOK, Journals
  <2> QED
    BY <2>2, <2>3 DEF Flush, Inv, TypeOK, Steps
<1>2. Names'
  BY FileAssumption DEF Inv, Names, Nameless, Connected, Flush, Temp, Files, Writes
<1>3. ASSUME careful' PROVE careful
  BY <1>3 DEF Flush
<1>4. ASSUME careful' PROVE Alone'
  BY <1>3, <1>4, FileAssumption DEF Inv, Alone, Connected, Restoring, Flush, Files
<1>5. ASSUME careful' PROVE Undone'
  BY <1>0, <1>3, <1>5 DEF Undone, InTransaction, Restoring
<1>6. ASSUME careful' PROVE Copied'
  <2>1. pc[p] = "reserved" /\ since[p] \subseteq acked
    BY <1>3, <1>6 DEF Flush, Inv, Copied, Restoring
  <2>2. \A q \in Procs \ {p} :
          pc[q] \in {"publish", "rename"} => content'[Temp(q)] = content[Temp(q)]
    BY <1>0, <1>3, <1>6, TempType DEF Inv, Names, Nameless
  <2>3. \A q \in Procs : Temp(q)' = Temp(q)
    BY <1>0, <1>3, <1>6 DEF Temp
  <2> QED
    BY <1>0, <1>3, <1>6, <2>1, <2>2, <2>3 DEF Inv, Copied
<1>7. ASSUME careful' PROVE Durable' /\ BackupWhole'
  <2>1. Recovered' = was[p]
    BY <1>0, <1>3, <1>7 DEF Recovered
  <2>2. bak # None => bak \in Files \ {live}
    BY DEF Inv, TypeOK, Names
  <2> QED
    BY <1>0, <1>3, <1>7, <2>1, <2>2 DEF Inv, Durable, BackupWhole
<1> QED
  BY <1>1, <1>2, <1>3, <1>4, <1>5, <1>6, <1>7 DEF Inv

\* A commit adds its own write.
LEMMA CommitStep == ASSUME Inv, NEW p \in Procs, Commit(p) PROVE Inv'
<1> USE DEF Goto
<1>1. TypeOK'
  <2>1. [content[conn[p]] EXCEPT !.torn = was[p].torn] \in Contents \/ conn[p] \notin Files
    BY DEF Inv, TypeOK, Contents
  <2>2. content' \in [Files -> Contents]
    BY <2>1 DEF Commit, Inv, TypeOK
  <2> QED
    BY <2>2, LeaveType, TempType DEF Commit, Inv, TypeOK
<1>2. Names'
  BY FileAssumption DEF Inv, TypeOK, Names, Nameless, Connected, Commit, Temp, Leave, Files, Writes
<1>3. ASSUME careful' PROVE careful
  BY <1>3 DEF Commit, Leave
<1>4. ASSUME careful' PROVE Alone'
  BY <1>3, <1>4, FileAssumption DEF Inv, TypeOK, Alone, Connected, Restoring, Commit, Leave, Files
<1>5. ASSUME careful' PROVE Undone'
  BY <1>3, <1>5 DEF Inv, TypeOK, Undone, InTransaction, Commit, Leave, Hot, Held, Played
<1>6. ASSUME careful' PROVE Copied'
  BY <1>3, <1>6 DEF Inv, Undone, InTransaction, Restoring, Copied, Durable, BackupWhole, Recovered,
     Commit, Leave, Temp, Hot, Held, Played
<1>7. ASSUME careful' PROVE Durable' /\ BackupWhole'
  <2>1. /\ pc[p] = "flushed" /\ conn[p] = live /\ ~ was[p].torn
        /\ journal = [of |-> live, was |-> was[p], hot |-> TRUE]
        /\ content[live].writes = was[p].writes \cup {no[p]}
    BY <1>3, <1>7 DEF Commit, Inv, Alone, Undone, Connected, InTransaction
  <2>2. journal # None
    BY <2>1, JournalType DEF Inv, TypeOK
  <2>3. was[p].writes = acked
    BY <1>3, <1>7, <2>1, <2>2 DEF Inv, Durable, Recovered
  <2>4. /\ live' = live /\ journal' = None /\ acked' = acked \cup {no[p]} /\ bak' = bak
        /\ content' = [content EXCEPT ![live] = [content[live] EXCEPT !.torn = was[p].torn]]
    BY <2>1 DEF Commit
  <2>5. content'[live].torn = was[p].torn /\ content'[live].writes = content[live].writes
    BY <2>4 DEF Inv, TypeOK, Contents
  <2>6. bak # None => content'[bak] = content[bak]
    BY <2>4 DEF Inv, Names
  <2> QED
    BY <1>3, <1>7, <2>1, <2>3, <2>4, <2>5, <2>6 DEF Inv, Durable, BackupWhole, Recovered
<1> QED
  BY <1>1, <1>2, <1>3, <1>4, <1>5, <1>6, <1>7 DEF Inv

\* A snapshot begins with a store that nobody commits to,
LEMMA VacuumIntoStep == ASSUME Inv, NEW p \in Procs, VacuumInto(p) PROVE Inv'
<1> USE DEF Goto
<1>0. careful =>
        /\ Played(live)[live] = Recovered /\ ~ Recovered.torn /\ Recovered.writes = acked
        /\ \A q \in Procs : pc[q] \notin Restoring /\ pc[q] # "flushed"
        /\ journal' # None => journal' = journal /\ ~ journal.hot
        /\ content'[live] = Recovered
        /\ \A f \in Files \ {live, Temp(p)} : content'[f] = content[f]
        /\ \A q \in Procs \ {p} : pc'[q] = pc[q]
        /\ pc'[p] = "vacuum" /\ pc[p] = "vacuumInto"
        /\ live' = live /\ bak' = bak /\ acked' = acked /\ was' = was /\ no' = no /\ since' = since
        /\ conn' = conn
  <2> SUFFICES ASSUME careful PROVE <1>0!2
    OBVIOUS
  <2>1. conn[p] = live /\ pc[p] = "vacuumInto" /\ Temp(p) # live /\ Temp(p) # bak
    BY DEF VacuumInto, Inv, Names, Nameless, Alone, Connected
  <2>2. /\ Played(live)[live] = Recovered /\ ~ Recovered.torn /\ Recovered.writes = acked
        /\ \A q \in Procs : pc[q] # "flushed"
        /\ journal # None /\ ~ Hot(live) => ~ journal.hot
    BY <2>1, PlayedBack DEF VacuumInto, Access, Restoring
  <2>3. \A q \in Procs : pc[q] \notin Restoring
    BY <2>1 DEF Inv, Alone, Restoring
  <2>4. journal' # None => journal' = journal /\ ~ journal.hot
    BY <2>1, <2>2 DEF VacuumInto, Access
  <2>5. content' = [Played(live) EXCEPT ![Temp(p)] = Partial] /\ live \in Files
    BY <2>1 DEF VacuumInto, Inv, TypeOK
  <2>6. \A f \in Files \ {Temp(p)} : content'[f] = Played(live)[f]
    BY <2>5, PlayedType DEF Inv
  <2>7. \A f \in Files \ {live} : Played(live)[f] = content[f]
    BY <2>5, PlayedType DEF Inv
  <2> QED
    BY <2>1, <2>2, <2>3, <2>4, <2>5, <2>6, <2>7 DEF VacuumInto, Inv, TypeOK
<1>1. TypeOK'
  <2>1. conn[p] \in Files
    BY DEF VacuumInto, Inv, TypeOK, Names, Connected
  <2>2. Played(conn[p]) \in [Files -> Contents]
    BY <2>1, PlayedType DEF Inv
  <2>3. Partial \in Contents
    BY DEF Partial, Contents, Versions
  <2> QED
    BY <2>2, <2>3 DEF VacuumInto, Access, Inv, TypeOK, Steps
<1>2. Names'
  BY FileAssumption DEF Inv, Names, Nameless, Connected, VacuumInto, Temp, Access, Files, Writes
<1>3. ASSUME careful' PROVE careful
  BY <1>3 DEF VacuumInto, Access
<1>4. ASSUME careful' PROVE Alone'
  BY <1>3, <1>4, FileAssumption DEF Inv, Alone, Connected, Restoring, VacuumInto, Access, Files
<1>5. ASSUME careful' PROVE Undone'
  <2>1. \A q \in Procs : pc[q] = "reserved" => journal' = journal /\ content'[live] = content[live]
    BY <1>0, <1>3, <1>5, JournalType DEF Inv, Undone, Held, Hot, VacuumInto, Access, InTransaction,
       Recovered
  <2> QED
    BY <1>0, <1>3, <1>5, <2>1 DEF Inv, Undone, InTransaction
<1>6. ASSUME careful' PROVE Copied'
  <2>1. \A q \in Procs \ {p} :
          pc[q] \in {"publish", "rename"} => content'[Temp(q)] = content[Temp(q)]
    BY <1>0, <1>3, <1>6, OwnFile DEF Nameless
  <2>2. \A q \in Procs : Temp(q)' = Temp(q)
    BY <1>0, <1>3, <1>6 DEF Temp
  <2> QED
    BY <1>0, <1>3, <1>6, <2>1, <2>2 DEF Inv, Copied
<1>7. ASSUME careful' PROVE Durable' /\ BackupWhole'
  BY <1>3, <1>7 DEF Inv, TypeOK, Names, Alone, Undone, InTransaction, Connected, Restoring, Copied,
     Durable, BackupWhole, Recovered, VacuumInto, Access, Nameless, Hot, Held, Played
<1> QED
  BY <1>1, <1>2, <1>3, <1>4, <1>5, <1>6, <1>7 DEF Inv

\* which is what the snapshot ends with.
LEMMA VacuumEndStep == ASSUME Inv, NEW p \in Procs, VacuumEnd(p) PROVE Inv'
<1> USE DEF Goto
<1>0. careful =>
        /\ content'[Temp(p)] = Recovered /\ ~ Recovered.torn /\ Recovered.writes = acked
        /\ \A f \in Files \ {Temp(p)} : content'[f] = content[f]
        /\ \A q \in Procs \ {p} : pc'[q] = pc[q]
        /\ pc'[p] = "publish" /\ pc[p] = "vacuum"
  <2> SUFFICES ASSUME careful PROVE <1>0!2
    OBVIOUS
  <2>1. conn[p] = live /\ pc[p] = "vacuum"
    BY DEF VacuumEnd, Inv, Alone, Connected
  <2>2. Recovered = content[live]
    BY <2>1 DEF Inv, Copied, Recovered
  <2> QED
    BY <2>1, <2>2, TempType DEF VacuumEnd, Inv, TypeOK, Durable
<1>1. TypeOK'
  <2>1. conn[p] \in Files
    BY DEF VacuumEnd, Inv, TypeOK, Names, Connected
  <2> QED
    BY <2>1 DEF VacuumEnd, Inv, TypeOK, Steps
<1>2. Names'
  BY FileAssumption DEF Inv, Names, Nameless, Connected, VacuumEnd, Temp, Files, Writes
<1>3. ASSUME careful' PROVE careful
  BY <1>3 DEF VacuumEnd
<1>4. ASSUME careful' PROVE Alone'
  BY <1>3, <1>4, FileAssumption DEF Inv, Alone, Connected, Restoring, VacuumEnd, Files
<1>5. ASSUME careful' PROVE Undone'
  BY <1>3, <1>5 DEF Inv, Alone, Undone, InTransaction, Connected, VacuumEnd, Hot, Held, Played
<1>6. ASSUME careful' PROVE Copied'
  <2>1. \A q \in Procs \ {p} :
          pc[q] \in {"publish", "rename"} => content'[Temp(q)] = content[Temp(q)]
    BY <1>0, <1>3, <1>6, OwnFile
  <2>2. \A q \in Procs : Temp(q)' = Temp(q)
    BY DEF Temp, VacuumEnd
  <2>3. /\ acked' = acked /\ since' = since /\ journal' = journal
        /\ since[p] \subseteq acked
    BY <1>0, <1>3, <1>6 DEF Inv, Copied, Restoring, VacuumEnd
  <2> QED
    BY <1>0, <1>3, <1>6, <2>1, <2>2, <2>3 DEF Inv, Copied
<1>7. ASSUME careful' PROVE Durable' /\ BackupWhole'
  BY <1>3, <1>7 DEF Inv, Alone, InTransaction, Connected, Copied, Durable, BackupWhole, Recovered,
     VacuumEnd, Hot, Held, Played
<1> QED
  BY <1>1, <1>2, <1>3, <1>4, <1>5, <1>6, <1>7 DEF Inv

\* The snapshot becomes the backup.
LEMMA PublishStep == ASSUME Inv, NEW p \in Procs, Publish(p) PROVE Inv'
<1> USE DEF Goto
<1>1. TypeOK'
  BY LeaveType, PlayedType, TempType DEF Inv, TypeOK, Publish
<1>2. Names'
  BY FileAssumption DEF Inv, TypeOK, Names, Nameless, Connected, Publish, Temp, Leave, Files, Writes
<1>3. ASSUME careful' PROVE careful
  BY <1>3 DEF Publish, Leave
<1>4. ASSUME careful' PROVE Alone'
  BY <1>3, <1>4, FileAssumption DEF Inv, TypeOK, Alone, Connected, Restoring, Publish, Leave, Files
<1>5. ASSUME careful' PROVE Undone'
  BY <1>3, <1>5 DEF Inv, Undone, InTransaction, Publish, Leave, Hot, Held, Played
<1>6. ASSUME careful' PROVE Copied'
  BY <1>3, <1>6 DEF Inv, TypeOK, InTransaction, Copied, Durable, BackupWhole, Recovered, Publish,
     Leave, Temp, Hot, Held, Played
<1>7. ASSUME careful' PROVE Durable' /\ BackupWhole'
  BY <1>3, <1>7 DEF Inv, InTransaction, Copied, Durable, BackupWhole, Recovered, Publish, Leave,
     Hot, Held, Played
<1> QED
  BY <1>1, <1>2, <1>3, <1>4, <1>5, <1>6, <1>7 DEF Inv

\* A restore that looks at its source,
LEMMA InspectSourceStep == ASSUME Inv, NEW p \in Procs, InspectSource(p) PROVE Inv'
<1> USE DEF Goto
<1>1. TypeOK'
  BY PlayedType, ContentType, ContentFields, JournalType, TempType DEF Inv, TypeOK, Steps,
     Restoring, InspectSource
<1>2. Names'
  BY FileAssumption DEF Inv, Names, Nameless, Connected, InspectSource, Temp, Files, Writes
<1>3. ASSUME careful' PROVE careful
  BY <1>3 DEF InspectSource
<1>4. ASSUME careful' PROVE Alone'
  BY <1>3, <1>4, FileAssumption DEF Inv, Alone, Connected, Restoring, InspectSource, Files
<1>5. ASSUME careful' PROVE Undone'
  BY <1>3, <1>5 DEF Inv, Undone, InTransaction, InspectSource, Hot, Held, Played
<1>6. ASSUME careful' PROVE Copied'
  BY <1>3, <1>6 DEF Inv, InTransaction, Restoring, Copied, Durable, BackupWhole, Recovered,
     InspectSource, Temp, Hot, Held, Played
<1>7. ASSUME careful' PROVE Durable' /\ BackupWhole'
  BY <1>3, <1>7 DEF Inv, InTransaction, Copied, Durable, BackupWhole, Recovered, InspectSource, Hot,
     Held, Played
<1> QED
  BY <1>1, <1>2, <1>3, <1>4, <1>5, <1>6, <1>7 DEF Inv

\* and at what it replaces, changes nothing.
LEMMA GuardStep == ASSUME Inv, NEW p \in Procs, Guard(p) PROVE Inv'
<1> USE DEF Goto
<1>1. TypeOK'
  BY PlayedType, ContentType, ContentFields, JournalType, TempType DEF Inv, TypeOK, Steps,
     Restoring, Guard
<1>2. Names'
  BY FileAssumption DEF Inv, Names, Nameless, Connected, Guard, Temp, Files, Writes
<1>3. ASSUME careful' PROVE careful
  BY <1>3 DEF Guard
<1>4. ASSUME careful' PROVE Alone'
  BY <1>3, <1>4, FileAssumption DEF Inv, Alone, Connected, Restoring, Guard, Files
<1>5. ASSUME careful' PROVE Undone'
  BY <1>3, <1>5 DEF Inv, Undone, InTransaction, Guard, Hot, Held, Played
<1>6. ASSUME careful' PROVE Copied'
  BY <1>3, <1>6 DEF Inv, InTransaction, Restoring, Copied, Durable, BackupWhole, Recovered, Guard,
     Temp, Hot, Held, Played
<1>7. ASSUME careful' PROVE Durable' /\ BackupWhole'
  BY <1>3, <1>7 DEF Inv, InTransaction, Copied, Durable, BackupWhole, Recovered, Guard, Hot, Held,
     Played
<1> QED
  BY <1>1, <1>2, <1>3, <1>4, <1>5, <1>6, <1>7 DEF Inv

\* It copies a whole store,
LEMMA CopySourceStep == ASSUME Inv, NEW p \in Procs, CopySource(p) PROVE Inv'
<1> USE DEF Goto
<1>1. TypeOK'
  BY PlayedType, ContentType, ContentFields, JournalType, TempType DEF Inv, TypeOK, Steps,
     Restoring, CopySource
<1>2. Names'
  BY FileAssumption DEF Inv, Names, Nameless, Connected, CopySource, Temp, Files, Writes
<1>3. ASSUME careful' PROVE careful
  BY <1>3 DEF CopySource
<1>4. ASSUME careful' PROVE Alone'
  BY <1>3, <1>4, FileAssumption DEF Inv, Alone, Connected, Restoring, CopySource, Files
<1>5. ASSUME careful' PROVE Undone'
  BY <1>3, <1>5 DEF Inv, Alone, Undone, InTransaction, Restoring, CopySource, Hot, Held, Played
<1>6. ASSUME careful' PROVE Copied'
  <2>1. /\ pc[p] = "copy" /\ pc'[p] = "rename"
        /\ \A q \in Procs \ {p} : pc[q] = "idle" /\ pc'[q] = "idle"
        /\ acked' = acked /\ since' = since /\ Temp(p)' = Temp(p)
    BY <1>3, <1>6 DEF CopySource, Inv, TypeOK, Alone, Restoring, Temp
  <2>2. content'[Temp(p)] = content[bak] /\ ~ content[bak].torn
    BY <1>3, <1>6, TempType DEF CopySource, Inv, TypeOK, BackupWhole
  <2> QED
    BY <1>3, <1>6, <2>1, <2>2 DEF Inv, Copied, Restoring
<1>7. ASSUME careful' PROVE Durable' /\ BackupWhole'
  BY <1>3, <1>7 DEF Inv, Names, InTransaction, Copied, Durable, BackupWhole, Recovered, CopySource,
     Nameless, Hot, Held, Played
<1> QED
  BY <1>1, <1>2, <1>3, <1>4, <1>5, <1>6, <1>7 DEF Inv

\* which becomes the live one, whatever journal there is,
LEMMA ReplaceStep == ASSUME Inv, NEW p \in Procs, Replace(p) PROVE Inv'
<1> USE DEF Goto
<1>1. TypeOK'
  BY PlayedType, ContentType, ContentFields, JournalType, TempType DEF Inv, TypeOK, Steps,
     Restoring, Replace
<1>2. Names'
  BY FileAssumption DEF Inv, TypeOK, Names, Nameless, Connected, Replace, Temp, Files, Writes
<1>3. ASSUME careful' PROVE careful
  BY <1>3 DEF Replace
<1>4. ASSUME careful' PROVE Alone'
  BY <1>3, <1>4, FileAssumption DEF Inv, Alone, Connected, Restoring, Replace, Files
<1>5. ASSUME careful' PROVE Undone'
  BY <1>3, <1>5 DEF Inv, TypeOK, Names, Alone, Undone, InTransaction, Restoring, Replace, Nameless,
     Hot, Held, Played
<1>6. ASSUME careful' PROVE Copied'
  <2>1. /\ pc[p] = "rename" /\ pc'[p] = "sweep"
        /\ \A q \in Procs \ {p} : pc[q] = "idle" /\ pc'[q] = "idle"
        /\ since' = since /\ \A q \in Procs \ {p} : since[q] = {}
    BY <1>3, <1>6 DEF Replace, Inv, TypeOK, Names, Alone, Restoring
  <2> QED
    BY <2>1 DEF Copied, Restoring
<1>7. ASSUME careful' PROVE Durable' /\ BackupWhole'
  BY <1>3, <1>7 DEF Inv, Names, Alone, Undone, InTransaction, Restoring, Copied, Durable,
     BackupWhole, Recovered, Replace, Nameless, Hot, Held, Played
<1> QED
  BY <1>1, <1>2, <1>3, <1>4, <1>5, <1>6, <1>7 DEF Inv

\* and has none of its own.
LEMMA SweepStep == ASSUME Inv, NEW p \in Procs, Sweep(p) PROVE Inv'
<1> USE DEF Goto
<1>1. TypeOK'
  BY PlayedType, ContentType, ContentFields, JournalType, TempType DEF Inv, TypeOK, Steps,
     Restoring, Sweep
<1>2. Names'
  BY FileAssumption DEF Inv, Names, Nameless, Connected, Sweep, Temp, Files, Writes
<1>3. ASSUME careful' PROVE careful /\ journal' = None
  BY <1>3 DEF Sweep, Inv, TypeOK
<1>4. ASSUME careful' PROVE Alone'
  BY <1>3, <1>4, FileAssumption DEF Inv, Alone, Connected, Restoring, Sweep, Files
<1>5. ASSUME careful' PROVE Undone'
  BY <1>3, <1>5 DEF Inv, Undone, InTransaction, Sweep, Hot, Held, Played
<1>6. ASSUME careful' PROVE Copied'
  BY <1>3, <1>6 DEF Inv, InTransaction, Restoring, Copied, Durable, BackupWhole, Recovered, Sweep,
     Temp, Hot, Held, Played
<1>7. ASSUME careful' PROVE Durable' /\ BackupWhole'
  BY <1>3, <1>7 DEF Inv, Undone, InTransaction, Copied, Durable, BackupWhole, Recovered, Sweep, Hot,
     Held, Played
<1> QED
  BY <1>1, <1>2, <1>3, <1>4, <1>5, <1>6, <1>7 DEF Inv

\* So there is nothing to play back.
LEMMA ReopenStep == ASSUME Inv, NEW p \in Procs, Reopen(p) PROVE Inv'
<1> USE DEF Goto
<1>1. TypeOK'
  <2>1. Played(live) \in [Files -> Contents]
    BY PlayedType DEF Inv, TypeOK
  <2>2. journal' \in Journals \cup {None}
    BY DEF Reopen, Access, Inv, TypeOK
  <2> QED
    BY <2>1, <2>2, LeaveType DEF Reopen, Inv, TypeOK
<1>2. Names'
  BY FileAssumption DEF Inv, TypeOK, Names, Nameless, Connected, Reopen, Temp, Leave, Access, Files,
     Writes
<1>3. ASSUME careful' PROVE careful
  BY <1>3 DEF Reopen, Leave, Access
<1>4. ASSUME careful' PROVE Alone'
  BY <1>3, <1>4, FileAssumption DEF Inv, Alone, Connected, Restoring, Reopen, Leave, Access, Files
<1>5. ASSUME careful' PROVE Undone'
  BY <1>3, <1>5 DEF Inv, Alone, Undone, InTransaction, Restoring, Reopen, Leave, Access, Hot, Held,
     Played
<1>6. ASSUME careful' PROVE Copied'
  BY <1>3, <1>6 DEF Inv, TypeOK, Undone, InTransaction, Copied, Durable, BackupWhole, Recovered,
     Reopen, Leave, Access, Temp, Hot, Held, Played
<1>7. ASSUME careful' PROVE Durable' /\ BackupWhole'
  BY <1>3, <1>7 DEF Inv, Undone, InTransaction, Copied, Durable, BackupWhole, Recovered, Reopen,
     Leave, Access, Hot, Held, Played
<1> QED
  BY <1>1, <1>2, <1>3, <1>4, <1>5, <1>6, <1>7 DEF Inv

\* A command that gives up leaves what was committed.
LEMMA GiveUpStep == ASSUME Inv, NEW p \in Procs, GiveUp(p) PROVE Inv'
<1> USE DEF Goto
<1>1. TypeOK'
  BY LeaveType, PlayedType, TempType DEF Inv, TypeOK, GiveUp
<1>2. Names'
  BY FileAssumption DEF Inv, TypeOK, Names, Nameless, Connected, GiveUp, Temp, Leave, Files, Writes
<1>3. ASSUME careful' PROVE careful
  BY <1>3 DEF GiveUp, Leave
<1>4. ASSUME careful' PROVE Alone'
  BY <1>3, <1>4, FileAssumption DEF Inv, TypeOK, Alone, Connected, Restoring, GiveUp, Leave, Files
<1>5. ASSUME careful' PROVE Undone'
  BY <1>3, <1>5 DEF Inv, TypeOK, Undone, InTransaction, GiveUp, Leave, Hot, Held, Played
<1>6. ASSUME careful' PROVE Copied'
  BY <1>3, <1>6 DEF Inv, TypeOK, InTransaction, Copied, Durable, BackupWhole, Recovered, GiveUp,
     Leave, Temp, Hot, Held, Played
<1>7. ASSUME careful' PROVE Durable' /\ BackupWhole'
  BY <1>3, <1>7 DEF Inv, Undone, InTransaction, Copied, Durable, BackupWhole, Recovered, GiveUp,
     Leave, Hot, Held, Played
<1> QED
  BY <1>1, <1>2, <1>3, <1>4, <1>5, <1>6, <1>7 DEF Inv

\* A kill leaves a journal, if it was needed.
LEMMA CrashStep == ASSUME Inv, NEW p \in Procs, Crash(p) PROVE Inv'
<1> USE DEF Goto
<1>1. TypeOK'
  BY LeaveType, PlayedType, TempType DEF Inv, TypeOK, Crash
<1>2. Names'
  BY FileAssumption DEF Inv, TypeOK, Names, Nameless, Connected, Crash, Temp, Leave, Files, Writes
<1>3. ASSUME careful' PROVE careful
  BY <1>3 DEF Crash, Leave
<1>4. ASSUME careful' PROVE Alone'
  BY <1>3, <1>4, FileAssumption DEF Inv, TypeOK, Alone, Connected, Restoring, Crash, Leave, Files
<1>5. ASSUME careful' PROVE Undone'
  <2>1. /\ live' = live /\ content' = content /\ journal' = journal /\ pc'[p] = "idle"
        /\ \A q \in Procs \ {p} : pc'[q] = pc[q] /\ was'[q] = was[q] /\ no'[q] = no[q]
        /\ pc[p] = "sweep" => journal = None
    BY <1>3, <1>5 DEF Crash, Leave, Inv, TypeOK
  <2>2. journal # None => journal.of = live \/ \E q \in Procs \ {p} : pc[q] = "sweep"
    BY <1>3, <1>5, <2>1 DEF Inv, Undone
  <2> QED
    BY <1>3, <1>5, <2>1, <2>2 DEF Inv, Undone, InTransaction
<1>6. ASSUME careful' PROVE Copied'
  BY <1>3, <1>6 DEF Inv, TypeOK, InTransaction, Copied, Durable, BackupWhole, Recovered, Crash,
     Leave, Temp, Hot, Held, Played
<1>7. ASSUME careful' PROVE Durable' /\ BackupWhole'
  BY <1>3, <1>7 DEF Inv, InTransaction, Copied, Durable, BackupWhole, Recovered, Crash, Leave, Hot,
     Held, Played
<1> QED
  BY <1>1, <1>2, <1>3, <1>4, <1>5, <1>6, <1>7 DEF Inv

-----------------------------------------------------------------------------
(* The theorems. *)

\* Whatever runs beside it, no step breaks what the store rests on.
THEOREM Invariance == Spec => []Inv
<1>1. ASSUME Inv, [Next]_vars PROVE Inv'
  <2>1. CASE UNCHANGED vars
    BY <1>1, <2>1 DEF vars, process, Inv, TypeOK, Names, Alone, Undone, Copied, Durable,
       BackupWhole, Recovered, Temp
  <2>2. ASSUME NEW p \in Procs,
               \/ \E kind \in Kinds : Start(p, kind)
               \/ Open(p) \/ Begin(p) \/ Flush(p) \/ Commit(p)
               \/ VacuumInto(p) \/ VacuumEnd(p) \/ Publish(p)
               \/ InspectSource(p) \/ Guard(p) \/ CopySource(p) \/ Replace(p) \/ Sweep(p)
               \/ Reopen(p) \/ GiveUp(p) \/ Crash(p)
        PROVE  Inv'
    BY <1>1, <2>2, StartStep, OpenStep, BeginStep, FlushStep, CommitStep, VacuumIntoStep,
       VacuumEndStep, PublishStep, InspectSourceStep, GuardStep, CopySourceStep, ReplaceStep,
       SweepStep, ReopenStep, GiveUpStep, CrashStep
  <2> QED
    BY <1>1, <2>1, <2>2 DEF Next
<1> QED
  BY <1>1, InitOK, PTL DEF Spec

\* A store holds exactly what commands have committed to it, whichever processes
\* were killed, when, and whichever journal they have left.
THEOREM StoreIsDurable == Spec => []Durable
<1>1. Inv => Durable
  BY DEF Inv, Durable
<1> QED
  BY <1>1, Invariance, PTL

\* A backup is a whole store whenever anybody looks.
THEOREM BackupsAreWhole == Spec => []BackupWhole
<1>1. Inv => BackupWhole
  BY DEF Inv, BackupWhole
<1> QED
  BY <1>1, Invariance, PTL

\* A new backup holds what was committed before it was asked for, and nothing that
\* was not committed.
THEOREM BackupsAreRecent == Spec => BackupIsRecent
<1> DEFINE Recent(p) == careful /\ pc[p] = "publish" /\ pc'[p] = "idle" /\ bak' # bak =>
                          /\ since[p] \subseteq content[bak'].writes
                          /\ content[bak'].writes \subseteq acked
<1>1. ASSUME Inv, [Next]_vars, NEW p \in Procs PROVE Recent(p)
  <2> SUFFICES ASSUME careful, pc[p] = "publish", pc'[p] = "idle", bak' # bak
               PROVE  /\ since[p] \subseteq content[bak'].writes
                      /\ content[bak'].writes \subseteq acked
    OBVIOUS
  <2>1. PICK q \in Procs : Publish(q)
    BY <1>1 DEF Next, vars, process, Start, Open, Begin, Flush, Commit, VacuumInto, VacuumEnd,
       InspectSource, Guard, CopySource, Replace, Sweep, Reopen, GiveUp, Crash
  <2>2. q = p
    BY <1>1, <2>1 DEF Publish, Leave, Goto, Inv
  <2> QED
    BY <1>1, <2>1, <2>2 DEF Publish, Inv, Copied
<1>2. Inv /\ [Next]_vars =>
        [\A p \in Procs : careful /\ pc[p] = "publish" /\ pc'[p] = "idle" /\ bak' # bak =>
           since[p] \subseteq content[bak'].writes /\ content[bak'].writes \subseteq acked]_vars
  BY <1>1
<1> QED
  BY <1>2, Invariance, PTL DEF Spec, BackupIsRecent
=============================================================================
