-------------------------- MODULE Ingestion_proofs --------------------------
(***************************************************************************)
(* However often a session is imported, and however little of it there is  *)
(* at the first import, what is stored of it is where the next import      *)
(* looks, but for the two names of a Grok session: what imports store and  *)
(* report, for any lines that a harness may write and files of any length. *)
(***************************************************************************)
EXTENDS Ingestion, ListingLemmas, SequenceTheorems

Files == Seq(Lines[harness] \cup {Torn})

\* What a file was before the harness went on with it: only its last line may
\* have changed since, and only from a torn line to a record.
Grown(old, new) ==
    /\ Len(old) <= Len(new)
    /\ \A i \in 1..Len(old) :
         new[i] = old[i] \/ (i = Len(old) /\ old[i] = Torn /\ new[i].form = "record")

\* A file that has a record tells which session it is.
Begun(f) == harness \in Transcript => Records(harness, f) # {}

JobOK ==
    /\ job = [pc |-> job.pc, file |-> job.file, sidecar |-> job.sidecar,
              messages |-> job.messages, parts |-> job.parts]
    /\ job.file \in Files
    /\ Grown(job.file, file)
    /\ job.sidecar \in {NoSummary, names.summary}

\* What an import would read now if the summary read as s.
Read(s) == [Now EXCEPT !.sidecar = s]

\* A Work that has rows is the one of the session, or one of its two.
Homed(w) ==
    DOMAIN works[w].rows # {} =>
      /\ Begun(file)
      /\ \E s \in {NoSummary, names.summary} : Importable(Read(s)) /\ ObservedId(Read(s)) = w

Inv == /\ harness \in Harnesses
       /\ sidecar \in {NoSummary, names.summary}
       /\ file \in Files
       /\ JobOK
       /\ \A w \in DOMAIN works : Homed(w)
-----------------------------------------------------------------------------
\* No adapter takes a line that is not JSON for a record.
LEMMA TornIsRejected ==
    ASSUME NEW h \in Transcript
    PROVE  "torn" \in DOMAIN RejectionCode(h)
BY DEF Transcript, RejectionCode

\* A file that goes on keeps its records, and gains none before them.
LEMMA RecordsKept ==
    ASSUME NEW h \in Transcript, NEW S, NEW old \in Seq(S), NEW new \in Seq(S),
           Grown(old, new)
    PROVE  /\ Records(h, old) \subseteq Records(h, new)
           /\ \A n \in Records(h, old) : new[n] = old[n]
           /\ \A n \in Records(h, new) \ Records(h, old) : Len(old) <= n
<1>1. \A n \in Records(h, old) : n \in 1..Len(old) /\ old[n].form # "torn"
  BY TornIsRejected DEF Records
<1>2. \A n \in Records(h, old) : n \in DOMAIN new /\ new[n] = old[n]
  BY <1>1 DEF Grown, Torn
<1>3. Records(h, old) \subseteq Records(h, new)
  BY <1>2 DEF Records
<1>4. ASSUME NEW n \in Records(h, new) \ Records(h, old), n < Len(old)
      PROVE  FALSE
  <2>1. n \in 1..Len(old) /\ new[n] = old[n]
    BY <1>4 DEF Records, Grown
  <2> QED
    BY <2>1, <1>4 DEF Records
<1>5. \A n \in Records(h, new) : n \in Nat
  BY DEF Records
<1> QED
  BY <1>2, <1>3, <1>4, <1>5

\* First finds the least of a set of lines.
LEMMA FirstIsLeast ==
    ASSUME NEW T \in SUBSET Nat, T # {}
    PROVE  First(T) \in T /\ \A m \in T : First(T) <= m
BY NatLeast DEF First

\* So its header stays, and with it its session and whether it can be read.
LEMMA HeaderKept ==
    ASSUME NEW h \in Transcript, NEW S, NEW old \in Seq(S), NEW new \in Seq(S),
           Grown(old, new), Records(h, old) # {}
    PROVE  Records(h, new) # {} /\ Header(h, new) = Header(h, old)
<1>1. /\ Records(h, old) \subseteq Records(h, new)
      /\ \A n \in Records(h, old) : new[n] = old[n]
      /\ \A n \in Records(h, new) \ Records(h, old) : Len(old) <= n
  BY RecordsKept
<1>2. Records(h, old) \in SUBSET Nat /\ Records(h, new) \in SUBSET Nat
  BY DEF Records
<1>3. Records(h, new) # {}
  BY <1>1
<1> DEFINE a == First(Records(h, old))
           b == First(Records(h, new))
<1>4. a \in Records(h, old) /\ \A m \in Records(h, old) : a <= m
  BY <1>2, FirstIsLeast
<1>5. b \in Records(h, new) /\ \A m \in Records(h, new) : b <= m
  BY <1>2, <1>3, FirstIsLeast
<1>6. a <= Len(old) /\ a \in Nat /\ b \in Nat /\ Len(old) \in Nat
  BY <1>2, <1>4, <1>5 DEF Records
<1>7. b <= a
  BY <1>1, <1>4, <1>5
<1>8. a <= b
  <2>1. CASE b \in Records(h, old)
    BY <2>1, <1>4
  <2>2. CASE b \notin Records(h, old)
    BY <2>2, <1>1, <1>5, <1>6
  <2> QED
    BY <2>1, <2>2
<1>9. a = b
  BY <1>6, <1>7, <1>8
<1> QED
  BY <1>1, <1>3, <1>4, <1>9 DEF Header

\* Whether a file can be read and which session it is stay, once it has a record.
LEMMA SessionKept ==
    ASSUME NEW h \in Transcript, NEW S, NEW old \in Seq(S), NEW new \in Seq(S),
           Grown(old, new), Records(h, old) # {}, NEW named
    PROVE  /\ Records(h, new) # {}
           /\ Readable(h, new, named) <=> Readable(h, old, named)
           /\ SourceId(h, new, named) = SourceId(h, old, named)
<1>1. Records(h, new) # {} /\ Header(h, new) = Header(h, old)
  BY HeaderKept
<1>2. h = "codex" \/ h = "grok" \/ h = "pi"
  BY DEF Transcript
<1> QED
  BY <1>1, <1>2 DEF Readable, SourceId

\* A file that goes on twice goes on.
LEMMA GrownTransitive ==
    ASSUME NEW S, NEW a \in Seq(S), NEW b \in Seq(S), NEW c \in Seq(S),
           Grown(a, b), Grown(b, c)
    PROVE  Grown(a, c)
<1>1. Len(a) \in Nat /\ Len(b) \in Nat /\ Len(c) \in Nat
  OBVIOUS
<1> QED
  BY <1>1 DEF Grown

\* What is listed was read from a record.
LEMMA ListedIsRecord ==
    ASSUME NEW h \in Transcript, NEW f, DOMAIN TranscriptListing(h, f) # {}
    PROVE  Records(h, f) # {}
<1>1. Events(h, f) # {}
  BY DEF TranscriptListing, Foremost
<1> QED
  BY <1>1 DEF Events, PiEntries
-----------------------------------------------------------------------------
\* At first nothing has been read or stored.
LEMMA InitOK == Init => Inv
<1> SUFFICES ASSUME Init PROVE Inv
  OBVIOUS
<1>1. file = <<>> /\ job = Idle /\ works = <<>> /\ sidecar = NoSummary
  BY DEF Init
<1>2. file \in Files /\ job.file \in Files /\ Grown(job.file, file)
  BY <1>1 DEF Files, Idle, Grown
<1>3. JobOK
  BY <1>1, <1>2 DEF JobOK, Idle
<1> QED
  BY <1>1, <1>2, <1>3 DEF Init, Inv

\* What Read takes of the state is the file, and for OpenCode what is in its tables.
LEMMA ReadFields ==
    ASSUME NEW s
    PROVE  /\ Read(s).file = file /\ Read(s).sidecar = s
           /\ (Read(s).file)' = file' /\ (Read(s).sidecar)' = s
BY DEF Read, Now, Idle

\* A Work stays the one of the session, and may become it by a first import: the
\* summary that an import read names it, and a file that goes on keeps its header.
LEMMA HomedFrom ==
    ASSUME NEW f \in Files, NEW w, NEW s, file' \in Files, Grown(f, file'),
           harness \in Transcript => Records(harness, f) # {},
           UNCHANGED <<harness, names>>, s \in {NoSummary, names.summary},
           harness \in Transcript =>
             /\ Readable(harness, f, GrokId(names.directory, s))
             /\ w = SourceId(harness, f, GrokId(names.directory, s)),
           harness \notin Transcript => w = OpenCodeSession
    PROVE  Homed(w)'
<1>1. CASE harness \in Transcript
  <2> DEFINE named == GrokId(names.directory, s)
  <2>1. /\ Records(harness, file') # {}
        /\ Readable(harness, file', named) <=> Readable(harness, f, named)
        /\ SourceId(harness, file', named) = SourceId(harness, f, named)
    <3> HIDE DEF named
    <3>1. Files = Files' /\ f \in Seq(Lines[harness] \cup {Torn})
             /\ file' \in Seq(Lines[harness] \cup {Torn})
      BY DEF Files
    <3> QED
      BY <1>1, <3>1, SessionKept
  <2>2. Begun(file)'
    BY <2>1 DEF Begun
  <2>3. Importable(Read(s))' /\ (ObservedId(Read(s)))' = w
    BY <1>1, <2>1, ReadFields DEF Importable, ObservedId, SessionName
  <2> QED
    BY <2>2, <2>3 DEF Homed
<1>2. CASE harness \notin Transcript
  <2>1. Begun(file)' /\ Importable(Read(s))' /\ (ObservedId(Read(s)))' = w
    BY <1>2 DEF Begun, Importable, ObservedId
  <2> QED
    BY <2>1 DEF Homed
<1> QED
  BY <1>1, <1>2

\* A step that at most lets the file grow leaves every Work the one of the session.
LEMMA HomedStays ==
    ASSUME Inv, file' \in Files, Grown(file, file'), UNCHANGED <<harness, names>>,
           NEW w \in DOMAIN works, DOMAIN works[w].rows # {}
    PROVE  Homed(w)'
<1>1. PICK s \in {NoSummary, names.summary} : Importable(Read(s)) /\ ObservedId(Read(s)) = w
  BY DEF Inv, Homed
<1>2. Begun(file) /\ file \in Files
  BY DEF Inv, Homed
<1>3. harness \in Transcript =>
        /\ Readable(harness, file, GrokId(names.directory, s))
        /\ w = SourceId(harness, file, GrokId(names.directory, s))
  BY <1>1, ReadFields DEF Importable, ObservedId, SessionName
<1>4. harness \notin Transcript => w = OpenCodeSession
  BY <1>1 DEF ObservedId
<1> QED
  BY <1>2, <1>3, <1>4, HomedFrom DEF Begun

\* And where the Works do not change, the invariant holds on.
LEMMA FileStep ==
    ASSUME Inv, file' \in Files, Grown(file, file'), UNCHANGED <<harness, names, job, works>>,
           sidecar' \in {NoSummary, names.summary}
    PROVE  Inv'
<1>1. Files' = Files
  BY DEF Files
<1>2. JobOK'
  <2>1. Grown(job.file, file')
    BY GrownTransitive DEF Inv, JobOK, Files
  <2> QED
    BY <1>1, <2>1 DEF Inv, JobOK, Grown
<1>3. ASSUME NEW w \in DOMAIN works PROVE Homed(w)'
  <2>1. CASE DOMAIN works[w].rows # {}
    BY <2>1, HomedStays
  <2>2. CASE DOMAIN works[w].rows = {}
    BY <2>2 DEF Homed
  <2> QED
    BY <2>1, <2>2
<1> QED
  BY <1>1, <1>2, <1>3 DEF Inv

\* What the harness does lets the file grow or leaves it alone.
LEMMA HarnessStep == ASSUME Inv, Harness PROVE Inv'
<1>1. CASE AppendLine
  <2>1. PICK l \in Lines[harness] \cup {Torn} : file' = Append(file, l)
    BY <1>1 DEF AppendLine
  <2>2. file' \in Files /\ Grown(file, file')
    BY <2>1 DEF Inv, Files, Grown
  <2> QED
    BY <1>1, <2>2, FileStep DEF AppendLine, Inv
<1>2. CASE CompleteLine
  <2>1. PICK l \in Lines[harness] :
          l.form = "record" /\ file' = [file EXCEPT ![Len(file)] = l]
    BY <1>2 DEF CompleteLine
  <2>2. file # <<>> /\ file[Len(file)] = Torn
    BY <1>2 DEF CompleteLine, Unbroken
  <2>3. file' \in Files /\ Grown(file, file')
    BY <2>1, <2>2 DEF Inv, Files, Grown
  <2> QED
    BY <1>2, <2>3, FileStep DEF CompleteLine, Inv
<1>3. CASE WriteSummary \/ RewriteSummary \/ AddMessage \/ AddPart \/ ChangePart
  <2>1. /\ UNCHANGED <<harness, names, file, job, works>>
        /\ sidecar' \in {NoSummary, names.summary}
    BY <1>3 DEF Inv, WriteSummary, RewriteSummary, AddMessage, AddPart, ChangePart
  <2>2. file' \in Files /\ Grown(file, file')
    BY <2>1 DEF Inv, Files, Grown
  <2> QED
    BY <2>1, <2>2, FileStep
<1> QED
  BY <1>1, <1>2, <1>3 DEF Harness

\* What an import reads is the file as it is.
LEMMA ReadStep ==
    ASSUME Inv, ReadFile \/ ReadSummary \/ ReadMessages \/ ReadParts \/ ReadSnapshot
                  \/ Refuse \/ Fail
    PROVE  Inv'
<1>1. UNCHANGED <<harness, names, file, sidecar, works>>
  BY DEF ReadFile, ReadSummary, ReadMessages, ReadParts, ReadSnapshot, Refuse, Fail, Unread,
         source
<1>2. Files' = Files
  BY <1>1 DEF Files
<1>3. /\ job'.file \in {job.file, file, <<>>}
      /\ job'.sidecar \in {job.sidecar, sidecar, NoSummary}
      /\ job' = [pc |-> job'.pc, file |-> job'.file, sidecar |-> job'.sidecar,
                 messages |-> job'.messages, parts |-> job'.parts]
  <2>1. job = [pc |-> job.pc, file |-> job.file, sidecar |-> job.sidecar,
               messages |-> job.messages, parts |-> job.parts]
    BY DEF Inv, JobOK
  <2>2. CASE ReadFile
    BY <2>1, <2>2 DEF ReadFile
  <2>3. CASE ReadSummary
    BY <2>1, <2>3 DEF ReadSummary
  <2>4. CASE ReadMessages
    BY <2>1, <2>4 DEF ReadMessages
  <2>5. CASE ReadParts
    BY <2>1, <2>5 DEF ReadParts
  <2>6. CASE ReadSnapshot
    BY <2>1, <2>6 DEF ReadSnapshot
  <2>7. CASE Refuse \/ Fail
    BY <2>7 DEF Refuse, Fail, Idle
  <2> QED
    BY <2>2, <2>3, <2>4, <2>5, <2>6, <2>7
<1>4. \A f \in {job.file, file, <<>>} : f \in Files /\ Grown(f, file)
  <2>1. file \in Files /\ job.file \in Files /\ Grown(job.file, file)
    BY DEF Inv, JobOK
  <2>2. <<>> \in Files /\ Grown(<<>>, file) /\ Grown(file, file)
    BY <2>1 DEF Files, Grown
  <2> QED
    BY <2>1, <2>2
<1>5. JobOK'
  BY <1>1, <1>2, <1>3, <1>4 DEF Inv, JobOK, Grown
<1>6. ASSUME NEW w \in DOMAIN works PROVE Homed(w)'
  <2>1. CASE DOMAIN works[w].rows # {}
    BY <1>1, <1>4, <2>1, HomedStays DEF Grown
  <2>2. CASE DOMAIN works[w].rows = {}
    BY <1>1, <2>2 DEF Homed
  <2> QED
    BY <2>1, <2>2
<1> QED
  BY <1>1, <1>2, <1>5, <1>6 DEF Inv

\* An import that stores rows stores them in the Work of the session.
LEMMA StoreStep == ASSUME Inv, Store PROVE Inv'
<1> DEFINE w == ObservedId(job)
<1>1. /\ UNCHANGED <<harness, names, file, sidecar, Files>>
      /\ job' = Idle
      /\ Importable(job)
      /\ works' = [v \in DOMAIN works \cup {w} |->
                     IF v = w THEN Attached(Loaded(w), job) ELSE works[v]]
  BY DEF Store, source, Files
<1>2. JobOK'
  <2>1. <<>> \in Files' /\ Grown(<<>>, file')
    BY <1>1 DEF Inv, Files, Grown
  <2> QED
    BY <1>1, <2>1 DEF JobOK, Idle, Grown
<1>3. file' \in Files /\ Grown(file, file')
  BY <1>1 DEF Inv, Files, Grown
<1>4. ASSUME NEW v \in DOMAIN works', DOMAIN works'[v].rows # {}
      PROVE  Homed(v)'
  <2>1. CASE v \in DOMAIN works /\ DOMAIN works[v].rows # {}
    BY <1>1, <1>3, <2>1, HomedStays
  <2>2. CASE v \notin DOMAIN works \/ DOMAIN works[v].rows = {}
    <3>1. v = w
      BY <1>1, <1>4, <2>2
    <3>2. DOMAIN Loaded(v).rows = {}
      BY <2>2 DEF Loaded, NoWork, Empty
    <3>3. DOMAIN works'[v].rows = DOMAIN Loaded(v).rows \cup DOMAIN Observed(job)
      <4>1. works'[v].rows = AppendAll(Loaded(v).rows, Observed(job))
        BY <1>1, <3>1 DEF Attached
      <4>2. DOMAIN AppendAll(Loaded(v).rows, Observed(job))
              = DOMAIN Loaded(v).rows \cup DOMAIN Observed(job)
        BY AppendAllDomain, Zenon
      <4> QED
        BY <4>1, <4>2
    <3>4. DOMAIN Observed(job) # {}
      BY <1>4, <3>2, <3>3
    <3>5. harness \in Transcript => Records(harness, job.file) # {}
      BY <3>4, ListedIsRecord DEF Observed
    <3>6. harness \in Transcript =>
            /\ Readable(harness, job.file, GrokId(names.directory, job.sidecar))
            /\ v = SourceId(harness, job.file, GrokId(names.directory, job.sidecar))
      BY <1>1, <3>1 DEF Importable, ObservedId, SessionName
    <3>7. harness \notin Transcript => v = OpenCodeSession
      BY <3>1 DEF ObservedId
    <3>8. /\ job.file \in Files /\ Grown(job.file, file')
          /\ job.sidecar \in {NoSummary, names.summary}
      BY <1>1 DEF Inv, JobOK, Grown
    <3> QED
      BY <1>1, <1>3, <3>5, <3>6, <3>7, <3>8, HomedFrom
  <2> QED
    BY <2>1, <2>2
<1>5. ASSUME NEW v \in DOMAIN works' PROVE Homed(v)'
  BY <1>4 DEF Homed
<1> QED
  BY <1>1, <1>2, <1>3, <1>5 DEF Inv

\* The invariant of imports of a session that grows: what an import has read is
\* what the file and the summary were, and what it stores goes where the next
\* import looks, if that finds the same summary.
THEOREM Invariance == Spec => []Inv
<1>1. Init => Inv
  BY InitOK
<1>2. Inv /\ [Next]_vars => Inv'
  <2> SUFFICES ASSUME Inv, [Next]_vars PROVE Inv'
    OBVIOUS
  <2>1. CASE Harness
    BY <2>1, HarnessStep
  <2>2. CASE Store
    BY <2>2, StoreStep
  <2>3. CASE Import /\ ~ Store
    BY <2>3, ReadStep DEF Import
  <2>4. CASE UNCHANGED vars
    <3>1. UNCHANGED <<harness, names, file, sidecar, job, works>>
      BY <2>4 DEF vars
    <3>2. file' \in Files /\ Grown(file, file')
      BY <3>1 DEF Inv, Files, Grown
    <3> QED
      BY <3>1, <3>2, FileStep DEF Inv
  <2> QED
    BY <2>1, <2>2, <2>3, <2>4 DEF Next
<1> QED
  BY <1>1, <1>2, PTL DEF Spec

\* All that was ever stored of a session is in the Work that the next import of
\* it finds: one for Codex, Pi and OpenCode, and for Grok the one of its directory
\* or that of its summary, whichever the import read (codex/reader.ts:74-104,
\* pi/reader.ts:64-67, grok/reader.ts:141-160).
THEOREM SessionHasOneWork == Spec => []OneWork
<1>1. Inv => OneWork
  BY DEF Inv, OneWork, Homed, Read
<1> QED
  BY <1>1, Invariance, PTL
-----------------------------------------------------------------------------
(* The rows of a transcript are the events of a prefix of it. *)

\* The lines that become events.
EventLines(h, f) == IF h = "pi" THEN PiEntries(f) ELSE Records(h, f)

\* Lines whose records make no more calls than their events have ranks for.
Narrow(f) == \A n \in DOMAIN f : \E c \in 0..MaxCalls : DOMAIN f[n].calls = 1..c

\* A file that goes on keeps the lines that become events, and gains none before
\* them.
LEMMA LinesKept ==
    ASSUME NEW h \in Transcript, NEW S, NEW old \in Seq(S), NEW new \in Seq(S),
           Grown(old, new)
    PROVE  /\ EventLines(h, old) \subseteq EventLines(h, new)
           /\ \A n \in EventLines(h, old) : new[n] = old[n]
           /\ \A m \in EventLines(h, old) :
                \A n \in EventLines(h, new) \ EventLines(h, old) : m < n
<1>1. /\ Records(h, old) \subseteq Records(h, new)
      /\ \A n \in Records(h, old) : new[n] = old[n]
      /\ \A n \in Records(h, new) \ Records(h, old) : Len(old) <= n
  BY RecordsKept
<1>2. \A n \in Records(h, old) : n \in 1..Len(old)
  BY DEF Records
<1>3. \A n \in Records(h, new) : n \in 1..Len(new)
  BY DEF Records
<1>4. \A m \in Records(h, old) : \A n \in Records(h, new) \ Records(h, old) : m < n
  <2> SUFFICES ASSUME NEW m \in Records(h, old), NEW n \in Records(h, new) \ Records(h, old)
               PROVE  m < n
    OBVIOUS
  <2>1. m # n /\ m <= Len(old) /\ Len(old) <= n
    BY <1>1, <1>2
  <2> QED
    BY <2>1, <1>2, <1>3
<1>5. CASE h # "pi"
  BY <1>1, <1>4, <1>5 DEF EventLines
<1>6. CASE h = "pi" /\ Records(h, old) = {}
  BY <1>6 DEF EventLines, PiEntries
<1>7. CASE h = "pi" /\ Records(h, old) # {}
  <2>1. Records(h, new) # {} /\ Header(h, new) = Header(h, old)
    BY <1>7, HeaderKept
  <2>2. PiFamilyKnown(new) <=> PiFamilyKnown(old)
    BY <1>7, <2>1 DEF PiFamilyKnown
  <2>3. \A n \in Records(h, old) :
          n \in EventLines(h, old) <=> ~ (PiFamilyKnown(old) /\ old[n].type = "session")
    BY <1>7 DEF EventLines, PiEntries
  <2>4. \A n \in Records(h, new) :
          n \in EventLines(h, new) <=> ~ (PiFamilyKnown(old) /\ new[n].type = "session")
    BY <1>7, <2>2 DEF EventLines, PiEntries
  <2>5. /\ EventLines(h, old) \subseteq Records(h, old)
        /\ EventLines(h, new) \subseteq Records(h, new)
    BY <1>7 DEF EventLines, PiEntries
  <2>6. \A n \in Records(h, old) : n \in EventLines(h, old) <=> n \in EventLines(h, new)
    BY <1>1, <2>3, <2>4
  <2> QED
    BY <1>1, <1>4, <2>5, <2>6
<1> QED
  BY <1>5, <1>6, <1>7

\* Whatever place it has in its line, an event ranks before those of later lines.
LEMMA RanksApart ==
    ASSUME NEW m \in Nat, NEW n \in Nat, m < n, NEW i \in 0..MaxCalls, NEW j \in 0..MaxCalls
    PROVE  m * (MaxCalls + 1) + i < n * (MaxCalls + 1) + j
<1>1. MaxCalls \in Nat
  BY CallsAssumption
<1> DEFINE W == MaxCalls + 1
<1>2. PICK k \in Nat : n = (m + 1) + k
  <2>1. n - (m + 1) \in Nat /\ n = (m + 1) + (n - (m + 1))
    OBVIOUS
  <2> QED
    BY <2>1
<1>3. n * W = (m * W + W) + k * W
  BY <1>1, <1>2
<1>4. k * W \in Nat /\ m * W \in Nat
  BY <1>1
<1> QED
  BY <1>1, <1>3, <1>4

\* The events of a line are finitely many, one at each place, under ids that
\* begin with the number of the line.
LEMMA LineEvents ==
    ASSUME NEW h, NEW n \in Nat, NEW l, NEW c \in 0..MaxCalls, DOMAIN l.calls = 1..c
    PROVE  /\ IsFiniteSet(EventsOfLine(h, l, n))
           /\ \A e \in EventsOfLine(h, l, n) :
                /\ e.id[1] = n
                /\ e.place \in 0..MaxCalls
                /\ e.rank = n * (MaxCalls + 1) + e.place
           /\ \A d, e \in EventsOfLine(h, l, n) : d.place = e.place => d = e
<1> DEFINE Event(i, kind, tag, call) ==
             [rank |-> n * (MaxCalls + 1) + i, line |-> n, place |-> i,
              id |-> EventId(n, l, kind, tag), call |-> call]
           kind == KindOf(h, l)
           own == Event(0, kind, "record",
                        IF kind \in {"tool_call", "tool_result"} THEN l.calls[1] ELSE None)
           ofCall == [i \in 1..c |-> Event(i, "tool_call", CallTag(h, l, i), l.calls[i])]
           all == {own} \cup {ofCall[i] : i \in 1..c}
<1>1. EventsOfLine(h, l, n) \subseteq all
  <2>1. Calls(l) \subseteq 1..c
    BY DEF Calls
  <2> QED
    BY <2>1 DEF EventsOfLine
<1>2. IsFiniteSet(all)
  <2>1. IsFiniteSet(1..c)
    <3>1. 1 \in Int /\ c \in Int
      BY CallsAssumption
    <3> QED
      BY <3>1, FS_Interval
  <2>2. IsFiniteSet({ofCall[i] : i \in 1..c})
    <3>1. DOMAIN ofCall = 1..c
      OBVIOUS
    <3> HIDE DEF ofCall
    <3> QED
      BY <2>1, <3>1, ImageFinite
  <2>3. IsFiniteSet({own})
    BY FS_Singleton
  <2> HIDE DEF own, ofCall
  <2> QED
    BY <2>2, <2>3, FS_Union
<1>3. \A e \in all : e = own \/ \E i \in 1..c : e = ofCall[i]
  OBVIOUS
<1>4. own.place = 0 /\ own.id[1] = n /\ own.rank = n * (MaxCalls + 1) + 0
  BY DEF EventId
<1>5. \A i \in 1..c : /\ ofCall[i].place = i /\ ofCall[i].id[1] = n
                      /\ ofCall[i].rank = n * (MaxCalls + 1) + i
  BY DEF EventId
<1>6. MaxCalls \in Nat /\ c \in 0..MaxCalls
  BY CallsAssumption
<1> HIDE DEF own, ofCall, all
<1>7. IsFiniteSet(EventsOfLine(h, l, n))
  BY <1>1, <1>2, FS_Subset
<1>8. ASSUME NEW e \in all
      PROVE  /\ e.id[1] = n
             /\ e.place \in 0..MaxCalls
             /\ e.rank = n * (MaxCalls + 1) + e.place
  BY <1>3, <1>4, <1>5, <1>6
<1>9. ASSUME NEW d \in all, NEW e \in all, d.place = e.place
      PROVE  d = e
  <2>1. CASE d = own
    BY <2>1, <1>3, <1>4, <1>5, <1>6, <1>9
  <2>2. CASE d # own
    <3>1. PICK i \in 1..c : d = ofCall[i]
      BY <2>2, <1>3
    <3>2. e # own
      BY <3>1, <1>4, <1>5, <1>9
    <3>3. PICK j \in 1..c : e = ofCall[j]
      BY <3>2, <1>3
    <3> QED
      BY <3>1, <3>3, <1>5, <1>9
  <2> QED
    BY <2>1, <2>2
<1> QED
  BY <1>1, <1>7, <1>8, <1>9

\* The events of a file are finitely many, and each has a rank of its own.
LEMMA EventsTidy ==
    ASSUME NEW h \in Transcript, NEW S, NEW f \in Seq(S), Narrow(f)
    PROVE  /\ IsFiniteSet(Events(h, f))
           /\ \A e \in Events(h, f) : e.rank \in Nat
           /\ \A d, e \in Events(h, f) : d.rank = e.rank => d = e
<1> DEFINE L == EventLines(h, f)
<1>1. L \subseteq 1..Len(f) /\ Events(h, f) = UNION {EventsOfLine(h, f[n], n) : n \in L}
  BY DEF EventLines, Events, PiEntries, Records
<1> HIDE DEF L
<1>2. ASSUME NEW n \in L
      PROVE  /\ IsFiniteSet(EventsOfLine(h, f[n], n))
             /\ \A e \in EventsOfLine(h, f[n], n) :
                  /\ e.place \in 0..MaxCalls
                  /\ e.rank = n * (MaxCalls + 1) + e.place
             /\ \A d, e \in EventsOfLine(h, f[n], n) : d.place = e.place => d = e
  <2>1. n \in Nat /\ n \in DOMAIN f
    BY <1>1
  <2>2. PICK c \in 0..MaxCalls : DOMAIN f[n].calls = 1..c
    BY <2>1 DEF Narrow
  <2> QED
    BY <2>1, <2>2, LineEvents
<1>3. IsFiniteSet(Events(h, f))
  <2>1. IsFiniteSet(L)
    <3>1. IsFiniteSet(1..Len(f))
      BY FS_Interval
    <3> QED
      BY <1>1, <3>1, FS_Subset
  <2> DEFINE g == [n \in L |-> EventsOfLine(h, f[n], n)]
             G == {g[n] : n \in L}
  <2>2. \A n \in L : g[n] = EventsOfLine(h, f[n], n) /\ IsFiniteSet(g[n])
    BY <1>2
  <2>3. UNION {EventsOfLine(h, f[n], n) : n \in L} = UNION G
    BY <2>2
  <2>4. DOMAIN g = L
    OBVIOUS
  <2> HIDE DEF g
  <2>5. IsFiniteSet(G)
    BY <2>1, <2>4, ImageFinite
  <2>6. IsFiniteSet(UNION G)
    <3>1. \A T \in G : IsFiniteSet(T)
      BY <2>2
    <3> HIDE DEF G
    <3> QED
      BY <2>5, <3>1, FS_UNION
  <2> QED
    BY <1>1, <2>3, <2>6
<1>4. MaxCalls \in Nat
  BY CallsAssumption
<1>5. ASSUME NEW e \in Events(h, f) PROVE e.rank \in Nat
  <2>1. PICK n \in L : e \in EventsOfLine(h, f[n], n)
    BY <1>1
  <2>2. n * (MaxCalls + 1) \in Nat
    BY <1>1, <1>4
  <2>3. e.place \in 0..MaxCalls /\ e.rank = n * (MaxCalls + 1) + e.place
    BY <2>1, <1>2
  <2> QED
    BY <2>2, <2>3, <1>4
<1>6. ASSUME NEW d \in Events(h, f), NEW e \in Events(h, f), d.rank = e.rank
      PROVE  d = e
  <2>1. PICK m \in L : d \in EventsOfLine(h, f[m], m)
    BY <1>1
  <2>2. PICK n \in L : e \in EventsOfLine(h, f[n], n)
    BY <1>1
  <2>3. m \in Nat /\ n \in Nat
    BY <1>1
  <2>4. /\ d.rank = m * (MaxCalls + 1) + d.place /\ d.place \in 0..MaxCalls
        /\ e.rank = n * (MaxCalls + 1) + e.place /\ e.place \in 0..MaxCalls
    BY <2>1, <2>2, <1>2
  <2>5. d.rank \in Nat /\ ~ (d.rank < e.rank) /\ ~ (e.rank < d.rank)
    BY <1>5, <1>6
  <2>6. ~ (m < n)
    <3>1. m < n => d.rank < e.rank
      BY <2>3, <2>4, RanksApart
    <3> QED
      BY <2>5, <3>1
  <2>7. ~ (n < m)
    <3>1. n < m => e.rank < d.rank
      BY <2>3, <2>4, RanksApart
    <3> QED
      BY <2>5, <3>1
  <2>8. m = n
    BY <2>3, <2>6, <2>7
  <2>9. d.place = e.place
    <3>1. m * (MaxCalls + 1) \in Nat
      BY <2>3, <1>4
    <3> QED
      BY <3>1, <2>4, <2>8, <1>6
  <2> QED
    BY <2>1, <2>2, <2>8, <2>9, <1>2
<1> QED
  BY <1>3, <1>5, <1>6

\* A file that goes on keeps its events, and gains events that rank after them
\* under ids that they do not have.
LEMMA EventsKept ==
    ASSUME NEW h \in Transcript, NEW S, NEW old \in Seq(S), NEW new \in Seq(S),
           Grown(old, new), Narrow(new)
    PROVE  /\ Events(h, old) \subseteq Events(h, new)
           /\ \A d \in Events(h, old) : \A e \in Events(h, new) \ Events(h, old) :
                d.rank < e.rank /\ d.id # e.id
<1> DEFINE L(f) == EventLines(h, f)
<1>1. \A f \in {old, new} : /\ L(f) \subseteq 1..Len(f)
                            /\ Events(h, f) = UNION {EventsOfLine(h, f[n], n) : n \in L(f)}
  BY DEF EventLines, Events, PiEntries, Records
<1>2. /\ L(old) \subseteq L(new)
      /\ \A n \in L(old) : new[n] = old[n]
      /\ \A m \in L(old) : \A n \in L(new) \ L(old) : m < n
  BY LinesKept, Zenon
<1> HIDE DEF L
<1>3. Events(h, old) \subseteq Events(h, new)
  BY <1>1, <1>2
<1>4. ASSUME NEW n \in L(new)
      PROVE  \A e \in EventsOfLine(h, new[n], n) :
               /\ e.id[1] = n
               /\ e.place \in 0..MaxCalls
               /\ e.rank = n * (MaxCalls + 1) + e.place
  <2>1. n \in Nat /\ n \in DOMAIN new
    BY <1>1
  <2>2. PICK c \in 0..MaxCalls : DOMAIN new[n].calls = 1..c
    BY <2>1 DEF Narrow
  <2> QED
    BY <2>1, <2>2, LineEvents
<1>5. ASSUME NEW d \in Events(h, old), NEW e \in Events(h, new) \ Events(h, old)
      PROVE  d.rank < e.rank /\ d.id # e.id
  <2>1. PICK m \in L(old) : d \in EventsOfLine(h, old[m], m)
    BY <1>1
  <2>2. PICK n \in L(new) : e \in EventsOfLine(h, new[n], n)
    BY <1>1
  <2>3. n \notin L(old)
    BY <2>2, <1>1, <1>2, <1>5
  <2>4. m \in Nat /\ n \in Nat /\ m < n /\ m \in L(new) /\ new[m] = old[m]
    BY <2>3, <1>1, <1>2
  <2>5. /\ d.id[1] = m /\ d.place \in 0..MaxCalls /\ d.rank = m * (MaxCalls + 1) + d.place
        /\ e.id[1] = n /\ e.place \in 0..MaxCalls /\ e.rank = n * (MaxCalls + 1) + e.place
    BY <2>1, <2>2, <2>4, <1>4
  <2>6. d.rank < e.rank
    BY <2>4, <2>5, RanksApart
  <2> QED
    BY <2>4, <2>5, <2>6
<1> QED
  BY <1>3, <1>5

\* What the events of a file are listed as: each id once, by the rank of the
\* first event that has it.
LEMMA ListingTidy ==
    ASSUME NEW h \in Transcript, NEW S, NEW f \in Seq(S), Narrow(f)
    PROVE  LET L == TranscriptListing(h, f)
               F == Foremost(Events(h, f))
           IN  /\ IsFiniteSet(DOMAIN L) /\ IsListing(L, DOMAIN L) /\ Distinct(L)
               /\ \A e \in F : e.id \in DOMAIN L /\ L[e.id] = e.rank
               /\ \A x \in DOMAIN L : \E e \in F : e.id = x
               /\ \A d, e \in F : d.id = e.id => d = e
<1> DEFINE L == TranscriptListing(h, f)
           F == Foremost(Events(h, f))
           foremost == [x \in {e.id : e \in F} |-> CHOOSE e \in F : e.id = x]
<1>1. /\ IsFiniteSet(Events(h, f))
      /\ \A e \in Events(h, f) : e.rank \in Nat
      /\ \A d, e \in Events(h, f) : d.rank = e.rank => d = e
  BY EventsTidy
<1>2. F \subseteq Events(h, f)
  BY DEF Foremost
<1>3. \A d, e \in F : d.id = e.id => d.rank <= e.rank
  BY DEF Foremost
<1>4. \A d, e \in F : d.id = e.id => d = e
  BY <1>1, <1>2, <1>3
<1>5. /\ DOMAIN L = {e.id : e \in F}
      /\ \A x \in DOMAIN L : L[x] = foremost[x].rank
      /\ L = [x \in DOMAIN L |-> L[x]]
  BY DEF TranscriptListing
<1>6. \A x \in {e.id : e \in F} : foremost[x] \in F /\ foremost[x].id = x
  OBVIOUS
<1> HIDE DEF foremost, F, L
<1>7. \A e \in F : e.id \in DOMAIN L /\ L[e.id] = e.rank
  BY <1>4, <1>5, <1>6
<1>8. \A x \in DOMAIN L : \E e \in F : e.id = x
  BY <1>5
<1>9. IsFiniteSet(DOMAIN L)
  <2> DEFINE idOf == [e \in F |-> e.id]
  <2>1. IsFiniteSet(F) /\ DOMAIN idOf = F
    BY <1>1, <1>2, FS_Subset
  <2>2. DOMAIN L = {idOf[e] : e \in F}
    BY <1>5
  <2> HIDE DEF idOf
  <2> QED
    BY <2>1, <2>2, ImageFinite
<1>10. IsListing(L, DOMAIN L)
  <2>1. \A x \in DOMAIN L : L[x] \in Nat
    BY <1>1, <1>2, <1>5, <1>6
  <2> QED
    BY <2>1, <1>5 DEF IsListing
<1>11. Distinct(L)
  <2> SUFFICES ASSUME NEW x \in DOMAIN L, NEW y \in DOMAIN L, L[x] = L[y] PROVE x = y
    BY DEF Distinct
  <2>1. foremost[x] \in F /\ foremost[x].id = x /\ L[x] = foremost[x].rank
    BY <1>5, <1>6
  <2>2. foremost[y] \in F /\ foremost[y].id = y /\ L[y] = foremost[y].rank
    BY <1>5, <1>6
  <2> QED
    BY <2>1, <2>2, <1>1, <1>2
<1> QED
  BY <1>4, <1>7, <1>8, <1>9, <1>10, <1>11 DEF L, F

\* A file that goes on lists what it did, and what comes anew after it.
LEMMA ListingKept ==
    ASSUME NEW h \in Transcript, NEW S, NEW old \in Seq(S), NEW new \in Seq(S),
           Grown(old, new), Narrow(old), Narrow(new)
    PROVE  LET s == TranscriptListing(h, old)
               L == TranscriptListing(h, new)
           IN  /\ DOMAIN s \subseteq DOMAIN L
               /\ \A x \in DOMAIN s : s[x] = L[x]
               /\ \A x \in DOMAIN s : \A y \in DOMAIN L \ DOMAIN s : L[x] < L[y]
               /\ \A e \in Foremost(Events(h, new)) :
                    e.id \in DOMAIN s => e \in Foremost(Events(h, old))
<1> DEFINE s == TranscriptListing(h, old)
           L == TranscriptListing(h, new)
           E == Events(h, old)
           N == Events(h, new)
<1>1. /\ E \subseteq N
      /\ \A d \in E : \A e \in N \ E : d.rank < e.rank /\ d.id # e.id
  BY EventsKept, Zenon
<1>2. /\ \A e \in Foremost(E) : e.id \in DOMAIN s /\ s[e.id] = e.rank
      /\ \A x \in DOMAIN s : \E e \in Foremost(E) : e.id = x
  BY ListingTidy
<1>3. /\ \A e \in Foremost(N) : e.id \in DOMAIN L /\ L[e.id] = e.rank
      /\ \A x \in DOMAIN L : \E e \in Foremost(N) : e.id = x
  BY ListingTidy
<1> HIDE DEF s, L, E, N
<1>4. Foremost(E) = Foremost(N) \cap E
  BY <1>1 DEF Foremost
<1>5. \A e \in Foremost(N) : e.id \in DOMAIN s => e \in Foremost(E)
  <2> SUFFICES ASSUME NEW e \in Foremost(N), e.id \in DOMAIN s PROVE e \in Foremost(E)
    OBVIOUS
  <2>1. PICK d \in Foremost(E) : d.id = e.id
    BY <1>2
  <2>2. d \in E /\ e \in N
    BY <1>4 DEF Foremost
  <2> QED
    BY <2>1, <2>2, <1>1, <1>4
<1>6. \A x \in DOMAIN s : x \in DOMAIN L /\ s[x] = L[x]
  BY <1>2, <1>3, <1>4
<1>7. ASSUME NEW x \in DOMAIN s, NEW y \in DOMAIN L \ DOMAIN s PROVE L[x] < L[y]
  <2>1. PICK d \in Foremost(E) : d.id = x
    BY <1>2
  <2>2. PICK e \in Foremost(N) : e.id = y
    BY <1>3
  <2>3. d \in E /\ d \in Foremost(N) /\ e \in N /\ e \notin E
    <3>1. d \in E /\ d \in Foremost(N)
      BY <1>4
    <3>2. e \in N
      BY DEF Foremost
    <3>3. e \notin Foremost(E)
      BY <2>2, <1>2
    <3> QED
      BY <3>1, <3>2, <3>3, <1>4
  <2> QED
    BY <2>1, <2>2, <2>3, <1>1, <1>3
<1> QED
  BY <1>5, <1>6, <1>7 DEF s, L, E, N

\* A file without records has no events.
LEMMA NoEvents ==
    ASSUME NEW h
    PROVE  Events(h, <<>>) = {} /\ TranscriptListing(h, <<>>) = Empty
<1>1. Events(h, <<>>) = {}
  BY DEF Events, PiEntries, Records
<1> QED
  BY <1>1 DEF TranscriptListing, Foremost, Empty

\* Of two things that a file once was one has become the other.
LEMMA Comparable ==
    ASSUME NEW S, NEW a \in Seq(S), NEW b \in Seq(S), NEW f \in Seq(S),
           Grown(a, f), Grown(b, f)
    PROVE  Grown(a, b) \/ Grown(b, a)
<1>1. Len(a) \in Nat /\ Len(b) \in Nat /\ Len(f) \in Nat
  OBVIOUS
<1>2. CASE Len(a) < Len(b)
  BY <1>1, <1>2 DEF Grown
<1>3. CASE Len(b) < Len(a)
  BY <1>1, <1>3 DEF Grown
<1>4. CASE Len(a) = Len(b)
  <2>1. \A i \in 1..Len(a) : i # Len(a) => a[i] = b[i]
    BY <1>1, <1>4 DEF Grown
  <2>2. CASE Len(a) = 0 \/ a[Len(a)] = Torn
    BY <1>1, <1>4, <2>1, <2>2 DEF Grown
  <2>3. CASE Len(a) # 0 /\ a[Len(a)] # Torn
    <3>1. a[Len(a)] = f[Len(a)] /\ (b[Len(a)] = f[Len(a)] \/ b[Len(a)] = Torn)
      BY <1>1, <1>4, <2>3 DEF Grown
    <3> QED
      BY <1>1, <1>4, <2>1, <3>1 DEF Grown
  <2> QED
    BY <1>1, <2>2, <2>3
<1> QED
  BY <1>1, <1>2, <1>3, <1>4

\* What a file was before its torn last line was completed is a prefix of it and
\* perhaps a torn line, which is no event.
LEMMA GrownFromPrefix ==
    ASSUME NEW h \in Transcript, NEW S, NEW old \in Seq(S), NEW new \in Seq(S),
           Grown(old, new)
    PROVE  \E k \in 0..Len(new) : Events(h, SubSeq(new, 1, k)) = Events(h, old)
<1>1. Len(old) \in Nat /\ Len(new) \in Nat /\ Len(old) <= Len(new)
  BY DEF Grown
<1>2. CASE \A i \in 1..Len(old) : new[i] = old[i]
  <2>1. SubSeq(new, 1, Len(old)) = old /\ Len(old) \in 0..Len(new)
    BY <1>1, <1>2
  <2>2. Events(h, SubSeq(new, 1, Len(old))) = Events(h, old)
    BY <2>1, Zenon
  <2> QED
    BY <2>1, <2>2
<1>3. CASE ~ \A i \in 1..Len(old) : new[i] = old[i]
  <2> DEFINE n == Len(old)
             prefix == SubSeq(new, 1, n - 1)
  <2>1. n > 0 /\ old[n] = Torn /\ \A i \in 1..(n - 1) : new[i] = old[i]
    BY <1>1, <1>3 DEF Grown
  <2>2. /\ DOMAIN prefix = 1..(n - 1) /\ DOMAIN old = 1..n
        /\ \A i \in 1..(n - 1) : prefix[i] = old[i]
        /\ n - 1 \in 0..Len(new)
    BY <1>1, <2>1
  <2>3. n \notin Records(h, old)
    BY <2>1, TornIsRejected DEF Records, Torn
  <2> HIDE DEF prefix
  <2>4. Records(h, prefix) = Records(h, old)
    BY <2>1, <2>2, <2>3 DEF Records
  <2>5. \A i \in Records(h, old) : prefix[i] = old[i]
    BY <2>2, <2>4 DEF Records
  <2>6. Records(h, old) # {} => Header(h, prefix) = Header(h, old)
    <3> SUFFICES ASSUME Records(h, old) # {} PROVE Header(h, prefix) = Header(h, old)
      OBVIOUS
    <3>1. Records(h, old) \in SUBSET Nat
      BY DEF Records
    <3>2. First(Records(h, old)) \in Records(h, old)
      BY <3>1, FirstIsLeast
    <3> QED
      BY <2>4, <2>5, <3>2 DEF Header
  <2>7. EventLines(h, prefix) = EventLines(h, old) /\ EventLines(h, old) \subseteq Records(h, old)
    <3>1. CASE h # "pi"
      BY <2>4, <3>1 DEF EventLines
    <3>2. CASE h = "pi"
      <4>1. PiFamilyKnown(prefix) <=> PiFamilyKnown(old)
        BY <2>4, <2>6, <3>2 DEF PiFamilyKnown
      <4> QED
        BY <2>4, <2>5, <3>2, <4>1 DEF EventLines, PiEntries
    <3> QED
      BY <3>1, <3>2
  <2>8. \A f : Events(h, f) = UNION {EventsOfLine(h, f[i], i) : i \in EventLines(h, f)}
    BY DEF Events, EventLines
  <2>9. Events(h, prefix) = Events(h, old)
    BY <2>5, <2>7, <2>8
  <2> QED
    BY <2>2, <2>9 DEF prefix
<1> QED
  BY <1>2, <1>3
-----------------------------------------------------------------------------
\* A Work that was made of a transcript holds the events of what the file was.
HeldFrom(g, w) ==
    /\ works[w].rows = Renumber(TranscriptListing(harness, g), {}, 0)
    /\ DOMAIN works[w].data = DOMAIN TranscriptListing(harness, g)
    /\ \A e \in Foremost(Events(harness, g)) : works[w].data[e.id].call = e.call

MadeOf(w) == \E g \in Files : Grown(g, file) /\ HeldFrom(g, w)

PrefixInv == harness \in Transcript => \A w \in DOMAIN works : MadeOf(w)

\* No file has a line that makes more calls than there are ranks for.
LEMMA FilesAreNarrow ==
    ASSUME Inv, harness \in Transcript, NEW f \in Files
    PROVE  Narrow(f)
<1>1. \A l \in Lines[harness] : \E c \in 0..MaxCalls : DOMAIN l.calls = 1..c
  BY IngestionAssumption DEF Inv
<1>2. \E c \in 0..MaxCalls : DOMAIN Torn.calls = 1..c
  <2>1. DOMAIN Torn.calls = 1..0 /\ 0 \in 0..MaxCalls
    BY CallsAssumption DEF Torn
  <2> QED
    BY <2>1
<1>3. \A n \in DOMAIN f : f[n] \in Lines[harness] \cup {Torn}
  BY DEF Files
<1> HIDE DEF Torn
<1> QED
  BY <1>1, <1>2, <1>3 DEF Narrow

\* A Work goes on holding the events of what the file was when the file goes on.
LEMMA PrefixFileStep ==
    ASSUME Inv, PrefixInv, file' \in Files, Grown(file, file'), UNCHANGED <<harness, works>>
    PROVE  PrefixInv'
<1> SUFFICES ASSUME harness \in Transcript, NEW w \in DOMAIN works PROVE MadeOf(w)'
  BY DEF PrefixInv
<1>1. Files' = Files
  BY DEF Files
<1>2. PICK g \in Files : Grown(g, file) /\ HeldFrom(g, w)
  BY DEF PrefixInv, MadeOf
<1>3. Grown(g, file')
  BY <1>2, GrownTransitive DEF Inv, Files
<1>4. HeldFrom(g, w)'
  BY <1>2 DEF HeldFrom
<1> QED
  BY <1>1, <1>3, <1>4 DEF MadeOf, Grown

\* The events of two things that a file was, merged, are those of the later one.
LEMMA MergedFrom ==
    ASSUME Inv, harness \in Transcript,
           NEW g \in Files, NEW f \in Files, Grown(g, f) \/ Grown(f, g),
           NEW work,
           work.rows = Renumber(TranscriptListing(harness, g), {}, 0),
           DOMAIN work.data = DOMAIN TranscriptListing(harness, g),
           \A e \in Foremost(Events(harness, g)) : work.data[e.id].call = e.call
    PROVE  \E m \in {g, f} :
             LET rows == AppendAll(work.rows, TranscriptListing(harness, f))
                 data == InsertOrIgnore(work.data, TranscriptRows(harness, f))
             IN  /\ rows = Renumber(TranscriptListing(harness, m), {}, 0)
                 /\ DOMAIN data = DOMAIN TranscriptListing(harness, m)
                 /\ \A e \in Foremost(Events(harness, m)) : data[e.id].call = e.call
<1> DEFINE s == TranscriptListing(harness, g)
           L == TranscriptListing(harness, f)
           more == TranscriptRows(harness, f)
           rows == AppendAll(work.rows, L)
           data == InsertOrIgnore(work.data, more)
<1>1. Narrow(g) /\ Narrow(f) /\ g \in Seq(Lines[harness] \cup {Torn})
      /\ f \in Seq(Lines[harness] \cup {Torn})
  BY FilesAreNarrow DEF Files
<1>2. /\ IsFiniteSet(DOMAIN L) /\ IsListing(L, DOMAIN L) /\ Distinct(L)
      /\ \A e \in Foremost(Events(harness, f)) : e.id \in DOMAIN L
      /\ \A x \in DOMAIN L : \E e \in Foremost(Events(harness, f)) : e.id = x
      /\ \A d, e \in Foremost(Events(harness, f)) : d.id = e.id => d = e
  BY <1>1, ListingTidy
<1>3. IsListing(s, DOMAIN s) /\ \A e \in Foremost(Events(harness, g)) : e.id \in DOMAIN s
  BY <1>1, ListingTidy
<1>4. DOMAIN more = DOMAIN L
      /\ \A e \in Foremost(Events(harness, f)) : more[e.id].call = e.call
  <2> DEFINE F == Foremost(Events(harness, f))
             the(x) == CHOOSE d \in F : d.id = x
  <2>1. DOMAIN more = {e.id : e \in F} /\ DOMAIN L = {e.id : e \in F}
    BY DEF TranscriptRows, TranscriptListing
  <2>2. \A x \in {e.id : e \in F} : more[x].call = the(x).call
    BY DEF TranscriptRows
  <2>3. \A e \in F : the(e.id) = e
    <3> HIDE DEF F
    <3>1. \A d, e \in F : d.id = e.id => d = e
      BY <1>2 DEF F
    <3> QED
      BY <3>1
  <2> HIDE DEF F, the, more
  <2> QED
    BY <2>1, <2>2, <2>3 DEF F
<1>5. /\ DOMAIN data = DOMAIN work.data \cup DOMAIN more
      /\ \A x \in DOMAIN work.data : data[x] = work.data[x]
      /\ \A x \in DOMAIN more \ DOMAIN work.data : data[x] = more[x]
  BY DEF InsertOrIgnore
<1>6. CASE Grown(g, f)
  <2>1. /\ DOMAIN s \subseteq DOMAIN L
        /\ \A x \in DOMAIN s : s[x] = L[x]
        /\ \A x \in DOMAIN s : \A y \in DOMAIN L \ DOMAIN s : L[x] < L[y]
        /\ \A e \in Foremost(Events(harness, f)) :
             e.id \in DOMAIN s => e \in Foremost(Events(harness, g))
    BY <1>1, <1>6, ListingKept
  <2> HIDE DEF s, L, more, data
  <2>2. rows = Renumber(L, {}, 0)
    <3>1. IsListing(s, DOMAIN L)
      BY <1>3, <2>1 DEF IsListing
    <3>2. work.rows = Renumber(s, {}, 0)
      BY DEF s
    <3> QED
      BY <1>2, <2>1, <3>1, <3>2, AppendToBeginning
  <2>3. DOMAIN work.data = DOMAIN s
    BY DEF s
  <2>4. \A e \in Foremost(Events(harness, f)) : data[e.id].call = e.call
    BY <1>2, <1>4, <1>5, <2>1, <2>3
  <2> QED
    BY <1>4, <1>5, <2>1, <2>2, <2>3, <2>4 DEF L, data, more
<1>7. CASE Grown(f, g)
  <2>1. DOMAIN L \subseteq DOMAIN s
    BY <1>1, <1>7, ListingKept
  <2> HIDE DEF s, L, more, data
  <2>2. rows = Renumber(s, {}, 0)
    <3>1. work.rows = Renumber(s, {}, 0)
      BY DEF s
    <3> QED
      BY <2>1, <3>1, AppendKnown
  <2>3. DOMAIN work.data = DOMAIN s
    BY DEF s
  <2>4. \A e \in Foremost(Events(harness, g)) : data[e.id].call = e.call
    BY <1>3, <1>5, <2>3
  <2> QED
    BY <1>4, <1>5, <2>1, <2>2, <2>3, <2>4 DEF L, data, more, s
<1> QED
  BY <1>6, <1>7

\* What an import of a transcript stores is made of what it has read, or of what
\* an earlier import of more lines had read.
LEMMA PrefixStoreStep == ASSUME Inv, PrefixInv, Store PROVE PrefixInv'
<1> SUFFICES ASSUME harness \in Transcript, NEW v \in DOMAIN works' PROVE MadeOf(v)'
  BY DEF PrefixInv, Store
<1> DEFINE w == ObservedId(job)
           work == Loaded(w)
<1>1. /\ UNCHANGED <<harness, file, Files>>
      /\ works' = [u \in DOMAIN works \cup {w} |->
                     IF u = w THEN Attached(work, job) ELSE works[u]]
  BY DEF Store, source, Files
<1>2. file \in Files /\ job.file \in Files /\ Grown(job.file, file)
  BY DEF Inv, JobOK
<1>3. CASE v # w
  <2>1. v \in DOMAIN works /\ works'[v] = works[v]
    BY <1>1, <1>3
  <2>2. PICK g \in Files : Grown(g, file) /\ HeldFrom(g, v)
    BY <2>1 DEF PrefixInv, MadeOf
  <2>3. HeldFrom(g, v)'
    BY <1>1, <2>1, <2>2 DEF HeldFrom
  <2> QED
    BY <1>1, <2>2, <2>3 DEF MadeOf, Grown
<1>4. CASE v = w
  <2>1. /\ works'[w].rows = AppendAll(work.rows, TranscriptListing(harness, job.file))
        /\ works'[w].data = InsertOrIgnore(work.data, TranscriptRows(harness, job.file))
    BY <1>1 DEF Attached, Observed, ObservedRows
  <2>2. PICK g \in Files : /\ Grown(g, file)
                          /\ work.rows = Renumber(TranscriptListing(harness, g), {}, 0)
                          /\ DOMAIN work.data = DOMAIN TranscriptListing(harness, g)
                          /\ \A e \in Foremost(Events(harness, g)) :
                               work.data[e.id].call = e.call
    <3>1. CASE w \in DOMAIN works
      <4>1. PICK g \in Files : Grown(g, file) /\ HeldFrom(g, w)
        BY <3>1 DEF PrefixInv, MadeOf
      <4>2. work = works[w]
        BY <3>1 DEF Loaded
      <4> HIDE DEF work, w
      <4> QED
        BY <4>1, <4>2 DEF HeldFrom
    <3>2. CASE w \notin DOMAIN works
      <4>1. work.rows = Empty /\ work.data = Empty
        BY <3>2 DEF Loaded, NoWork
      <4>2. Events(harness, <<>>) = {} /\ TranscriptListing(harness, <<>>) = Empty
        BY NoEvents
      <4>3. Renumber(Empty, {}, 0) = Empty
        BY DEF Renumber, Empty
      <4>4. <<>> \in Files /\ Grown(<<>>, file)
        BY <1>2 DEF Files, Grown
      <4>5. Foremost(Events(harness, <<>>)) = {}
        BY <4>2 DEF Foremost
      <4> HIDE DEF work, w
      <4> QED
        BY <4>1, <4>2, <4>3, <4>4, <4>5
    <3> QED
      BY <3>1, <3>2
  <2>3. Grown(g, job.file) \/ Grown(job.file, g)
    BY <1>2, <2>2, Comparable DEF Files
  <2> HIDE DEF work, w
  <2>4. PICK m \in {g, job.file} :
          /\ works'[w].rows = Renumber(TranscriptListing(harness, m), {}, 0)
          /\ DOMAIN works'[w].data = DOMAIN TranscriptListing(harness, m)
          /\ \A e \in Foremost(Events(harness, m)) : works'[w].data[e.id].call = e.call
    BY <1>2, <2>1, <2>2, <2>3, MergedFrom
  <2>5. m \in Files' /\ Grown(m, file)'
    BY <1>1, <1>2, <2>2, <2>4 DEF Grown
  <2>6. HeldFrom(m, v)'
    BY <1>1, <1>4, <2>4 DEF HeldFrom
  <2> QED
    BY <2>5, <2>6 DEF MadeOf
<1> QED
  BY <1>3, <1>4

\* Only an import that stores changes a Work, and only the harness its file.
LEMMA PrefixStep == ASSUME Inv, PrefixInv, [Next]_vars PROVE PrefixInv'
<1>1. CASE Store
  BY <1>1, PrefixStoreStep
<1>2. CASE AppendLine
  <2>1. PICK l \in Lines[harness] \cup {Torn} : file' = Append(file, l)
    BY <1>2 DEF AppendLine
  <2>2. file' \in Files /\ Grown(file, file')
    BY <2>1 DEF Inv, Files, Grown
  <2> QED
    BY <1>2, <2>2, PrefixFileStep DEF AppendLine
<1>3. CASE CompleteLine
  <2>1. PICK l \in Lines[harness] :
          l.form = "record" /\ file' = [file EXCEPT ![Len(file)] = l]
    BY <1>3 DEF CompleteLine
  <2>2. file # <<>> /\ file[Len(file)] = Torn
    BY <1>3 DEF CompleteLine, Unbroken
  <2>3. file' \in Files /\ Grown(file, file')
    BY <2>1, <2>2 DEF Inv, Files, Grown
  <2> QED
    BY <1>3, <2>3, PrefixFileStep DEF CompleteLine
<1>4. ASSUME UNCHANGED <<harness, file, works>> PROVE PrefixInv'
  <2>1. file' \in Files /\ Grown(file, file')
    BY <1>4 DEF Inv, Files, Grown
  <2> QED
    BY <1>4, <2>1, PrefixFileStep
<1>5. CASE UNCHANGED vars
  BY <1>4, <1>5 DEF vars
<1>6. CASE WriteSummary \/ RewriteSummary \/ AddMessage \/ AddPart \/ ChangePart
  BY <1>4, <1>6 DEF WriteSummary, RewriteSummary, AddMessage, AddPart, ChangePart
<1>7. CASE ReadFile \/ ReadSummary \/ ReadMessages \/ ReadParts \/ ReadSnapshot \/ Refuse \/ Fail
  BY <1>4, <1>7 DEF ReadFile, ReadSummary, ReadMessages, ReadParts, ReadSnapshot, Refuse, Fail,
                    Unread, source
<1> QED
  BY <1>1, <1>2, <1>3, <1>5, <1>6, <1>7 DEF Next, Harness, Import

\* The rows of a Work that was made of a transcript are the events of a prefix of
\* the file as it is now, in its order, each with the call it has there, whatever
\* was torn, completed or refused (codex/reader.ts:16-72, grok/reader.ts:50-87,
\* pi/reader.ts:26-62).
THEOREM RowsArePrefixes == Spec => []HoldsPrefix
<1>1. Init => PrefixInv
  BY DEF Init, PrefixInv
<1>2. Inv /\ PrefixInv /\ [Next]_vars => PrefixInv'
  BY PrefixStep
<1>3. ASSUME Inv, PrefixInv PROVE HoldsPrefix
  <2> SUFFICES ASSUME harness \in Transcript, NEW w \in DOMAIN works
               PROVE  \E k \in 0..Len(file) :
                        LET prefix == SubSeq(file, 1, k)
                        IN  /\ works[w].rows
                                  = Renumber(TranscriptListing(harness, prefix), {}, 0)
                            /\ \A e \in Foremost(Events(harness, prefix)) :
                                 works[w].data[e.id].call = e.call
    BY DEF HoldsPrefix
  <2>1. PICK g \in Files : Grown(g, file) /\ HeldFrom(g, w)
    BY <1>3 DEF PrefixInv, MadeOf
  <2>2. PICK k \in 0..Len(file) : Events(harness, SubSeq(file, 1, k)) = Events(harness, g)
    BY <1>3, <2>1, GrownFromPrefix DEF Inv, Files
  <2>3. TranscriptListing(harness, SubSeq(file, 1, k)) = TranscriptListing(harness, g)
    <3> DEFINE Listed(events) ==
                 [id \in {e.id : e \in events} |-> (CHOOSE e \in events : e.id = id).rank]
    <3>1. \A f : TranscriptListing(harness, f) = Listed(Foremost(Events(harness, f)))
      BY DEF TranscriptListing
    <3> HIDE DEF Listed
    <3> QED
      BY <2>2, <3>1
  <2> QED
    BY <2>1, <2>2, <2>3 DEF HeldFrom
<1> QED
  BY <1>1, <1>2, <1>3, Invariance, PTL DEF Spec
-----------------------------------------------------------------------------
(* What an import of an OpenCode session leaves in its Work. *)

Over == {"completed", "error", "removed"}

\* The parts that there can be.
Statuses == [text  |-> {"blank", "written", "removed"},
             tool  |-> {"pending", "running"} \cup Over,
             other |-> {"plain", "removed"}]

Parts == UNION {[message : 1..MaxMessages, type : {t}, status : Statuses[t]] :
                  t \in {"text", "tool", "other"}}

PartEventIds == (1..MaxParts) \X {"message", "tool_call", "tool_result", "unknown"}

SourceOK ==
    /\ DOMAIN messages \subseteq 1..MaxMessages
    /\ messages \in [DOMAIN messages -> BOOLEAN]
    /\ DOMAIN parts \subseteq 1..MaxParts
    /\ parts \in [DOMAIN parts -> Parts]
    /\ \A p \in DOMAIN parts : parts[p].message \in DOMAIN messages

\* What was read are parts, and a call that had ended then has ended.
PartsRead(read) ==
    /\ DOMAIN read \subseteq DOMAIN parts
    /\ read \in [DOMAIN read -> Parts]
    /\ \A p \in DOMAIN read : Finished(read[p]) => parts[p].status \in Over

\* A result that is stored is one of a call that has ended, and follows it.
ResultsHeld(rows) ==
    /\ IsListing(rows, PartEventIds)
    /\ \A p : PartEventId(p, "tool_result") \in DOMAIN rows =>
         /\ p \in DOMAIN parts /\ parts[p].status \in Over
         /\ PartEventId(p, "tool_call") \in DOMAIN rows
         /\ rows[PartEventId(p, "tool_call")] < rows[PartEventId(p, "tool_result")]

SnapInv ==
    harness = "opencode" =>
      /\ SourceOK
      /\ PartsRead(job.parts)
      /\ \A w \in DOMAIN works : ResultsHeld(works[w].rows)

\* The fields of a part.
LEMMA PartFields ==
    ASSUME NEW part \in Parts
    PROVE  /\ part = [message |-> part.message, type |-> part.type, status |-> part.status]
           /\ part.message \in 1..MaxMessages /\ part.message \in Nat
           /\ \/ part.type = "text" /\ part.status \in {"blank", "written", "removed"}
              \/ part.type = "tool" /\ part.status \in {"pending", "running"} \cup Over
              \/ part.type = "other" /\ part.status \in {"plain", "removed"}
<1>1. PICK t \in {"text", "tool", "other"} :
        part \in [message : 1..MaxMessages, type : {t}, status : Statuses[t]]
  BY DEF Parts
<1>2. /\ part = [message |-> part.message, type |-> part.type, status |-> part.status]
      /\ part.message \in 1..MaxMessages /\ part.type = t /\ part.status \in Statuses[t]
  BY <1>1
<1>3. Statuses[t] = IF t = "text" THEN {"blank", "written", "removed"}
                    ELSE IF t = "tool" THEN {"pending", "running"} \cup Over
                    ELSE {"plain", "removed"}
  BY DEF Statuses
<1> QED
  BY <1>2, <1>3

\* And whatever has such fields is one.
LEMMA PartMade ==
    ASSUME NEW m \in 1..MaxMessages, NEW t, NEW s,
           \/ t = "text" /\ s \in {"blank", "written", "removed"}
           \/ t = "tool" /\ s \in {"pending", "running"} \cup Over
           \/ t = "other" /\ s \in {"plain", "removed"}
    PROVE  [message |-> m, type |-> t, status |-> s] \in Parts
<1>1. t \in {"text", "tool", "other"} /\ s \in Statuses[t]
  BY DEF Statuses
<1> HIDE DEF Statuses
<1>2. [message |-> m, type |-> t, status |-> s]
        \in [message : 1..MaxMessages, type : {t}, status : Statuses[t]]
  BY <1>1
<1> QED
  BY <1>1, <1>2 DEF Parts

\* Further parts and other statuses leave what was read and what is stored as it is.
LEMMA LaterParts ==
    ASSUME DOMAIN parts \subseteq DOMAIN parts',
           \A p \in DOMAIN parts : parts[p].status \in Over => parts'[p].status \in Over
    PROVE  /\ \A read : PartsRead(read) => PartsRead(read)'
           /\ \A rows : ResultsHeld(rows) => ResultsHeld(rows)'
<1>1. ASSUME NEW read, PartsRead(read)
      PROVE  /\ DOMAIN read \subseteq DOMAIN parts'
             /\ read \in [DOMAIN read -> Parts]
             /\ \A p \in DOMAIN read : Finished(read[p]) => parts'[p].status \in Over
  BY <1>1 DEF PartsRead
<1>2. ASSUME NEW rows, ResultsHeld(rows)
      PROVE  /\ IsListing(rows, PartEventIds)
             /\ \A p : PartEventId(p, "tool_result") \in DOMAIN rows =>
                  /\ p \in DOMAIN parts' /\ parts'[p].status \in Over
                  /\ PartEventId(p, "tool_call") \in DOMAIN rows
                  /\ rows[PartEventId(p, "tool_call")] < rows[PartEventId(p, "tool_result")]
  BY <1>2 DEF ResultsHeld
<1> QED
  BY <1>1, <1>2 DEF PartsRead, ResultsHeld

\* A call ends once: a part that has ended can only be removed.
LEMMA SourceStep ==
    ASSUME Inv, SnapInv, harness = "opencode", AddMessage \/ AddPart \/ ChangePart
    PROVE  SnapInv'
<1>0. SourceOK
  BY DEF SnapInv
<1>1. CASE AddMessage
  <2>1. PICK m \in (1..MaxMessages) \ DOMAIN messages, speaking \in BOOLEAN :
          messages' = Added(messages, m, speaking)
    BY <1>1 DEF AddMessage
  <2>2. /\ DOMAIN messages' = DOMAIN messages \cup {m}
        /\ messages' \in [DOMAIN messages' -> BOOLEAN]
    BY <1>0, <2>1 DEF SourceOK, Added
  <2>3. UNCHANGED <<harness, parts, job, works>>
    BY <1>1 DEF AddMessage
  <2>4. SourceOK'
    BY <1>0, <2>1, <2>2, <2>3 DEF SourceOK
  <2> QED
    BY <2>3, <2>4, LaterParts DEF SnapInv
<1>2. CASE AddPart
  <2>1. PICK p \in (1..MaxParts) \ DOMAIN parts, m \in DOMAIN messages :
          \E part \in NewParts(m) : parts' = Added(parts, p, part)
    BY <1>2 DEF AddPart
  <2>2. PICK part \in NewParts(m) : parts' = Added(parts, p, part)
    BY <2>1
  <2>3. part \in Parts /\ part.message = m
    <3>1. m \in 1..MaxMessages
      BY <1>0 DEF SourceOK
    <3>2. PICK t, s : /\ part = [message |-> m, type |-> t, status |-> s]
                      /\ \/ t = "text" /\ s \in {"blank", "written"}
                         \/ t = "tool" /\ s = "pending"
                         \/ t = "other" /\ s = "plain"
      BY DEF NewParts
    <3> QED
      BY <3>1, <3>2, PartMade
  <2>4. /\ DOMAIN parts' = DOMAIN parts \cup {p}
        /\ parts'[p] = part /\ \A q \in DOMAIN parts : parts'[q] = parts[q]
        /\ parts' = [q \in DOMAIN parts' |-> parts'[q]]
    BY <2>1, <2>2 DEF Added
  <2>5. UNCHANGED <<harness, messages, job, works>>
    BY <1>2 DEF AddPart
  <2>6. SourceOK'
    <3>1. DOMAIN parts' \subseteq 1..MaxParts /\ \A q \in DOMAIN parts' : parts'[q] \in Parts
      BY <1>0, <2>3, <2>4 DEF SourceOK
    <3>2. parts' \in [DOMAIN parts' -> Parts]
      BY <2>4, <3>1
    <3> QED
      BY <1>0, <2>3, <2>4, <2>5, <3>1, <3>2 DEF SourceOK
  <2>7. DOMAIN parts \subseteq DOMAIN parts'
        /\ \A q \in DOMAIN parts : parts[q].status \in Over => parts'[q].status \in Over
    BY <2>4
  <2> QED
    BY <2>5, <2>6, <2>7, LaterParts DEF SnapInv
<1>3. CASE ChangePart
  <2>1. PICK p \in DOMAIN parts : \E s \in NextStatus[parts[p].status] :
          parts' = [parts EXCEPT ![p].status = s]
    BY <1>3 DEF ChangePart
  <2>2. PICK s \in NextStatus[parts[p].status] : parts' = [parts EXCEPT ![p].status = s]
    BY <2>1
  <2> DEFINE part == parts[p]
  <2>3. part \in Parts
    BY <1>0 DEF SourceOK
  <2>4. /\ DOMAIN parts' = DOMAIN parts
        /\ parts'[p] = [message |-> part.message, type |-> part.type, status |-> s]
        /\ \A q \in DOMAIN parts : q # p => parts'[q] = parts[q]
        /\ parts' = [q \in DOMAIN parts' |-> parts'[q]]
    <3>1. /\ parts' = [parts EXCEPT ![p] = [part EXCEPT !.status = s]]
          /\ part = [message |-> part.message, type |-> part.type, status |-> part.status]
      BY <2>2, <2>3, PartFields
    <3>2. [part EXCEPT !.status = s] = [message |-> part.message, type |-> part.type, status |-> s]
      BY <3>1
    <3> QED
      BY <1>0, <3>1, <3>2 DEF SourceOK
  <2>5. /\ \/ part.type = "text" /\ s \in {"blank", "written", "removed"}
           \/ part.type = "tool" /\ s \in {"pending", "running"} \cup Over
           \/ part.type = "other" /\ s \in {"plain", "removed"}
        /\ part.status \in Over => s \in Over
    BY <2>2, <2>3, PartFields DEF NextStatus, Over
  <2>6. parts'[p] \in Parts /\ parts'[p].message = part.message
    BY <2>3, <2>4, <2>5, PartFields, PartMade
  <2>7. UNCHANGED <<harness, messages, job, works>>
    BY <1>3 DEF ChangePart
  <2> HIDE DEF part
  <2>8. SourceOK'
    <3>1. \A q \in DOMAIN parts' : parts'[q] \in Parts /\ parts'[q].message \in DOMAIN messages
      BY <1>0, <2>4, <2>6 DEF SourceOK, part
    <3>2. parts' \in [DOMAIN parts' -> Parts]
      BY <2>4, <3>1
    <3> QED
      BY <1>0, <2>4, <2>7, <3>1, <3>2 DEF SourceOK
  <2>9. DOMAIN parts \subseteq DOMAIN parts'
        /\ \A q \in DOMAIN parts : parts[q].status \in Over => parts'[q].status \in Over
    BY <2>4, <2>5 DEF part
  <2> QED
    BY <2>7, <2>8, <2>9, LaterParts DEF SnapInv
<1> QED
  BY <1>1, <1>2, <1>3

\* What a listing of parts lists, and in which order a call and its result come.
LEMMA SnapshotTidy ==
    ASSUME NEW ms, NEW ps, DOMAIN ps \subseteq 1..MaxParts, ps \in [DOMAIN ps -> Parts]
    PROVE  /\ IsListing(SnapshotListing(ms, ps), PartEventIds)
           /\ \A p, k : PartEventId(p, k) \in DOMAIN SnapshotListing(ms, ps) <=>
                /\ p \in DOMAIN ps /\ ps[p].message \in DOMAIN ms
                /\ \/ /\ ps[p].type = "text" /\ k = "message"
                      /\ ms[ps[p].message] /\ ps[p].status # "blank"
                   \/ ps[p].type = "tool" /\ k = "tool_call"
                   \/ ps[p].type = "tool" /\ k = "tool_result" /\ Finished(ps[p])
                   \/ ps[p].type = "other" /\ k = "unknown"
           /\ \A p : PartEventId(p, "tool_result") \in DOMAIN SnapshotListing(ms, ps) =>
                SnapshotListing(ms, ps)[PartEventId(p, "tool_call")]
                  < SnapshotListing(ms, ps)[PartEventId(p, "tool_result")]
<1> DEFINE L == SnapshotListing(ms, ps)
           kinds(p) == KindsOfPart(ps[p], ms[ps[p].message])
           placed == {p \in DOMAIN ps : ps[p].message \in DOMAIN ms}
           ids == UNION {{PartEventId(p, kinds(p)[i]) : i \in DOMAIN kinds(p)} : p \in placed}
           rank(p, k) == PartRank(ps, p, CHOOSE i \in DOMAIN kinds(p) : kinds(p)[i] = k)
<1>1. L = [id \in ids |-> rank(id[1], id[2])]
  BY Zenon DEF SnapshotListing
<1>2. \A p \in DOMAIN ps : ps[p] \in Parts /\ p \in Nat
  OBVIOUS
<1>3. \A p \in DOMAIN ps :
        /\ \A i \in DOMAIN kinds(p) : i \in 1..2
        /\ \A k : (\E i \in DOMAIN kinds(p) : kinds(p)[i] = k) <=>
             \/ /\ ps[p].type = "text" /\ k = "message"
                /\ ms[ps[p].message] /\ ps[p].status # "blank"
             \/ ps[p].type = "tool" /\ k = "tool_call"
             \/ ps[p].type = "tool" /\ k = "tool_result" /\ Finished(ps[p])
             \/ ps[p].type = "other" /\ k = "unknown"
        /\ \A i \in DOMAIN kinds(p) : /\ kinds(p)[i] = "tool_call" <=> (i = 1 /\ ps[p].type = "tool")
                                      /\ kinds(p)[i] = "tool_result" <=> (i = 2 /\ ps[p].type = "tool")
  <2> SUFFICES ASSUME NEW p \in DOMAIN ps
               PROVE  /\ \A i \in DOMAIN kinds(p) : i \in 1..2
                      /\ \A k : (\E i \in DOMAIN kinds(p) : kinds(p)[i] = k) <=>
                           \/ /\ ps[p].type = "text" /\ k = "message"
                              /\ ms[ps[p].message] /\ ps[p].status # "blank"
                           \/ ps[p].type = "tool" /\ k = "tool_call"
                           \/ ps[p].type = "tool" /\ k = "tool_result" /\ Finished(ps[p])
                           \/ ps[p].type = "other" /\ k = "unknown"
                      /\ \A i \in DOMAIN kinds(p) :
                           /\ kinds(p)[i] = "tool_call" <=> (i = 1 /\ ps[p].type = "tool")
                           /\ kinds(p)[i] = "tool_result" <=> (i = 2 /\ ps[p].type = "tool")
    OBVIOUS
  <2>1. ps[p].type \in {"text", "tool", "other"}
    BY <1>2, PartFields
  <2>2. CASE ps[p].type = "text"
    BY <2>2 DEF KindsOfPart
  <2>3. CASE ps[p].type = "tool"
    BY <2>3 DEF KindsOfPart
  <2>4. CASE ps[p].type = "other"
    BY <2>4 DEF KindsOfPart
  <2> QED
    BY <2>1, <2>2, <2>3, <2>4
<1> HIDE DEF kinds
<1>4. \A p, k : PartEventId(p, k) \in ids <=>
        p \in placed /\ \E i \in DOMAIN kinds(p) : kinds(p)[i] = k
  BY DEF PartEventId
<1>5. \A p \in placed : \A k : \A i \in DOMAIN kinds(p) : kinds(p)[i] = k =>
        \E j \in DOMAIN kinds(p) : kinds(p)[j] = k /\ rank(p, k) = PartRank(ps, p, j)
  <2> SUFFICES ASSUME NEW p \in placed, NEW k, NEW i \in DOMAIN kinds(p), kinds(p)[i] = k
               PROVE  \E j \in DOMAIN kinds(p) : kinds(p)[j] = k /\ rank(p, k) = PartRank(ps, p, j)
    OBVIOUS
  <2> DEFINE j == CHOOSE x \in DOMAIN kinds(p) : kinds(p)[x] = k
  <2>1. j \in DOMAIN kinds(p) /\ kinds(p)[j] = k
    OBVIOUS
  <2>2. rank(p, k) = PartRank(ps, p, j)
    OBVIOUS
  <2> HIDE DEF j, rank
  <2> QED
    BY <2>1, <2>2
<1>6. \A p \in placed : \A i \in 1..2 : PartRank(ps, p, i) \in Nat
  BY <1>2, PartFields, PartsAssumption DEF PartRank
<1>7. \A p \in placed : PartRank(ps, p, 1) < PartRank(ps, p, 2)
  <2> SUFFICES ASSUME NEW p \in placed PROVE PartRank(ps, p, 1) < PartRank(ps, p, 2)
    OBVIOUS
  <2> DEFINE x == ps[p].message * (MaxParts + 1) + p
  <2>1. x \in Nat
    BY <1>2, PartFields, PartsAssumption
  <2> HIDE DEF x
  <2>2. 2 * x + 1 < 2 * x + 2
    BY <2>1
  <2> QED
    BY <2>2 DEF PartRank, x
<1>8. \A id \in ids : \E p \in placed : \E i \in DOMAIN kinds(p) :
        /\ id = PartEventId(p, kinds(p)[i]) /\ id[1] = p /\ id[2] = kinds(p)[i]
  BY DEF PartEventId
<1> HIDE DEF ids, rank, L
<1>9. DOMAIN L = ids /\ \A p, k : PartEventId(p, k) \in ids => L[PartEventId(p, k)] = rank(p, k)
  <2>1. \A p, k : PartEventId(p, k)[1] = p /\ PartEventId(p, k)[2] = k
    BY DEF PartEventId
  <2> QED
    BY <1>1, <2>1
<1>10. \A id \in ids : L[id] \in Nat /\ id \in PartEventIds
  <2> SUFFICES ASSUME NEW id \in ids PROVE L[id] \in Nat /\ id \in PartEventIds
    OBVIOUS
  <2>1. PICK p \in placed : \E i \in DOMAIN kinds(p) : id = PartEventId(p, kinds(p)[i])
    BY <1>8
  <2>2. PICK i \in DOMAIN kinds(p) : id = PartEventId(p, kinds(p)[i])
    BY <2>1
  <2>3. PICK j \in DOMAIN kinds(p) : rank(p, kinds(p)[i]) = PartRank(ps, p, j)
    BY <1>5
  <2>4. L[id] \in Nat
    BY <1>3, <1>6, <1>9, <2>2, <2>3
  <2>5. p \in 1..MaxParts /\ kinds(p)[i] \in {"message", "tool_call", "tool_result", "unknown"}
    BY <1>3
  <2> QED
    BY <2>2, <2>4, <2>5 DEF PartEventIds, PartEventId
<1>11. IsListing(L, PartEventIds)
  <2>1. L = [id \in ids |-> L[id]]
    BY <1>1, <1>9
  <2> QED
    BY <1>9, <1>10, <2>1 DEF IsListing
<1>12. ASSUME NEW p, PartEventId(p, "tool_result") \in ids
       PROVE  L[PartEventId(p, "tool_call")] < L[PartEventId(p, "tool_result")]
  <2>1. p \in placed /\ p \in DOMAIN ps /\ \E i \in DOMAIN kinds(p) : kinds(p)[i] = "tool_result"
    BY <1>4, <1>12
  <2>2. ps[p].type = "tool"
    BY <1>3, <2>1
  <2>3. \E i \in DOMAIN kinds(p) : kinds(p)[i] = "tool_call"
    BY <1>3, <2>1, <2>2
  <2>4. rank(p, "tool_result") = PartRank(ps, p, 2)
    BY <1>3, <1>5, <2>1, <2>2
  <2>5. rank(p, "tool_call") = PartRank(ps, p, 1)
    BY <1>3, <1>5, <2>1, <2>2, <2>3
  <2>6. PartEventId(p, "tool_call") \in ids
    BY <1>4, <2>1, <2>3
  <2> QED
    BY <1>7, <1>9, <1>12, <2>1, <2>4, <2>5, <2>6
<1>13. \A p, k : PartEventId(p, k) \in ids <=>
         /\ p \in DOMAIN ps /\ ps[p].message \in DOMAIN ms
         /\ \/ /\ ps[p].type = "text" /\ k = "message"
               /\ ms[ps[p].message] /\ ps[p].status # "blank"
            \/ ps[p].type = "tool" /\ k = "tool_call"
            \/ ps[p].type = "tool" /\ k = "tool_result" /\ Finished(ps[p])
            \/ ps[p].type = "other" /\ k = "unknown"
  BY <1>3, <1>4
<1> QED
  BY <1>9, <1>11, <1>12, <1>13 DEF L

\* What an import stores: every event of what it read, results after their calls.
LEMMA SnapStoreStep ==
    ASSUME Inv, SnapInv, harness = "opencode", Store
    PROVE  /\ SnapInv'
           /\ ResultsHeld(works'[OpenCodeSession].rows)
           /\ DOMAIN SnapshotListing(job.messages, job.parts)
                \subseteq DOMAIN works'[OpenCodeSession].rows
<1> DEFINE w == OpenCodeSession
           old == Loaded(w).rows
           L == SnapshotListing(job.messages, job.parts)
           new == AppendAll(old, L)
<1>1. SourceOK /\ PartsRead(job.parts) /\ \A v \in DOMAIN works : ResultsHeld(works[v].rows)
  BY DEF SnapInv
<1>2. /\ works' = [v \in DOMAIN works \cup {w} |-> IF v = w THEN Attached(Loaded(w), job) ELSE works[v]]
      /\ job' = Idle /\ UNCHANGED <<harness, messages, parts>>
      /\ Observed(job) = L
  BY DEF Store, ObservedId, Observed, source, Transcript
<1>3. works'[w].rows = new
  BY <1>2 DEF Attached
<1>4. ResultsHeld(old)
  <2>1. CASE w \in DOMAIN works
    BY <1>1, <2>1 DEF Loaded
  <2>2. CASE w \notin DOMAIN works
    BY <2>2 DEF Loaded, NoWork, Empty, ResultsHeld, IsListing
  <2> QED
    BY <2>1, <2>2
<1>5. IsFiniteSet(PartEventIds)
  <2>1. IsFiniteSet(1..MaxParts)
    BY PartsAssumption, FS_Interval
  <2>2. IsFiniteSet({"message", "tool_call", "tool_result", "unknown"})
    <3>1. IsFiniteSet({} \cup {"message"})
      BY FS_EmptySet, FS_AddElement
    <3>2. IsFiniteSet(({} \cup {"message"}) \cup {"tool_call"})
      BY <3>1, FS_AddElement
    <3>3. IsFiniteSet((({} \cup {"message"}) \cup {"tool_call"}) \cup {"tool_result"})
      BY <3>2, FS_AddElement
    <3>4. IsFiniteSet(((({} \cup {"message"}) \cup {"tool_call"}) \cup {"tool_result"})
                        \cup {"unknown"})
      BY <3>3, FS_AddElement
    <3>5. {"message", "tool_call", "tool_result", "unknown"}
            = ((({} \cup {"message"}) \cup {"tool_call"}) \cup {"tool_result"}) \cup {"unknown"}
      OBVIOUS
    <3> QED
      BY <3>4, <3>5, Zenon
  <2> QED
    BY <2>1, <2>2, FS_Product DEF PartEventIds
<1>6. DOMAIN job.parts \subseteq 1..MaxParts /\ job.parts \in [DOMAIN job.parts -> Parts]
  BY <1>1 DEF SourceOK, PartsRead
<1>7. IsListing(L, PartEventIds)
  BY <1>6, SnapshotTidy
<1> HIDE DEF w, old, L, new
<1>8. /\ IsListing(new, PartEventIds) /\ DOMAIN new = DOMAIN old \cup DOMAIN L
      /\ \A e \in DOMAIN old : new[e] = old[e]
  BY <1>4, <1>5, <1>7, AppendAllProps, AppendAllDomain DEF ResultsHeld, new
<1>9. /\ \A e \in DOMAIN L \ DOMAIN old : \A d \in DOMAIN old : new[d] < new[e]
      /\ \A d, e \in DOMAIN L \ DOMAIN old : L[d] < L[e] => new[d] < new[e]
  BY <1>4, <1>5, <1>7, AppendAllOrder DEF ResultsHeld, new
<1>10. ASSUME NEW p, PartEventId(p, "tool_result") \in DOMAIN new
       PROVE  /\ p \in DOMAIN parts /\ parts[p].status \in Over
              /\ PartEventId(p, "tool_call") \in DOMAIN new
              /\ new[PartEventId(p, "tool_call")] < new[PartEventId(p, "tool_result")]
  <2> DEFINE result == PartEventId(p, "tool_result")
             call == PartEventId(p, "tool_call")
  <2>1. CASE result \in DOMAIN old
    BY <1>4, <1>8, <2>1 DEF ResultsHeld
  <2>2. CASE result \notin DOMAIN old
    <3>1. result \in DOMAIN L
      BY <1>8, <1>10, <2>2
    <3>2. p \in DOMAIN job.parts /\ Finished(job.parts[p]) /\ call \in DOMAIN L /\ L[call] < L[result]
      BY <1>6, <3>1, SnapshotTidy DEF L
    <3>3. p \in DOMAIN parts /\ parts[p].status \in Over
      BY <1>1, <3>2 DEF PartsRead
    <3>4. call \in DOMAIN new /\ new[call] < new[result]
      BY <1>8, <1>9, <2>2, <3>1, <3>2
    <3> QED
      BY <3>3, <3>4
  <2> QED
    BY <2>1, <2>2
<1>11. ResultsHeld(new)
  BY <1>8, <1>10 DEF ResultsHeld
<1>12. SnapInv'
  <2>1. \A v \in DOMAIN works' : ResultsHeld(works'[v].rows)
    BY <1>1, <1>2, <1>3, <1>11
  <2>2. \A rows : ResultsHeld(rows) => ResultsHeld(rows)'
    BY <1>2 DEF ResultsHeld
  <2>3. PartsRead(<<>>)'
    BY DEF PartsRead
  <2>4. SourceOK' /\ job'.parts = <<>>
    BY <1>1, <1>2 DEF SourceOK, Idle
  <2> QED
    BY <2>1, <2>2, <2>3, <2>4 DEF SnapInv
<1> QED
  BY <1>3, <1>8, <1>11, <1>12 DEF w, L

\* What an import reads are the parts that there are.
LEMMA SnapReadStep ==
    ASSUME Inv, SnapInv, harness = "opencode",
           ReadFile \/ ReadSummary \/ ReadMessages \/ ReadParts \/ ReadSnapshot \/ Refuse \/ Fail
    PROVE  SnapInv'
<1>1. UNCHANGED <<harness, messages, parts, works>>
  BY DEF ReadFile, ReadSummary, ReadMessages, ReadParts, ReadSnapshot, Refuse, Fail, Unread, source
<1>2. \/ job'.parts = job.parts \/ job'.parts = <<>> \/ job'.parts = Live(parts)
  <2>1. CASE ReadFile \/ ReadSummary \/ ReadMessages
    BY <2>1 DEF ReadFile, ReadSummary, ReadMessages, Inv, JobOK
  <2>2. CASE ReadParts \/ ReadSnapshot
    BY <2>2 DEF ReadParts, ReadSnapshot, Inv, JobOK
  <2>3. CASE Refuse \/ Fail
    BY <2>3 DEF Refuse, Fail, Idle
  <2> QED
    BY <2>1, <2>2, <2>3
<1>3. PartsRead(<<>>) /\ PartsRead(Live(parts)) /\ PartsRead(job.parts)
  <2>1. \A p \in DOMAIN Live(parts) : p \in DOMAIN parts /\ Live(parts)[p] = parts[p]
    BY DEF Live
  <2>2. Live(parts) \in [DOMAIN Live(parts) -> Parts]
    BY DEF Live, SnapInv, SourceOK
  <2> QED
    BY <2>1, <2>2 DEF PartsRead, SnapInv, Finished, Over
<1> QED
  BY <1>1, <1>2, <1>3 DEF SnapInv, SourceOK, PartsRead, ResultsHeld

\* Whatever happens, the harness stays the one whose session it is.
LEMMA SnapStep == ASSUME Inv, SnapInv, [Next]_vars PROVE SnapInv'
<1>1. harness' = harness
  BY DEF Next, Harness, Import, AppendLine, CompleteLine, WriteSummary, RewriteSummary,
         AddMessage, AddPart, ChangePart, ReadFile, ReadSummary, ReadMessages, ReadParts, ReadSnapshot, Store,
         Refuse, Fail, Unread, vars
<1>2. CASE harness = "opencode"
  <2>1. CASE AppendLine \/ CompleteLine \/ WriteSummary \/ RewriteSummary \/ UNCHANGED vars
    <3>1. UNCHANGED <<messages, parts, job, works>>
      BY <2>1 DEF AppendLine, CompleteLine, WriteSummary, RewriteSummary, vars
    <3> QED
      BY <1>1, <3>1 DEF SnapInv, SourceOK, PartsRead, ResultsHeld
  <2> QED
    BY <1>2, <2>1, SourceStep, SnapStoreStep, SnapReadStep DEF Next, Harness, Import
<1> QED
  BY <1>1, <1>2 DEF SnapInv

\* After an import that read an OpenCode session as it is, the Work has every event
\* of it and answers exactly the calls that have ended, and a result follows its
\* call (opencode/reader.ts:121-133, opencode/normalize.ts:49-102).
THEOREM SnapshotsAreHeld == Spec => SnapshotHeld
<1>1. Init => SnapInv
  BY DEF Init, SnapInv, SourceOK, PartsRead, Idle
<1>2. Inv /\ SnapInv /\ [Next]_vars => SnapInv'
  BY SnapStep
<1> DEFINE Held ==
      LET rows == works'[OpenCodeSession].rows
          Has(p, kind) == PartEventId(p, kind) \in DOMAIN rows
          Ended(part) == part.status \in {"completed", "error"}
      IN  /\ \A p \in DOMAIN Live(parts) :
               /\ parts[p].type = "tool" =>
                    Has(p, "tool_call") /\ (Has(p, "tool_result") <=> Ended(parts[p]))
               /\ parts[p].status = "written" /\ messages[parts[p].message] => Has(p, "message")
               /\ parts[p].type = "other" => Has(p, "unknown")
          /\ \A p \in DOMAIN parts :
               Has(p, "tool_result") =>
                 /\ Has(p, "tool_call")
                 /\ rows[PartEventId(p, "tool_call")] < rows[PartEventId(p, "tool_result")]
<1>3. ASSUME Inv, SnapInv, Store, harness = "opencode", job = [Now EXCEPT !.pc = "store"]
      PROVE  Held
  <2> DEFINE rows == works'[OpenCodeSession].rows
             live == Live(parts)
             L == SnapshotListing(messages, live)
  <2>1. job.messages = messages /\ job.parts = live
    BY <1>3 DEF Now, Idle
  <2>2. ResultsHeld(rows) /\ DOMAIN L \subseteq DOMAIN rows
    BY <1>3, <2>1, SnapStoreStep
  <2>3. /\ DOMAIN live = {p \in DOMAIN parts : parts[p].status # "removed"}
        /\ \A p \in DOMAIN live : live[p] = parts[p]
    BY DEF Live
  <2>4. /\ DOMAIN live \subseteq 1..MaxParts /\ live \in [DOMAIN live -> Parts]
        /\ \A p \in DOMAIN live : parts[p] \in Parts /\ parts[p].message \in DOMAIN messages
    BY <1>3 DEF SnapInv, SourceOK, Live
  <2> HIDE DEF rows, live
  <2>5. \A p \in DOMAIN live : \A k :
          \/ /\ parts[p].type = "text" /\ k = "message"
             /\ messages[parts[p].message] /\ parts[p].status # "blank"
          \/ parts[p].type = "tool" /\ k = "tool_call"
          \/ parts[p].type = "tool" /\ k = "tool_result" /\ Finished(parts[p])
          \/ parts[p].type = "other" /\ k = "unknown"
          => PartEventId(p, k) \in DOMAIN rows
    BY <2>2, <2>3, <2>4, SnapshotTidy
  <2>6. \A p \in DOMAIN live : parts[p].status = "written" => parts[p].type = "text"
    BY <2>4, PartFields DEF Over
  <2>7. \A p : PartEventId(p, "tool_result") \in DOMAIN rows =>
          /\ parts[p].status \in Over
          /\ PartEventId(p, "tool_call") \in DOMAIN rows
          /\ rows[PartEventId(p, "tool_call")] < rows[PartEventId(p, "tool_result")]
    BY <2>2 DEF ResultsHeld
  <2>8. \A p \in DOMAIN live :
          /\ parts[p].type = "tool" =>
               /\ PartEventId(p, "tool_call") \in DOMAIN rows
               /\ PartEventId(p, "tool_result") \in DOMAIN rows
                    <=> parts[p].status \in {"completed", "error"}
          /\ parts[p].status = "written" /\ messages[parts[p].message]
               => PartEventId(p, "message") \in DOMAIN rows
          /\ parts[p].type = "other" => PartEventId(p, "unknown") \in DOMAIN rows
    BY <2>3, <2>5, <2>6, <2>7 DEF Over, Finished
  <2> QED
    BY <2>7, <2>8 DEF live, rows
<1>4. Inv /\ SnapInv /\ [Next]_vars =>
        [Store /\ harness = "opencode" /\ job = [Now EXCEPT !.pc = "store"] => Held]_vars
  BY <1>3
<1> QED
  BY <1>1, <1>2, <1>4, Invariance, PTL DEF Spec, SnapshotHeld
-----------------------------------------------------------------------------
(* The walks of PiGraph. *)

Walked(g, parent, start) ==
    g = [i \in 0..Cardinality(DOMAIN parent) |->
           IF i = 0 THEN start ELSE IF g[i - 1] = 0 THEN 0 ELSE parent[g[i - 1]]]

\* There is a walk of any length from any entry.
LEMMA WalkExists ==
    ASSUME NEW D, IsFiniteSet(D), 0 \notin D, NEW parent \in [D -> D \cup {0}],
           NEW start \in D
    PROVE  \E g : Walked(g, parent, start)
<1> DEFINE N == Cardinality(D)
           Step(g, i) == IF i = 0 THEN start ELSE IF g[i - 1] = 0 THEN 0 ELSE parent[g[i - 1]]
           P == {n \in Nat : \E g \in [0..N -> D \cup {0}] : \A i \in 0..N : i < n => g[i] = Step(g, i)}
<1>0. N \in Nat /\ DOMAIN parent = D
  BY FS_CardinalityType
<1> HIDE DEF N
<1>1. 0 \in P
  <2> DEFINE g == [i \in 0..N |-> 0]
  <2>1. g \in [0..N -> D \cup {0}] /\ \A i \in 0..N : ~ (i < 0)
    BY <1>0
  <2> HIDE DEF g
  <2> QED
    BY <2>1
<1>2. ASSUME NEW n \in Nat, n \in P PROVE n + 1 \in P
  <2>1. PICK g \in [0..N -> D \cup {0}] : \A i \in 0..N : i < n => g[i] = Step(g, i)
    BY <1>2
  <2> DEFINE h == [i \in 0..N |-> Step(g, i)]
  <2>2. \A i \in 0..N : i # 0 => i - 1 \in 0..N
    BY <1>0
  <2>3. \A i \in 0..N : Step(g, i) \in D \cup {0}
    BY <2>1, <2>2
  <2>4. h \in [0..N -> D \cup {0}]
    BY <2>3
  <2>5. ASSUME NEW i \in 0..N, i < n + 1 PROVE h[i] = Step(h, i)
    <3>1. h[i] = Step(g, i)
      OBVIOUS
    <3>2. CASE i = 0
      BY <3>1, <3>2
    <3>3. CASE i # 0
      <4>1. i - 1 \in 0..N /\ i - 1 < n
        BY <1>0, <2>5, <3>3
      <4>2. h[i - 1] = g[i - 1]
        BY <2>1, <4>1
      <4> QED
        BY <3>1, <3>3, <4>2
    <3> QED
      BY <3>2, <3>3
  <2> HIDE DEF h, Step
  <2>6. n + 1 \in Nat /\ \A i \in 0..N : i < n + 1 => h[i] = Step(h, i)
    BY <2>5
  <2> QED
    BY <2>4, <2>6
<1>3. Nat \subseteq P
  <2> HIDE DEF P
  <2> QED
    BY <1>1, <1>2, NatInduct
<1>4. PICK g \in [0..N -> D \cup {0}] : \A i \in 0..N : i < N + 1 => g[i] = Step(g, i)
  BY <1>0, <1>3
<1>5. g = [i \in 0..N |-> Step(g, i)]
  <2> HIDE DEF Step
  <2>1. \A i \in 0..N : i < N + 1
    BY <1>0
  <2>2. \A i \in 0..N : g[i] = Step(g, i)
    BY <1>4, <2>1
  <2>3. g = [i \in 0..N |-> g[i]]
    BY <1>4
  <2> QED
    BY <2>2, <2>3
<1> QED
  BY <1>0, <1>5 DEF Walked, N

\* A walk starts at its entry and goes on from an entry to what that continues.  A
\* set with its start that is closed under this holds all of it.
LEMMA WalkFacts ==
    ASSUME NEW D, IsFiniteSet(D), 0 \notin D, NEW parent \in [D -> D \cup {0}],
           NEW start \in D
    PROVE  LET w == Walk(parent, start)
               N == Cardinality(D)
           IN  /\ DOMAIN w = 0..N /\ w[0] = start
               /\ \A i \in 0..N : i # 0 =>
                    w[i] = IF w[i - 1] = 0 THEN 0 ELSE parent[w[i - 1]]
               /\ \A C : (/\ start \in C
                          /\ \A x \in C : (IF x = 0 THEN 0 ELSE parent[x]) \in C)
                         => \A i \in 0..N : w[i] \in C
<1> DEFINE w == Walk(parent, start)
           N == Cardinality(D)
<1>0. N \in Nat /\ DOMAIN parent = D
  BY FS_CardinalityType
<1>1. Walked(w, parent, start)
  <2>1. w = CHOOSE g : Walked(g, parent, start)
    BY DEF Walk, Walked
  <2> HIDE DEF w
  <2> QED
    BY <2>1, WalkExists
<1> HIDE DEF w
<1>2. w = [i \in 0..N |-> IF i = 0 THEN start
                           ELSE IF w[i - 1] = 0 THEN 0 ELSE parent[w[i - 1]]]
  BY <1>0, <1>1 DEF Walked
<1> HIDE DEF N
<1>3. /\ DOMAIN w = 0..N
      /\ \A i \in 0..N : w[i] = IF i = 0 THEN start
                                ELSE IF w[i - 1] = 0 THEN 0 ELSE parent[w[i - 1]]
  BY <1>2
<1>4. /\ w[0] = start
      /\ \A i \in 0..N : i # 0 => w[i] = IF w[i - 1] = 0 THEN 0 ELSE parent[w[i - 1]]
  BY <1>0, <1>3
<1>5. ASSUME NEW C, start \in C, \A x \in C : (IF x = 0 THEN 0 ELSE parent[x]) \in C
      PROVE  \A i \in 0..N : w[i] \in C
  <2> DEFINE P == {n \in Nat : n \in 0..N => w[n] \in C}
  <2>1. 0 \in P
    BY <1>4, <1>5
  <2>2. ASSUME NEW n \in Nat, n \in P PROVE n + 1 \in P
    <3> SUFFICES ASSUME n + 1 \in 0..N PROVE w[n + 1] \in C
      OBVIOUS
    <3> SUFFICES ASSUME NEW k, k = n + 1 PROVE w[k] \in C
      OBVIOUS
    <3>1. k \in 0..N /\ k # 0 /\ n \in 0..N /\ k - 1 = n
      BY <1>0
    <3>2. w[n] \in C
      BY <2>2, <3>1
    <3>3. w[k] = IF w[n] = 0 THEN 0 ELSE parent[w[n]]
      BY <1>4, <3>1
    <3> QED
      BY <1>5, <3>2, <3>3
  <2>3. Nat \subseteq P
    <3> HIDE DEF P
    <3> QED
      BY <2>1, <2>2, NatInduct
  <2> QED
    BY <1>0, <2>3
<1> QED
  BY <1>3, <1>4, <1>5 DEF w, N

\* What a walk that comes back has seen is closed: its branch never ends.
LEMMA ComesBackIsEndless ==
    ASSUME NEW D, IsFiniteSet(D), 0 \notin D, NEW parent \in [D -> D \cup {0}],
           NEW start \in D, ComesBack(Walk(parent, start))
    PROVE  LET w == Walk(parent, start)
           IN  \A i \in DOMAIN w : w[i] \in Endless(parent)
<1> DEFINE w == Walk(parent, start)
           N == Cardinality(D)
<1>0. N \in Nat /\ DOMAIN parent = D
  BY FS_CardinalityType
<1>1. /\ DOMAIN w = 0..N /\ w[0] = start
      /\ \A i \in 0..N : i # 0 => w[i] = IF w[i - 1] = 0 THEN 0 ELSE parent[w[i - 1]]
  BY WalkFacts
<1>2. \A C : (start \in C /\ \A x \in C : (IF x = 0 THEN 0 ELSE parent[x]) \in C)
             => \A i \in 0..N : w[i] \in C
  BY WalkFacts
<1>3. PICK i \in DOMAIN w, j \in DOMAIN w : i < j /\ w[i] = w[j] /\ w[i] # 0
  BY DEF ComesBack
<1> HIDE DEF w, N
<1>4. i \in 0..N /\ j \in 0..N /\ i \in Nat /\ j \in Nat
  BY <1>0, <1>1, <1>3
\* Nothing follows the end of a branch.
<1>5. \A k \in 0..j : w[k] # 0
  <2> SUFFICES ASSUME NEW k \in 0..j, w[k] = 0 PROVE FALSE
    OBVIOUS
  <2> DEFINE P == {n \in Nat : k + n \in 0..j => w[k + n] = 0}
  <2>1. 0 \in P
    BY <1>4
  <2>2. ASSUME NEW n \in Nat, n \in P PROVE n + 1 \in P
    <3> SUFFICES ASSUME NEW m, m = k + (n + 1), m \in 0..j PROVE w[m] = 0
      OBVIOUS
    <3>1. m \in 0..N /\ m # 0 /\ m - 1 = k + n /\ k + n \in 0..j
      BY <1>0, <1>4
    <3>2. w[m - 1] = 0
      BY <2>2, <3>1
    <3> QED
      BY <1>1, <3>1, <3>2
  <2>3. j - k \in P
    <3>1. Nat \subseteq P
      <4> HIDE DEF P
      <4> QED
        BY <2>1, <2>2, NatInduct
    <3> QED
      BY <1>4, <3>1
  <2>4. k + (j - k) = j /\ j \in 0..j
    BY <1>4
  <2> QED
    BY <1>3, <2>3, <2>4
<1> DEFINE C == {w[k] : k \in 0..(j - 1)}
<1>6. \A k \in 0..(j - 1) : /\ k \in 0..N /\ k \in 0..j
                            /\ k + 1 \in 0..N /\ k + 1 # 0 /\ (k + 1) - 1 = k
                            /\ k + 1 \in 0..(j - 1) \/ k + 1 = j
  BY <1>0, <1>4
<1>7. start \in C /\ i \in 0..(j - 1)
  <2>1. 0 \in 0..(j - 1) /\ i \in 0..(j - 1)
    BY <1>3, <1>4
  <2> QED
    BY <1>1, <2>1
<1>8. ASSUME NEW x \in C PROVE x # 0 /\ parent[x] \in C
  <2>1. PICK k \in 0..(j - 1) : x = w[k]
    OBVIOUS
  <2>2. x # 0
    BY <1>5, <1>6, <2>1
  <2>3. w[k + 1] = parent[x]
    <3> SUFFICES ASSUME NEW m, m = k + 1 PROVE w[m] = parent[x]
      OBVIOUS
    <3>1. m \in 0..N /\ m # 0 /\ m - 1 = k
      BY <1>6
    <3> QED
      BY <1>1, <2>1, <2>2, <3>1
  <2>4. CASE k + 1 \in 0..(j - 1)
    BY <2>2, <2>3, <2>4
  <2>5. CASE k + 1 = j
    BY <1>3, <1>7, <2>2, <2>3, <2>5
  <2> QED
    BY <1>6, <2>4, <2>5
<1> HIDE DEF C
<1>9. \A k \in 0..N : w[k] \in C
  BY <1>2, <1>7, <1>8
<1>10. C \subseteq D
  <2>1. \A k \in 0..N : w[k] \in D \cup {0}
    <3>1. start \in D \cup {0}
      OBVIOUS
    <3>2. \A x \in D \cup {0} : (IF x = 0 THEN 0 ELSE parent[x]) \in D \cup {0}
      OBVIOUS
    <3> QED
      BY <1>2, <3>1, <3>2
  <2>2. \A x \in C : \E k \in 0..N : x = w[k]
    BY <1>6 DEF C
  <2> QED
    BY <1>8, <2>1, <2>2
<1>11. C \subseteq Endless(parent)
  <2>1. C \in SUBSET DOMAIN parent /\ \A x \in C : parent[x] \in C
    BY <1>0, <1>8, <1>10
  <2> QED
    BY <2>1 DEF Endless
<1> QED
  BY <1>1, <1>9, <1>11 DEF w

\* A branch that never ends comes back: it has fewer entries than a walk.
LEMMA EndlessComesBack ==
    ASSUME NEW D, IsFiniteSet(D), 0 \notin D, NEW parent \in [D -> D \cup {0}],
           NEW n \in Endless(parent)
    PROVE  /\ n \in D /\ ComesBack(Walk(parent, n))
           /\ 0 \in DOMAIN Walk(parent, n) /\ Walk(parent, n)[0] = n
<1> DEFINE w == Walk(parent, n)
           N == Cardinality(D)
<1>0. N \in Nat /\ DOMAIN parent = D
  BY FS_CardinalityType
<1>1. PICK S \in SUBSET D : n \in S /\ \A x \in S : parent[x] \in S
  BY <1>0 DEF Endless
<1>2. /\ DOMAIN w = 0..N /\ w[0] = n
      /\ \A i \in 0..N : i # 0 => w[i] = IF w[i - 1] = 0 THEN 0 ELSE parent[w[i - 1]]
  BY <1>1, WalkFacts
<1>3. \A C : (n \in C /\ \A x \in C : (IF x = 0 THEN 0 ELSE parent[x]) \in C)
             => \A i \in 0..N : w[i] \in C
  BY <1>1, WalkFacts
<1> HIDE DEF w
<1>4. \A i \in 0..N : w[i] \in S
  BY <1>1, <1>3
<1> DEFINE f == [i \in 0..N |-> w[i]]
<1>5. f \in [0..N -> D]
  BY <1>4
<1>6. IsFiniteSet(0..N) /\ Cardinality(0..N) = N + 1
  <2> HIDE DEF N
  <2>1. /\ IsFiniteSet(0..N)
        /\ Cardinality(0..N) = IF 0 > N THEN 0 ELSE N - 0 + 1
    BY <1>0, FS_Interval
  <2> QED
    BY <1>0, <2>1
<1> HIDE DEF f
<1>7. N < Cardinality(0..N)
  BY <1>0, <1>6
<1>8. PICK i \in 0..N, j \in 0..N : i # j /\ f[i] = f[j]
  BY <1>5, <1>6, <1>7, FS_PigeonHole
<1> HIDE DEF N
<1>9. w[i] = w[j] /\ w[i] # 0 /\ (i < j \/ j < i)
  BY <1>0, <1>4, <1>8 DEF f
<1>10. ComesBack(w) /\ 0 \in 0..N
  BY <1>0, <1>2, <1>9 DEF ComesBack
<1> QED
  BY <1>1, <1>2, <1>10 DEF w

\* So the walks find the endless branches of any graph.
LEMMA WalksAreExact ==
    ASSUME NEW D, IsFiniteSet(D), 0 \notin D, NEW parent \in [D -> D \cup {0}]
    PROVE  CycleEntries(parent) = Endless(parent)
<1>1. ASSUME NEW x \in CycleEntries(parent) PROVE x \in Endless(parent)
  <2>1. PICK n \in D : ComesBack(Walk(parent, n)) /\ \E i \in DOMAIN Walk(parent, n) : x = Walk(parent, n)[i]
    BY DEF CycleEntries
  <2> QED
    BY <2>1, ComesBackIsEndless
<1>2. ASSUME NEW x \in Endless(parent) PROVE x \in CycleEntries(parent)
  BY EndlessComesBack DEF CycleEntries
<1> QED
  BY <1>1, <1>2

\* The walks find every entry of a Pi session whose branch never ends, and no
\* other, whatever ids repeat, are missing or name no entry, for files of any
\* length (pi/graph.ts:67-96).
THEOREM CyclesAreExact == Spec => []CyclesExact
<1>1. Inv => CyclesExact
  <2> SUFFICES ASSUME Inv, harness = "pi"
               PROVE  CycleEntries(Parent(file, PiEntries(file)))
                        = Endless(Parent(file, PiEntries(file)))
    BY DEF CyclesExact
  <2> DEFINE D == Unique(file, PiEntries(file))
             parent == Parent(file, PiEntries(file))
  <2>1. D \subseteq 1..Len(file) /\ Len(file) \in Nat
    BY DEF Inv, Files, Unique, Named, PiEntries, Records
  <2>2. IsFiniteSet(D) /\ 0 \notin D
    <3>1. IsFiniteSet(1..Len(file))
      <4> DEFINE m == Len(file)
      <4>1. m \in Int /\ 1 \in Int
        BY <2>1
      <4> HIDE DEF m
      <4>2. IsFiniteSet(1..m)
        BY <4>1, FS_Interval
      <4> QED
        BY <4>2 DEF m
    <3> HIDE DEF D
    <3> QED
      <4>1. IsFiniteSet(D)
        BY <2>1, <3>1, FS_Subset
      <4>2. 0 \notin 1..Len(file)
        BY <2>1
      <4> QED
        BY <2>1, <4>1, <4>2
  <2>3. parent \in [D -> D \cup {0}]
    BY DEF Parent
  <2> HIDE DEF D, parent
  <2> QED
    BY <2>2, <2>3, WalksAreExact DEF parent
<1> QED
  BY <1>1, Invariance, PTL
-----------------------------------------------------------------------------
(* What a Work reports of a transcript that goes on. *)

Lasting == {"missing_summary", "missing_workspace", "empty_session", "parent_cycle"}

\* A rejected line stays rejected, unless it was torn and has become a record.
LEMMA RejectionsKept ==
    ASSUME NEW h \in Transcript, NEW S, NEW g \in Seq(S), NEW f \in Seq(S), Grown(g, f),
           NEW d \in Rejections(h, g)
    PROVE  d \in Rejections(h, f) \/ (d.code = "malformed_jsonl" /\ d.line \in Records(h, f))
<1>1. PICK n \in DOMAIN g \ Records(h, g) :
        d = [code |-> RejectionCode(h)[g[n].form], line |-> n, entry |-> None]
  BY DEF Rejections
<1>2. n \in DOMAIN g /\ n \in DOMAIN f /\ g[n].form \in DOMAIN RejectionCode(h)
  BY <1>1 DEF Records, Grown
<1>3. CASE f[n] = g[n]
  BY <1>1, <1>2, <1>3 DEF Rejections, Records
<1>4. CASE g[n] = Torn /\ f[n].form = "record"
  <2>1. g[n].form = "torn"
    BY <1>4 DEF Torn
  <2>2. RejectionCode(h)["torn"] = "malformed_jsonl" /\ "record" \notin DOMAIN RejectionCode(h)
    BY DEF Transcript, RejectionCode
  <2>3. n \in Records(h, f)
    BY <1>2, <1>4, <2>2 DEF Records
  <2> QED
    BY <1>1, <2>1, <2>2, <2>3
<1> QED
  BY <1>2, <1>3, <1>4 DEF Grown

\* The first record of a file that goes on stays the first.
LEMMA FirstKept ==
    ASSUME NEW h \in Transcript, NEW S, NEW g \in Seq(S), NEW f \in Seq(S), Grown(g, f),
           Records(h, g) # {}
    PROVE  First(Records(h, f)) = First(Records(h, g))
<1> DEFINE a == First(Records(h, g))
           b == First(Records(h, f))
<1>1. /\ Records(h, g) \subseteq Records(h, f)
      /\ \A n \in Records(h, f) \ Records(h, g) : Len(g) <= n
  BY RecordsKept
<1>2. Records(h, g) \in SUBSET (1..Len(g)) /\ Records(h, f) \in SUBSET Nat /\ Len(g) \in Nat
  BY DEF Records
<1>3. a \in Records(h, g) /\ \A m \in Records(h, g) : a <= m
  BY <1>2, FirstIsLeast
<1>4. b \in Records(h, f) /\ \A m \in Records(h, f) : b <= m
  BY <1>1, <1>2, FirstIsLeast
<1> HIDE DEF a, b
<1>5. a \in Nat /\ b \in Nat /\ a <= Len(g) /\ b <= a
  BY <1>1, <1>2, <1>3, <1>4
<1>6. a <= b
  BY <1>1, <1>2, <1>3, <1>4, <1>5
<1> QED
  BY <1>5, <1>6 DEF a, b

\* What is said of a file that names its session stays, or it is one of Lasting.
LEMMA FileReportsKept ==
    ASSUME NEW h \in Transcript, NEW S, NEW g \in Seq(S), NEW f \in Seq(S), Grown(g, f),
           h = "pi" => SourceId("pi", g, None) = SourceId("pi", f, None),
           NEW s, NEW t, NEW d \in FileReports(h, g, s)
    PROVE  d \in FileReports(h, f, t) \/ d.code \in Lasting
<1>1. CASE h = "codex"
  BY <1>1 DEF FileReports
<1>2. CASE h = "grok"
  BY <1>2 DEF FileReports, Lasting
<1>3. CASE h = "pi"
  <2> DEFINE about(code) == [code |-> code, line |-> 0, entry |-> None]
             family(x) == [code |-> "unsupported_source_family", line |-> First(Records(h, x)),
                           entry |-> None]
             session(x) == SourceId("pi", x, None) = UnknownSession
  <2>1. \A x, u : \A r : r \in FileReports(h, x, u) <=>
          \/ Records(h, x) = {} /\ r = about("empty_session")
          \/ Records(h, x) # {} /\ ~ PiFamilyKnown(x) /\ r = family(x)
          \/ session(x) /\ r = about("missing_source_session_id")
          \/ (~ \E n \in Records(h, x) : x[n].type = "session") /\ r = about("missing_workspace")
    BY <1>3 DEF FileReports
  <2>2. CASE d = about("empty_session") \/ d = about("missing_workspace")
    BY <2>2 DEF Lasting
  <2>3. CASE session(g) /\ d = about("missing_source_session_id")
    BY <2>1, <2>3
  <2>4. CASE Records(h, g) # {} /\ ~ PiFamilyKnown(g) /\ d = family(g)
    <3>1. Records(h, f) # {} /\ Header(h, f) = Header(h, g)
      BY <2>4, HeaderKept
    <3>2. ~ PiFamilyKnown(f)
      BY <1>3, <2>4, <3>1 DEF PiFamilyKnown
    <3>3. First(Records(h, f)) = First(Records(h, g))
      BY <2>4, FirstKept
    <3> QED
      BY <2>1, <2>4, <3>1, <3>2, <3>3
  <2> HIDE DEF about, family, session
  <2> QED
    BY <2>1, <2>2, <2>3, <2>4
<1> QED
  BY <1>1, <1>2, <1>3 DEF Transcript

\* What is found about entries stays when there are more, but that an entry has no
\* parent or that it is on a cycle.
LEMMA GraphReportsKept ==
    ASSUME NEW g, NEW f, NEW E, NEW F, E \subseteq F, \A n \in E : f[n] = g[n],
           NEW d \in GraphReports(g, E)
    PROVE  d \in GraphReports(f, F) \/ d.code \in {"orphan_parent", "parent_cycle"}
<1>1. \A code : \A X, Y : X \subseteq E /\ X \subseteq Y
                            => Found(code, g, X) \subseteq Found(code, f, Y)
  BY DEF Found
<1>2. \A code : \A X : \A r \in Found(code, g, X) : r.code = code
  BY DEF Found
<1>3. /\ Named(g, E) \subseteq E /\ Named(g, E) \subseteq Named(f, F)
      /\ E \ Named(g, E) \subseteq F \ Named(f, F)
  BY DEF Named
<1>4. Named(g, E) \ Unique(g, E) \subseteq Named(f, F) \ Unique(f, F)
  <2> SUFFICES ASSUME NEW n \in Named(g, E), n \notin Unique(g, E) PROVE n \notin Unique(f, F)
    BY <1>3
  <2>1. n \in E /\ Holders(g, E, g[n].id) # {n} /\ f[n] = g[n]
    BY <1>3 DEF Unique
  <2>2. n \in Holders(g, E, g[n].id)
    BY DEF Holders
  <2>3. Holders(g, E, g[n].id) \subseteq Holders(f, F, f[n].id)
    BY <1>3, <2>1 DEF Holders
  <2> QED
    BY <2>1, <2>2, <2>3 DEF Unique
<1>5. /\ {n \in Named(g, E) : g[n].parent = None} \subseteq {n \in Named(f, F) : f[n].parent = None}
      /\ {n \in Named(g, E) : g[n].parent = g[n].id}
           \subseteq {n \in Named(f, F) : f[n].parent = f[n].id}
  BY <1>3
<1>6. CASE d \in Found("missing_entry_id", g, E \ Named(g, E))
  <2>1. d \in Found("missing_entry_id", f, F \ Named(f, F))
    BY <1>1, <1>3, <1>6
  <2> QED
    BY <2>1 DEF GraphReports
<1>7. CASE d \in Found("missing_parent_id", g, {n \in Named(g, E) : g[n].parent = None})
  <2>1. d \in Found("missing_parent_id", f, {n \in Named(f, F) : f[n].parent = None})
    <3>1. {n \in Named(g, E) : g[n].parent = None} \subseteq E
      BY <1>3
    <3> QED
      BY <1>1, <1>5, <1>7, <3>1
  <2> QED
    BY <2>1 DEF GraphReports
<1>8. CASE d \in Found("self_parent", g, {n \in Named(g, E) : g[n].parent = g[n].id})
  <2>1. d \in Found("self_parent", f, {n \in Named(f, F) : f[n].parent = f[n].id})
    <3>1. {n \in Named(g, E) : g[n].parent = g[n].id} \subseteq E
      BY <1>3
    <3> QED
      BY <1>1, <1>5, <1>8, <3>1
  <2> QED
    BY <2>1 DEF GraphReports
<1>9. CASE d \in Found("duplicate_entry_id", g, Named(g, E) \ Unique(g, E))
  <2>1. d \in Found("duplicate_entry_id", f, Named(f, F) \ Unique(f, F))
    <3>1. Named(g, E) \ Unique(g, E) \subseteq E
      BY <1>3
    <3> QED
      BY <1>1, <1>4, <1>9, <3>1
  <2> QED
    BY <2>1 DEF GraphReports
<1>10. \/ d \in Found("missing_entry_id", g, E \ Named(g, E))
       \/ d \in Found("missing_parent_id", g, {n \in Named(g, E) : g[n].parent = None})
       \/ d \in Found("self_parent", g, {n \in Named(g, E) : g[n].parent = g[n].id})
       \/ d \in Found("duplicate_entry_id", g, Named(g, E) \ Unique(g, E))
       \/ \E X : d \in Found("orphan_parent", g, X)
       \/ \E X : d \in Found("parent_cycle", g, X)
  BY DEF GraphReports
<1> QED
  BY <1>2, <1>6, <1>7, <1>8, <1>9, <1>10

\* So whatever is no longer said of a session was put right, or is an entry whose
\* parent was missing, or is one of Lasting.
LEMMA ReportsKept ==
    ASSUME NEW h \in Transcript, NEW S, NEW g \in Seq(S), NEW f \in Seq(S), Grown(g, f),
           h = "pi" => SourceId("pi", g, None) = SourceId("pi", f, None), NEW s, NEW t,
           NEW d \in TranscriptReports(h, g, s), d \notin TranscriptReports(h, f, t)
    PROVE  \/ d.code = "malformed_jsonl" /\ d.line \in Records(h, f)
           \/ d.code \in Lasting
           \/ d.code = "orphan_parent"
<1>1. CASE d \in Rejections(h, g)
  BY <1>1, RejectionsKept DEF TranscriptReports
<1>2. CASE d \in FileReports(h, g, s)
  BY <1>2, FileReportsKept DEF TranscriptReports
<1>3. CASE h = "pi" /\ d \in GraphReports(g, PiEntries(g))
  <2>1. PiEntries(g) \subseteq PiEntries(f) /\ \A n \in PiEntries(g) : f[n] = g[n]
    BY <1>3, LinesKept DEF EventLines
  <2>2. d \in GraphReports(f, PiEntries(f)) \/ d.code \in {"orphan_parent", "parent_cycle"}
    BY <1>3, <2>1, GraphReportsKept
  <2> QED
    BY <1>3, <2>2 DEF TranscriptReports, Lasting
<1> QED
  BY <1>1, <1>2, <1>3 DEF TranscriptReports

Orphan(f, d) ==
    /\ d.line \in PiEntries(f)
    /\ d = [code |-> "orphan_parent", line |-> d.line, entry |-> f[d.line].id]
    /\ f[d.line].parent \notin {None, Root}
    /\ Holders(f, PiEntries(f), f[d.line].parent) = {}

\* Only an entry whose parent is missing is reported as one.
LEMMA OrphanReported ==
    ASSUME NEW h \in Transcript, NEW f, NEW s, NEW d,
           d.code = "orphan_parent"
    PROVE  d \in TranscriptReports(h, f, s) <=> h = "pi" /\ Orphan(f, d)
<1>1. d \notin Rejections(h, f)
  <2>1. \A form \in DOMAIN RejectionCode(h) : RejectionCode(h)[form] # "orphan_parent"
    BY DEF Transcript, RejectionCode
  <2>2. \A n \in DOMAIN f \ Records(h, f) : f[n].form \in DOMAIN RejectionCode(h)
    BY DEF Records
  <2> QED
    BY <2>1, <2>2 DEF Rejections
<1>2. d \notin FileReports(h, f, s)
  BY DEF FileReports, Transcript
<1>3. d \in GraphReports(f, PiEntries(f)) <=> Orphan(f, d)
  <2> DEFINE E == PiEntries(f)
             X == {n \in E : /\ f[n].parent \notin {None, Root}
                             /\ Holders(f, E, f[n].parent) = {}}
  <2>1. \A code, Y : d \in Found(code, f, Y)
                       <=> \E n \in Y : d = [code |-> code, line |-> n, entry |-> f[n].id]
    BY DEF Found
  <2>2. d \in Found("orphan_parent", f, X) <=> Orphan(f, d)
    BY <2>1 DEF Orphan
  <2>3. d \in GraphReports(f, E) <=> d \in Found("orphan_parent", f, X)
    <3> HIDE DEF E
    <3>1. d \in GraphReports(f, E) <=>
            \/ d \in Found("orphan_parent", f, X)
            \/ \E Y : \/ d \in Found("missing_entry_id", f, Y) /\ Y = E \ Named(f, E)
                      \/ d \in Found("missing_parent_id", f, Y)
                         /\ Y = {n \in Named(f, E) : f[n].parent = None}
                      \/ d \in Found("self_parent", f, Y)
                         /\ Y = {n \in Named(f, E) : f[n].parent = f[n].id}
                      \/ d \in Found("duplicate_entry_id", f, Y)
                         /\ Y = Named(f, E) \ Unique(f, E)
                      \/ d \in Found("parent_cycle", f, Y) /\ Y = CycleEntries(Parent(f, E))
      BY DEF GraphReports
    <3>2. \A code, Y : d \in Found(code, f, Y) => code = "orphan_parent"
      BY <2>1
    <3> QED
      BY <3>1, <3>2
  <2> QED
    BY <2>2, <2>3
<1> QED
  BY <1>1, <1>2, <1>3 DEF TranscriptReports, Transcript

\* Every event of a file is listed, or an earlier one with its id.
LEMMA EveryEventListed ==
    ASSUME NEW h \in Transcript, NEW S, NEW f \in Seq(S), Narrow(f), NEW e \in Events(h, f)
    PROVE  e.id \in DOMAIN TranscriptListing(h, f)
<1> DEFINE same == {d \in Events(h, f) : d.id = e.id}
           ranks == {d.rank : d \in same}
<1>1. ranks \in SUBSET Nat /\ ranks # {}
  BY EventsTidy
<1>2. PICK r \in ranks : \A q \in ranks : r <= q
  <2> HIDE DEF ranks
  <2> QED
    BY <1>1, NatLeast
<1>3. PICK d \in same : d.rank = r
  BY <1>2
<1>4. d \in Foremost(Events(h, f)) /\ d.id = e.id
  BY <1>2, <1>3 DEF Foremost
<1> QED
  BY <1>4 DEF TranscriptListing

\* The event of an entry whose parent is missing is listed, under an id of its line.
LEMMA OrphanListed ==
    ASSUME NEW S, NEW f \in Seq(S), Narrow(f), NEW d, Orphan(f, d)
    PROVE  \E id \in DOMAIN TranscriptListing("pi", f) : id[1] = d.line
<1> DEFINE n == d.line
           kind == PiKind(f[n])
           own == [rank |-> n * (MaxCalls + 1) + 0, line |-> n, place |-> 0,
                   id |-> EventId(n, f[n], kind, "record"),
                   call |-> IF kind \in {"tool_call", "tool_result"}
                              THEN f[n].calls[1] ELSE None]
<1>1. kind # None
  BY KindsAssumption DEF PiKind
<1>2. own \in EventsOfLine("pi", f[n], n)
  BY <1>1 DEF EventsOfLine, KindOf
<1>3. own \in Events("pi", f)
  BY <1>2 DEF Events, Orphan
<1>4. own.id \in DOMAIN TranscriptListing("pi", f) /\ own.id[1] = n
  <2>1. own.id[1] = n
    BY DEF EventId
  <2> HIDE DEF own
  <2> QED
    BY <1>3, <2>1, EveryEventListed DEF Transcript
<1> QED
  BY <1>4

\* The rows of the events of a line that an import stores are written with the
\* missing parent of its entry, if it is missing even later.
LEMMA OrphanFound ==
    ASSUME NEW S, NEW g \in Seq(S), NEW f \in Seq(S), Grown(g, f), Narrow(g), NEW d, Orphan(f, d),
           NEW id \in DOMAIN TranscriptRows("pi", g), id[1] = d.line
    PROVE  d \in TranscriptRows("pi", g)[id].found
<1> DEFINE F == Foremost(Events("pi", g))
           the(x) == CHOOSE e \in F : e.id = x
           reports == {r \in TranscriptReports("pi", g, NoSummary) : r.line # 0}
<1>1. /\ DOMAIN TranscriptRows("pi", g) = {e.id : e \in F}
      /\ \A x \in {e.id : e \in F} :
           TranscriptRows("pi", g)[x].found = FoundOn(reports, g, the(x))
  BY DEF TranscriptRows
<1>2. the(id) \in F /\ the(id).id = id
  BY <1>1
<1> DEFINE e == the(id)
<1>3. e \in Events("pi", g)
  BY <1>2 DEF Foremost
<1> HIDE DEF F, the, e
<1>4. PICK n \in PiEntries(g) : e \in EventsOfLine("pi", g[n], n)
  BY <1>3 DEF Events
<1>5. n \in 1..Len(g) /\ e.line = n /\ e.id[1] = n
  <2>1. n \in 1..Len(g)
    BY DEF PiEntries, Records
  <2>2. e.line = n /\ e.id[1] = n
    BY <1>4 DEF EventsOfLine, EventId
  <2> QED
    BY <2>1, <2>2
<1>6. n = d.line
  BY <1>2, <1>5 DEF e
<1>7. Orphan(g, d)
  <2>1. PiEntries(g) \subseteq PiEntries(f) /\ \A m \in PiEntries(g) : f[m] = g[m]
    BY LinesKept DEF EventLines, Transcript
  <2>2. Holders(g, PiEntries(g), g[n].parent) \subseteq Holders(f, PiEntries(f), f[n].parent)
    BY <2>1 DEF Holders, Named
  <2> QED
    BY <1>6, <2>1, <2>2 DEF Orphan
<1>8. d \in reports
  <2>1. d.code = "orphan_parent"
    BY <1>7 DEF Orphan
  <2>2. d \in TranscriptReports("pi", g, NoSummary)
    BY <1>7, <2>1, OrphanReported DEF Transcript
  <2>3. d.line # 0
    <3>1. n # 0
      BY <1>5
    <3> QED
      BY <1>6, <3>1
  <2> QED
    BY <2>2, <2>3
<1>9. d \in FoundOn(reports, g, e)
  <2> HIDE DEF reports
  <2> QED
    BY <1>5, <1>6, <1>8 DEF FoundOn
<1> QED
  BY <1>1, <1>9 DEF e

\* What earlier imports have read: what the file was, also when the import that
\* runs read it.
Was(g) == Grown(g, file) /\ (job.pc # "idle" => Grown(g, job.file))

\* A report of a Work was said of what the file was.  A row carries it, if only a
\* row can tell that it was put right.
Reported(work, w, d) ==
    \E g \in Files :
      /\ Was(g) /\ (harness = "pi" => SourceId("pi", g, None) = w)
      /\ \E s : d \in TranscriptReports(harness, g, s)
      /\ d.code = "orphan_parent" =>
           \E id \in DOMAIN work.rows \cap DOMAIN TranscriptListing(harness, g) :
             d \in work.data[id].found

\* A row is as the import that first saw its event wrote it.
Written(work, id) ==
    \E g \in Files :
      /\ Was(g) /\ id \in DOMAIN TranscriptRows(harness, g)
      /\ work.data[id].found = TranscriptRows(harness, g)[id].found

WorkReports(w) == /\ \A d \in works[w].reports : Reported(works[w], w, d)
                  /\ \A id \in DOMAIN works[w].data : Written(works[w], id)

ReportInv ==
    \A w \in DOMAIN works :
      IF harness \in Transcript THEN WorkReports(w) ELSE works[w].reports = {}

\* What an import has read stays what the file was.
LEMMA WasStays ==
    ASSUME Inv, harness \in Transcript, [Next]_vars, NEW g \in Files, Was(g)
    PROVE  Was(g)' /\ UNCHANGED <<harness, Files>>
<1>0. file \in Files /\ job.file \in Files /\ g \in Files
  BY DEF Inv, JobOK
<1>1. ASSUME file' \in Files, Grown(file, file'), UNCHANGED <<harness, job>>
      PROVE  Was(g)' /\ UNCHANGED <<harness, Files>>
  <2>1. Grown(g, file')
    BY <1>0, <1>1, GrownTransitive DEF Was, Files
  <2>2. job.pc # "idle" => Grown(g, job.file)
    BY DEF Was
  <2> QED
    BY <1>1, <2>1, <2>2 DEF Was, Files, Grown
<1>2. ASSUME UNCHANGED <<harness, file>>,
             job'.pc # "idle" => job'.file = file \/ (job'.file = job.file /\ job.pc # "idle")
      PROVE  Was(g)' /\ UNCHANGED <<harness, Files>>
  BY <1>2 DEF Was, Files, Grown
<1>3. CASE AppendLine
  <2>1. PICK l \in Lines[harness] \cup {Torn} : file' = Append(file, l)
    BY <1>3 DEF AppendLine
  <2>2. file' \in Files /\ Grown(file, file')
    BY <2>1 DEF Inv, Files, Grown
  <2> QED
    BY <1>1, <1>3, <2>2 DEF AppendLine
<1>4. CASE CompleteLine
  <2>1. PICK l \in Lines[harness] :
          l.form = "record" /\ file' = [file EXCEPT ![Len(file)] = l]
    BY <1>4 DEF CompleteLine
  <2>2. file # <<>> /\ file[Len(file)] = Torn
    BY <1>4 DEF CompleteLine, Unbroken
  <2>3. file' \in Files /\ Grown(file, file')
    BY <2>1, <2>2 DEF Inv, Files, Grown
  <2> QED
    BY <1>1, <1>4, <2>3 DEF CompleteLine
<1>5. CASE WriteSummary \/ RewriteSummary \/ AddMessage \/ AddPart \/ ChangePart
           \/ UNCHANGED vars
  <2>1. UNCHANGED <<harness, file, job>>
    BY <1>5 DEF WriteSummary, RewriteSummary, AddMessage, AddPart, ChangePart, vars
  <2> QED
    BY <1>2, <2>1
<1>6. CASE Import
  <2>1. UNCHANGED <<harness, file>>
    BY <1>6 DEF Import, ReadFile, ReadSummary, ReadMessages, ReadParts, ReadSnapshot, Store,
                Refuse, Fail, Unread, source
  <2>2. job'.pc # "idle" => job'.file = file \/ (job'.file = job.file /\ job.pc # "idle")
    <3>1. job = [pc |-> job.pc, file |-> job.file, sidecar |-> job.sidecar,
                 messages |-> job.messages, parts |-> job.parts]
      BY DEF Inv, JobOK
    <3>2. harness # "opencode"
      BY DEF Transcript
    <3>3. CASE ReadFile
      BY <3>1, <3>3 DEF ReadFile
    <3>4. CASE ReadSummary
      BY <3>1, <3>4 DEF ReadSummary
    <3>5. CASE ReadMessages \/ ReadSnapshot
      BY <3>2, <3>5 DEF ReadMessages, ReadSnapshot
    <3>6. CASE ReadParts
      BY <3>1, <3>6 DEF ReadParts
    <3>7. CASE Store \/ Refuse \/ Fail
      BY <3>7 DEF Store, Refuse, Fail, Idle
    <3> QED
      BY <1>6, <3>3, <3>4, <3>5, <3>6, <3>7 DEF Import
  <2> QED
    BY <1>2, <2>1, <2>2
<1> QED
  BY <1>3, <1>4, <1>5, <1>6 DEF Next, Harness

\* And so what a Work reports stays something that was said of it.
LEMMA WorkStays ==
    ASSUME Inv, harness \in Transcript, [Next]_vars, NEW work, NEW w
    PROVE  /\ \A d : Reported(work, w, d) => Reported(work, w, d)'
           /\ \A id : Written(work, id) => Written(work, id)'
<1>1. \A g \in Files : Was(g) => Was(g)' /\ UNCHANGED <<harness, Files>>
  BY WasStays
<1>2. ASSUME NEW d, Reported(work, w, d) PROVE Reported(work, w, d)'
  <2>1. PICK g \in Files :
      /\ Was(g) /\ (harness = "pi" => SourceId("pi", g, None) = w)
      /\ \E s : d \in TranscriptReports(harness, g, s)
      /\ d.code = "orphan_parent" =>
           \E id \in DOMAIN work.rows \cap DOMAIN TranscriptListing(harness, g) :
             d \in work.data[id].found
    BY <1>2 DEF Reported
  <2>2. Was(g)' /\ harness' = harness /\ Files' = Files
    BY <1>1, <2>1
  <2> QED
    BY <2>1, <2>2 DEF Reported
<1>3. ASSUME NEW id, Written(work, id) PROVE Written(work, id)'
  <2>1. PICK g \in Files :
          /\ Was(g) /\ id \in DOMAIN TranscriptRows(harness, g)
          /\ work.data[id].found = TranscriptRows(harness, g)[id].found
    BY <1>3 DEF Written
  <2>2. Was(g)' /\ harness' = harness /\ Files' = Files
    BY <1>1, <2>1
  <2> QED
    BY <2>1, <2>2 DEF Written
<1> QED
  BY <1>2, <1>3

\* What an import finds stored is reported and written, if anything is.
LEMMA LoadedReports ==
    ASSUME ReportInv, harness \in Transcript, NEW w
    PROVE  /\ \A d \in Loaded(w).reports : Reported(Loaded(w), w, d)
           /\ \A id \in DOMAIN Loaded(w).data : Written(Loaded(w), id)
<1>1. CASE w \in DOMAIN works
  <2>1. Loaded(w) = works[w]
    BY <1>1 DEF Loaded
  <2> QED
    BY <1>1, <2>1 DEF ReportInv, WorkReports
<1>2. CASE w \notin DOMAIN works
  BY <1>2 DEF Loaded, NoWork, Empty
<1> QED
  BY <1>1, <1>2

\* An import keeps what was said of the session before, but no missing parent.
LEMMA KeptReports ==
    ASSUME Inv, ReportInv, harness \in Transcript, Store,
           NEW d \in Kept(Loaded(ObservedId(job)), Observed(job))
    PROVE  /\ d.code # "orphan_parent"
           /\ \E g \in Files : /\ Grown(g, job.file)
                               /\ harness = "pi" =>
                                    SourceId("pi", g, None) = SourceId("pi", job.file, None)
                               /\ \E s : d \in TranscriptReports(harness, g, s)
<1> DEFINE w == ObservedId(job)
           work == Loaded(w)
           L == TranscriptListing(harness, job.file)
<1>1. /\ harness = "pi" => w = SourceId("pi", job.file, None)
      /\ Observed(job) = L /\ job.file \in Files /\ job.pc # "idle"
  BY DEF ObservedId, SourceId, Observed, Inv, JobOK, Store
<1>2. /\ d \in work.reports
      /\ \A id \in DOMAIN work.rows \cap DOMAIN L : d \notin work.data[id].found
  BY <1>1 DEF Kept
<1>3. Reported(work, w, d)
  BY <1>2, LoadedReports
<1> HIDE DEF w, work
<1>4. PICK g \in Files :
        /\ Was(g) /\ (harness = "pi" => SourceId("pi", g, None) = w)
        /\ \E s : d \in TranscriptReports(harness, g, s)
        /\ d.code = "orphan_parent" =>
             \E id \in DOMAIN work.rows \cap DOMAIN TranscriptListing(harness, g) :
               d \in work.data[id].found
  BY <1>3 DEF Reported
<1>5. Grown(g, job.file)
  BY <1>1, <1>4 DEF Was
<1>6. DOMAIN TranscriptListing(harness, g) \subseteq DOMAIN L
  <2>1. Narrow(g) /\ Narrow(job.file)
    BY <1>1, FilesAreNarrow
  <2> QED
    BY <1>1, <1>5, <2>1, ListingKept DEF Files
<1>7. d.code # "orphan_parent"
  <2> HIDE DEF L
  <2> QED
    BY <1>2, <1>4, <1>6
<1> QED
  BY <1>1, <1>4, <1>5, <1>7

\* What an import stores is what it has read, or was said before.
LEMMA ReportsStored ==
    ASSUME Inv, ReportInv, Store, harness \in Transcript,
           NEW w, w = ObservedId(job), NEW work, work = Loaded(w), NEW f, f = job.file,
           NEW new, new = Attached(work, job)
    PROVE  /\ \A d \in new.reports : Reported(new, w, d)'
           /\ \A id \in DOMAIN new.data : Written(new, id)'
<1>1. UNCHANGED <<harness, file, Files>> /\ job' = Idle
  BY DEF Store, source, Files
<1>2. /\ harness = "pi" => w = SourceId("pi", f, None)
      /\ f \in Files /\ Grown(f, file) /\ job.pc # "idle"
      /\ Narrow(f) /\ Grown(f, f) /\ f \in Seq(Lines[harness] \cup {Torn})
  <2>1. f \in Files /\ Grown(f, file) /\ job.pc # "idle"
    BY DEF Inv, JobOK, Store
  <2> QED
    BY <2>1, FilesAreNarrow DEF ObservedId, SourceId, Files, Grown
<1>3. [Next]_vars
  BY DEF Next, Import
<1>4. /\ \A d \in work.reports : Reported(work, w, d)
      /\ \A id \in DOMAIN work.data : Written(work, id)
  BY LoadedReports
<1>5. /\ new.reports = Kept(work, Observed(job)) \cup TranscriptReports(harness, f, job.sidecar)
      /\ DOMAIN new.rows = DOMAIN work.rows \cup DOMAIN TranscriptListing(harness, f)
      /\ DOMAIN new.data = DOMAIN work.data \cup DOMAIN TranscriptRows(harness, f)
      /\ \A id \in DOMAIN work.data : new.data[id] = work.data[id]
      /\ \A id \in DOMAIN TranscriptRows(harness, f) \ DOMAIN work.data :
           new.data[id] = TranscriptRows(harness, f)[id]
  <2>1. /\ new.reports = Kept(work, Observed(job)) \cup TranscriptReports(harness, f, job.sidecar)
        /\ new.rows = AppendAll(work.rows, TranscriptListing(harness, f))
        /\ new.data = InsertOrIgnore(work.data, TranscriptRows(harness, f))
    BY DEF Attached, Observed, ObservedReports, ObservedRows
  <2>2. DOMAIN AppendAll(work.rows, TranscriptListing(harness, f))
          = DOMAIN work.rows \cup DOMAIN TranscriptListing(harness, f)
    BY AppendAllDomain, Zenon
  <2>3. DOMAIN new.rows = DOMAIN work.rows \cup DOMAIN TranscriptListing(harness, f)
    BY <2>1, <2>2, Zenon
  <2>4. /\ DOMAIN new.data = DOMAIN work.data \cup DOMAIN TranscriptRows(harness, f)
        /\ \A id \in DOMAIN work.data : new.data[id] = work.data[id]
        /\ \A id \in DOMAIN TranscriptRows(harness, f) \ DOMAIN work.data :
             new.data[id] = TranscriptRows(harness, f)[id]
    BY <2>1 DEF InsertOrIgnore
  <2> QED
    BY <2>1, <2>3, <2>4
<1>6. /\ Was(f)' /\ f \in Files' /\ (harness' = "pi" => SourceId("pi", f, None) = w)
  BY <1>1, <1>2 DEF Was, Idle, Grown
<1>7. ASSUME NEW id \in DOMAIN new.data PROVE Written(new, id)'
  <2>1. CASE id \in DOMAIN work.data
    <3>1. Written(work, id)'
      BY <1>3, <1>4, <2>1, WorkStays
    <3> QED
      BY <1>5, <2>1, <3>1 DEF Written
  <2>2. CASE id \notin DOMAIN work.data
    BY <1>1, <1>5, <1>6, <1>7, <2>2 DEF Written
  <2> QED
    BY <2>1, <2>2
<1>8. ASSUME NEW d \in Kept(work, Observed(job)) PROVE Reported(new, w, d)'
  <2>1. d.code # "orphan_parent"
    BY <1>8, KeptReports
  <2>2. d \in work.reports
    BY DEF Kept
  <2>3. Reported(work, w, d)'
    BY <1>3, <1>4, <2>2, WorkStays
  <2> QED
    BY <2>1, <2>3 DEF Reported
<1>9. ASSUME NEW d \in TranscriptReports(harness, f, job.sidecar)
      PROVE  Reported(new, w, d)'
  <2>1. ASSUME d.code = "orphan_parent"
        PROVE  \E id \in DOMAIN new.rows \cap DOMAIN TranscriptListing(harness, f) :
                 d \in new.data[id].found
    <3>1. harness = "pi" /\ Orphan(f, d)
      BY <1>9, <2>1, OrphanReported
    <3>2. PICK id \in DOMAIN TranscriptListing(harness, f) : id[1] = d.line
      BY <1>2, <3>1, OrphanListed
    <3>3. id \in DOMAIN TranscriptRows(harness, f)
      BY DEF TranscriptRows, TranscriptListing
    <3>4. CASE id \in DOMAIN work.data
      <4>1. PICK g \in Files :
              /\ Was(g) /\ id \in DOMAIN TranscriptRows(harness, g)
              /\ work.data[id].found = TranscriptRows(harness, g)[id].found
        BY <1>4, <3>4 DEF Written
      <4>2. Grown(g, f) /\ Narrow(g)
        BY <1>2, <4>1, FilesAreNarrow DEF Was
      <4>3. d \in TranscriptRows(harness, g)[id].found
        BY <1>2, <3>1, <3>2, <4>1, <4>2, OrphanFound DEF Files
      <4> QED
        BY <1>5, <3>2, <3>4, <4>1, <4>3
    <3>5. CASE id \notin DOMAIN work.data
      <4>1. d \in TranscriptRows(harness, f)[id].found
        BY <1>2, <3>1, <3>2, <3>3, OrphanFound
      <4> QED
        BY <1>5, <3>2, <3>3, <3>5, <4>1
    <3> QED
      BY <3>4, <3>5
  <2> QED
    BY <1>1, <1>6, <1>9, <2>1 DEF Reported
<1> QED
  BY <1>5, <1>7, <1>8, <1>9

LEMMA ReportStoreStep == ASSUME Inv, ReportInv, Store PROVE ReportInv'
<1> DEFINE w == ObservedId(job)
           work == Loaded(w)
           f == job.file
           new == Attached(work, job)
<1>1. /\ UNCHANGED <<harness, file, Files>> /\ job' = Idle
      /\ works' = [u \in DOMAIN works \cup {w} |-> IF u = w THEN new ELSE works[u]]
  BY DEF Store, source, Files
<1>2. CASE harness \notin Transcript
  <2>1. new.reports = {}
    <3>1. ObservedReports(job) = {}
      BY <1>2 DEF ObservedReports
    <3>2. work.reports = {}
      BY <1>2 DEF Loaded, NoWork, ReportInv
    <3> HIDE DEF work, w
    <3> QED
      BY <3>1, <3>2 DEF Attached, Kept
  <2> HIDE DEF new, w
  <2> QED
    BY <1>1, <1>2, <2>1 DEF ReportInv
<1>3. CASE harness \in Transcript
  <2>1. [Next]_vars
    BY DEF Next, Import
  <2>2. ASSUME NEW v \in DOMAIN works, v # w PROVE WorkReports(v)'
    <3>1. works'[v] = works[v]
      BY <1>1, <2>2
    <3>2. WorkReports(v)
      BY <1>3 DEF ReportInv
    <3> QED
      BY <1>3, <2>1, <3>1, <3>2, WorkStays DEF WorkReports
  <2>3. ASSUME NEW v, v = w PROVE WorkReports(v)'
    <3>1. PICK n : n = new
      OBVIOUS
    <3>2. works'[v] = n
      BY <1>1, <2>3, <3>1
    <3>3. /\ \A d \in n.reports : Reported(n, v, d)'
          /\ \A id \in DOMAIN n.data : Written(n, id)'
      BY <1>3, <2>3, <3>1, ReportsStored
    <3> QED
      BY <3>2, <3>3 DEF WorkReports
  <2> QED
    BY <1>1, <1>3, <2>1, <2>2, <2>3 DEF ReportInv
<1> QED
  BY <1>2, <1>3

LEMMA ReportStep == ASSUME Inv, ReportInv, [Next]_vars PROVE ReportInv'
<1>1. CASE Store
  BY <1>1, ReportStoreStep
<1>2. CASE ~ Store
  <2>1. UNCHANGED <<harness, works>>
    BY <1>2 DEF Next, Harness, Import, AppendLine, CompleteLine, WriteSummary,
                RewriteSummary, AddMessage, AddPart, ChangePart, ReadFile, ReadSummary, ReadMessages, ReadParts,
                ReadSnapshot, Refuse, Fail, Unread, vars
  <2>2. CASE harness \in Transcript
    <3>1. ASSUME NEW w \in DOMAIN works PROVE WorkReports(w)'
      <4>1. WorkReports(w)
        BY <2>2 DEF ReportInv
      <4>2. works'[w] = works[w]
        BY <2>1
      <4> QED
        BY <2>2, <4>1, <4>2, WorkStays DEF WorkReports
    <3> QED
      BY <2>1, <2>2, <3>1 DEF ReportInv
  <2>3. CASE harness \notin Transcript
    BY <2>1, <2>3 DEF ReportInv
  <2> QED
    BY <2>2, <2>3
<1> QED
  BY <1>1, <1>2

\* After an import a Work reports everything that is wrong with the session, and
\* of what was wrong once only what no event can tell that it was put right, for
\* files of any length and any number of imports (work/observe.ts:124-145,
\* pi/normalize.ts:152-168).
THEOREM ReportsAreExact == Spec => ReportsExact
<1>1. Init => ReportInv
  BY DEF Init, ReportInv
<1>2. Inv /\ ReportInv /\ [Next]_vars => ReportInv'
  BY ReportStep
<1> DEFINE Exact ==
      LET reports == works'[ObservedId(job)].reports
          lasting == {"missing_summary", "missing_workspace", "empty_session", "parent_cycle"}
      IN  /\ ObservedReports(job) \subseteq reports
          /\ \A d \in reports \ ObservedReports(job) :
               \/ d.code = "malformed_jsonl" /\ d.line \in Records(harness, job.file)
               \/ d.code \in lasting
<1>3. ASSUME Inv, ReportInv, Store PROVE Exact
  <2> DEFINE w == ObservedId(job)
  <2>1. works'[w].reports = Kept(Loaded(w), Observed(job)) \cup ObservedReports(job)
    <3>1. works'[w] = Attached(Loaded(w), job)
      BY <1>3 DEF Store
    <3> HIDE DEF w
    <3> QED
      BY <3>1 DEF Attached
  <2>2. ASSUME NEW d \in Kept(Loaded(w), Observed(job)), d \notin ObservedReports(job)
        PROVE  \/ d.code = "malformed_jsonl" /\ d.line \in Records(harness, job.file)
               \/ d.code \in Lasting
    <3>1. CASE harness \in Transcript
      <4>1. d.code # "orphan_parent"
        BY <1>3, <2>2, <3>1, KeptReports
      <4>2. PICK g \in Files : /\ Grown(g, job.file)
                               /\ harness = "pi" =>
                                    SourceId("pi", g, None) = SourceId("pi", job.file, None)
                               /\ \E s : d \in TranscriptReports(harness, g, s)
        BY <1>3, <2>2, <3>1, KeptReports
      <4>3. d \notin TranscriptReports(harness, job.file, job.sidecar)
        BY <2>2, <3>1 DEF ObservedReports
      <4>4. job.file \in Files
        BY <1>3 DEF Inv, JobOK
      <4> QED
        BY <3>1, <4>1, <4>2, <4>3, <4>4, ReportsKept DEF Files
    <3>2. CASE harness \notin Transcript
      BY <1>3, <2>2, <3>2 DEF Kept, Loaded, NoWork, ReportInv
    <3> QED
      BY <3>1, <3>2
  <2> QED
    BY <2>1, <2>2 DEF Lasting
<1>4. Inv /\ ReportInv /\ [Next]_vars => [Store => Exact]_vars
  BY <1>3
<1> QED
  BY <1>1, <1>2, <1>4, Invariance, PTL DEF Spec, ReportsExact
=============================================================================
